-------------------------- MODULE ChatEpochsProofs --------------------------
(***************************************************************************)
(* Proofs about ChatEpochs, for any number of users, devices, chats and    *)
(* workers.                                                                *)
(***************************************************************************)
EXTENDS ChatEpochsProps, TLAPS

(* Every worker starts and ends with a well-formed, empty transaction. *)
LEMMA IdleType == Idle \in Tx
BY DEF Idle, Tx, Steps, Ops, Removals

LEMMA StartType ==
    ASSUME NEW op \in Ops, NEW S \in SUBSET Users, NEW c \in Chats \cup {NoChat},
           NEW pc \in Steps
    PROVE  Start(op, S, c, pc) \in Tx
BY DEF Start, Idle, Tx

(* Replacing one field of a transaction by a value of its type gives a transaction. *)
LEMMA FieldTypes ==
    ASSUME NEW t \in Tx
    PROVE  /\ \A x \in Steps : [t EXCEPT !.pc = x] \in Tx
           /\ \A x \in SUBSET Users : [t EXCEPT !.rows = x] \in Tx
           /\ \A x \in SUBSET Chats : [t EXCEPT !.todo = x] \in Tx
           /\ \A x \in Chats : [t EXCEPT !.chat = x] \in Tx
           /\ \A x \in [Chats -> Nat] : [t EXCEPT !.seen = x] \in Tx
           /\ \A x \in [Chats -> Nat] : [t EXCEPT !.opened = x] \in Tx
           /\ \A x \in [Chats -> SUBSET Devices] : [t EXCEPT !.roster = x] \in Tx
BY DEF Tx

LEMMA VisibleType ==
    ASSUME TypeOK, NEW w \in Workers, NEW c \in Chats
    PROVE  Visible(w, c) \in SUBSET Users
BY DEF Visible, TypeOK, Tx

LEMMA RosterType == ASSUME NEW S PROVE Roster(S) \in SUBSET Devices
BY DEF Roster

(* The statements of a transaction keep it well-formed. *)
LEMMA StatementType ==
    ASSUME TypeOK, NEW w \in Workers, Statement(w)
    PROVE  tx' \in [Workers -> Tx]
<1>1. tx[w] \in Tx
  BY DEF TypeOK
<1>2. CASE DeleteRows(w)
  <2>1. [tx[w] EXCEPT !.rows = tx[w].users \cap members[tx[w].chat]] \in Tx
    BY <1>1, FieldTypes DEF Tx
  <2>2. [[tx[w] EXCEPT !.rows = tx[w].users \cap members[tx[w].chat]] EXCEPT !.pc = "settings"] \in Tx
    BY <2>1, FieldTypes DEF Steps
  <2>3. tx' = [tx EXCEPT ![w] = [[tx[w] EXCEPT !.rows = tx[w].users \cap members[tx[w].chat]] EXCEPT !.pc = "settings"]]
    BY <1>2 DEF DeleteRows, TypeOK
  <2> QED BY <2>2, <2>3 DEF TypeOK
<1>3. CASE InsertRows(w)
  <2>1. [tx[w] EXCEPT !.rows = tx[w].users \ members[tx[w].chat]] \in Tx
    BY <1>1, FieldTypes DEF Tx
  <2>2. [[tx[w] EXCEPT !.rows = tx[w].users \ members[tx[w].chat]] EXCEPT !.pc = "settings"] \in Tx
    BY <2>1, FieldTypes DEF Steps
  <2>3. tx' = [tx EXCEPT ![w] = [[tx[w] EXCEPT !.rows = tx[w].users \ members[tx[w].chat]] EXCEPT !.pc = "settings"]]
    BY <1>3 DEF InsertRows, TypeOK
  <2> QED BY <2>2, <2>3 DEF TypeOK
<1>4. CASE InsertSettings(w)
  <2>1. [tx[w] EXCEPT !.pc = IF current[tx[w].chat] > 0 THEN "clash" ELSE "lock"] \in Tx
    BY <1>1, FieldTypes DEF Steps
  <2>2. tx' = [tx EXCEPT ![w] = [tx[w] EXCEPT !.pc = IF current[tx[w].chat] > 0 THEN "clash" ELSE "lock"]]
    BY <1>4 DEF InsertSettings, TypeOK
  <2> QED BY <2>1, <2>2 DEF TypeOK
<1>5. CASE ReadSettings(w)
  <2>1. tx[w].seen \in [Chats -> Nat] /\ current \in [Chats -> Nat]
    BY <1>1 DEF Tx, TypeOK
  <2>2. [tx[w].seen EXCEPT ![tx[w].chat] = current[tx[w].chat]] \in [Chats -> Nat]
    BY <2>1
  <2>3. /\ [tx[w] EXCEPT !.pc = "commit"] \in Tx
        /\ [tx[w] EXCEPT !.pc = "lock"] \in Tx
    BY <1>1, FieldTypes DEF Steps
  <2>4. [[tx[w] EXCEPT !.pc = "lock"]
           EXCEPT !.seen = [tx[w].seen EXCEPT ![tx[w].chat] = current[tx[w].chat]]] \in Tx
    BY <2>2, <2>3, FieldTypes
  <2>5. \/ tx' = [tx EXCEPT ![w] = [tx[w] EXCEPT !.pc = "commit"]]
        \/ tx' = [tx EXCEPT ![w] = [[tx[w] EXCEPT !.pc = "lock"]
               EXCEPT !.seen = [tx[w].seen EXCEPT ![tx[w].chat] = current[tx[w].chat]]]]
    BY <1>1, <1>5 DEF ReadSettings, TypeOK, Tx
  <2> QED BY <2>3, <2>4, <2>5 DEF TypeOK
<1>6. CASE ListChats(w)
  <2>1. [tx[w] EXCEPT !.todo = {c \in Chats : tx[w].users \cap members[c] # {} /\ current[c] > 0}] \in Tx
    BY <1>1, FieldTypes
  <2>2. [[tx[w] EXCEPT !.todo = {c \in Chats : tx[w].users \cap members[c] # {} /\ current[c] > 0}] EXCEPT !.pc = "pick"] \in Tx
    BY <2>1, FieldTypes DEF Steps
  <2>3. tx' = [tx EXCEPT ![w] = [[tx[w] EXCEPT !.todo = {c \in Chats : tx[w].users \cap members[c] # {} /\ current[c] > 0}] EXCEPT !.pc = "pick"]]
    BY <1>6 DEF ListChats, TypeOK
  <2> QED BY <2>2, <2>3 DEF TypeOK
<1>7. CASE PickChat(w)
  <2>1. PICK c \in tx[w].todo :
          tx' = [tx EXCEPT ![w].chat = c,
                           ![w].todo = tx[w].todo \ {c},
                           ![w].seen[c] = IF tx[w].op = "periodic" THEN @ ELSE current[c],
                           ![w].pc = "lock"]
    BY <1>7 DEF PickChat
  <2> DEFINE loaded == IF tx[w].op = "periodic" THEN tx[w].seen[c] ELSE current[c]
             t1 == [tx[w] EXCEPT !.chat = c]
             t2 == [t1 EXCEPT !.todo = tx[w].todo \ {c}]
             t3 == [t2 EXCEPT !.seen = [tx[w].seen EXCEPT ![c] = loaded]]
             t4 == [t3 EXCEPT !.pc = "lock"]
  <2>2. c \in Chats /\ tx[w].todo \ {c} \in SUBSET Chats
    BY <1>1 DEF Tx
  <2>3. [tx[w].seen EXCEPT ![c] = loaded] \in [Chats -> Nat]
    BY <1>1, <2>2 DEF Tx, TypeOK
  <2>4. t1 \in Tx
    BY <1>1, <2>2, FieldTypes
  <2>5. t2 \in Tx
    <3> HIDE DEF t1
    <3> QED BY <2>2, <2>4, FieldTypes
  <2>6. t3 \in Tx
    <3> HIDE DEF t2, loaded
    <3> QED BY <2>3, <2>5, FieldTypes
  <2>7. t4 \in Tx
    <3> HIDE DEF t3
    <3> QED BY <2>6, FieldTypes DEF Steps
  <2>8. tx' = [tx EXCEPT ![w] = t4]
    BY <2>1 DEF TypeOK
  <2> QED BY <2>7, <2>8 DEF TypeOK
<1>8. CASE ListDone(w)
  <2>1. [tx[w] EXCEPT !.pc = "commit"] \in Tx
    BY <1>1, FieldTypes DEF Steps
  <2>2. tx' = [tx EXCEPT ![w] = [tx[w] EXCEPT !.pc = "commit"]]
    BY <1>8 DEF ListDone, TypeOK
  <2> QED BY <2>1, <2>2 DEF TypeOK
<1>9. CASE AcquireLock(w)
  <2>1. [tx[w] EXCEPT !.pc = "roster"] \in Tx
    BY <1>1, FieldTypes DEF Steps
  <2>2. tx' = [tx EXCEPT ![w] = [tx[w] EXCEPT !.pc = "roster"]]
    BY <1>9 DEF AcquireLock, TypeOK
  <2> QED BY <2>1, <2>2 DEF TypeOK
<1>10. CASE ReadRoster(w)
  <2> DEFINE r == [tx[w].roster EXCEPT ![tx[w].chat] = Roster(Visible(w, tx[w].chat))]
  <2>1. r \in [Chats -> SUBSET Devices]
    BY <1>1, RosterType DEF Tx
  <2>2. [tx[w] EXCEPT !.roster = r] \in Tx
    BY <1>1, <2>1, FieldTypes
  <2>3. [[tx[w] EXCEPT !.roster = r] EXCEPT !.pc = "insert"] \in Tx
    BY <2>2, FieldTypes DEF Steps
  <2>4. tx' = [tx EXCEPT ![w] = [[tx[w] EXCEPT !.roster = r] EXCEPT !.pc = "insert"]]
    BY <1>10 DEF ReadRoster, TypeOK
  <2> QED BY <2>3, <2>4 DEF TypeOK
<1>11. CASE InsertEpoch(w)
  <2> DEFINE o == [tx[w].opened EXCEPT ![tx[w].chat] = tx[w].seen[tx[w].chat] + 1]
  <2>1. o \in [Chats -> Nat]
    <3>1. tx[w].opened \in [Chats -> Nat] /\ tx[w].seen \in [Chats -> Nat]
      BY <1>1 DEF Tx
    <3>2. CASE tx[w].chat \in Chats
      <4>1. tx[w].seen[tx[w].chat] + 1 \in Nat
        BY <3>1, <3>2
      <4> QED BY <3>1, <4>1
    <3>3. CASE tx[w].chat \notin Chats
      BY <3>1, <3>3
    <3> QED BY <3>2, <3>3
  <2>2. /\ [tx[w] EXCEPT !.pc = "clash"] \in Tx
        /\ [tx[w] EXCEPT !.opened = o] \in Tx
    BY <1>1, <2>1, FieldTypes DEF Steps
  <2>3. [[tx[w] EXCEPT !.opened = o] EXCEPT !.pc = AfterInsert(w)] \in Tx
    BY <2>2, FieldTypes DEF Steps, AfterInsert
  <2>4. \/ tx' = [tx EXCEPT ![w] = [tx[w] EXCEPT !.pc = "clash"]]
        \/ tx' = [tx EXCEPT ![w] = [[tx[w] EXCEPT !.opened = o] EXCEPT !.pc = AfterInsert(w)]]
    BY <1>11 DEF InsertEpoch, TypeOK
  <2> QED BY <2>2, <2>3, <2>4 DEF TypeOK
<1>12. CASE StampJoiners(w)
  <2>1. [tx[w] EXCEPT !.rows = tx[w].rows \cup (tx[w].users \cap members[tx[w].chat])] \in Tx
    BY <1>1, FieldTypes DEF Tx
  <2>2. [[tx[w] EXCEPT !.rows = tx[w].rows \cup (tx[w].users \cap members[tx[w].chat])] EXCEPT !.pc = "commit"] \in Tx
    BY <2>1, FieldTypes DEF Steps
  <2>3. tx' = [tx EXCEPT ![w] = [[tx[w] EXCEPT !.rows = tx[w].rows \cup (tx[w].users \cap members[tx[w].chat])] EXCEPT !.pc = "commit"]]
    BY <1>12 DEF StampJoiners, TypeOK
  <2> QED BY <2>2, <2>3 DEF TypeOK
<1> QED
  BY <1>2, <1>3, <1>4, <1>5, <1>6, <1>7, <1>8, <1>9, <1>10, <1>11, <1>12 DEF Statement

(* A commit leaves well-formed rows, and a worker that is idle or at its next chat. *)
LEMMA CommitType == ASSUME TypeOK, NEW w \in Workers, Commit(w) PROVE TypeOK'
<1> USE DEF Commit
<1>1. members' \in [Chats -> SUBSET Users]
  BY VisibleType
<1>2. /\ tx[w].opened \in [Chats -> Nat]
      /\ tx[w].roster \in [Chats -> SUBSET Devices]
  BY DEF TypeOK, Tx
<1>3. joinedAt' \in [Chats -> [Users -> Nat]]
  BY <1>2 DEF TypeOK
<1>4. current' \in [Chats -> Nat]
  BY <1>2 DEF TypeOK
<1>5. epochs' \in [Chats -> SUBSET EpochRow]
  <2>1. ASSUME NEW c \in Chats PROVE Rotated(w, c) \in SUBSET EpochRow
    <3>1. ASSUME NEW e \in epochs[c] PROVE [e EXCEPT !.closed = TRUE] \in EpochRow
      <4>1. e \in EpochRow
        BY DEF TypeOK
      <4> QED BY <4>1 DEF EpochRow
    <3>2. [epoch |-> tx[w].opened[c], devices |-> tx[w].roster[c], closed |-> FALSE] \in EpochRow
      BY <1>2 DEF EpochRow
    <3> QED BY <3>1, <3>2 DEF Rotated, TypeOK
  <2> QED BY <2>1
<1>6. lock' \in [Chats -> Workers \cup {NoWorker}]
  BY DEF Release, TypeOK
<1>7. tx' \in [Workers -> Tx]
  <2>1. AfterCommit(w) \in Tx
    BY IdleType DEF AfterCommit, TypeOK, Tx, Steps, Ops
  <2> QED BY <2>1 DEF TypeOK
<1> QED
  BY <1>1, <1>3, <1>4, <1>5, <1>6, <1>7 DEF TypeOK

(* Type correctness: every table row and every transaction has the shape of its model. *)
THEOREM TypeCorrect == Spec => []TypeOK
<1>1. Init => TypeOK
  <2> SUFFICES ASSUME Init PROVE TypeOK
    OBVIOUS
  <2>1. members \in [Chats -> SUBSET Users]
    BY DEF Init
  <2>2. epochs \in [Chats -> SUBSET EpochRow]
    BY RosterType DEF Init, EpochRow
  <2>3. tx \in [Workers -> Tx]
    BY IdleType DEF Init
  <2> QED
    BY <2>1, <2>2, <2>3, ChatsAssumption DEF Init, TypeOK, DeviceStatus
<1>2. TypeOK /\ [Next]_vars => TypeOK'
  <2> SUFFICES ASSUME TypeOK, [Next]_vars PROVE TypeOK'
    OBVIOUS
  <2>1. ASSUME NEW w \in Workers, Request(w) PROVE TypeOK'
    <3>1. ASSUME NEW c \in Chats, NEW S \in SUBSET Users, Remove(w, c, S) PROVE TypeOK'
      <4>1. Start("remove", S, c, "write") \in Tx
        BY StartType DEF Ops, Removals, Steps
      <4> QED BY <3>1, <4>1 DEF Remove, TypeOK
    <3>2. ASSUME NEW c \in Chats, NEW S \in SUBSET Users, Add(w, c, S) PROVE TypeOK'
      <4>1. Start("add", S, c, "write") \in Tx
        BY StartType DEF Ops, Removals, Steps
      <4> QED BY <3>2, <4>1 DEF Add, TypeOK
    <3>3. ASSUME NEW c \in Chats, NEW u \in Users, Leave(w, c, u) PROVE TypeOK'
      <4>1. Start("leave", {u}, c, "write") \in Tx
        BY StartType DEF Ops, Removals, Steps
      <4> QED BY <3>3, <4>1 DEF Leave, TypeOK
    <3>4. ASSUME NEW c \in Chats, Enable(w, c) PROVE TypeOK'
      <4>1. Start("enable", {}, c, "write") \in Tx
        BY StartType DEF Ops, Removals, Steps
      <4> QED BY <3>4, <4>1 DEF Enable, TypeOK
    <3>5. ASSUME NEW d \in Devices, PublishIdentity(w, d) PROVE TypeOK'
      <4>1. Start("publish", {DeviceOwner[d]}, NoChat, "chats") \in Tx
        BY StartType, ChatsAssumption DEF Ops, Removals, Steps
      <4> QED BY <3>5, <4>1 DEF PublishIdentity, TypeOK, DeviceStatus
    <3>6. ASSUME NEW due \in SUBSET Chats, Periodic(w, due) PROVE TypeOK'
      <4>1. Start("periodic", {}, NoChat, "pick") \in Tx
        BY StartType DEF Ops, Removals, Steps
      <4>2. [Start("periodic", {}, NoChat, "pick") EXCEPT !.todo = due, !.seen = current] \in Tx
        BY <4>1 DEF Tx, TypeOK
      <4> QED BY <3>6, <4>2 DEF Periodic, TypeOK
    <3> QED BY <2>1, <3>1, <3>2, <3>3, <3>4, <3>5, <3>6 DEF Request
  <2>2. ASSUME NEW w \in Workers, Step(w) PROVE TypeOK'
    <3> USE <2>2
    <3>1. CASE Statement(w)
      <4>1. UNCHANGED <<members, joinedAt, devices, current, epochs>>
            /\ lock' \in [Chats -> Workers \cup {NoWorker}]
        BY <3>1 DEF Statement, DeleteRows, InsertRows, InsertSettings, ReadSettings, ListChats,
                    PickChat, ListDone, AcquireLock, ReadRoster, InsertEpoch, StampJoiners, TypeOK
      <4> QED BY <4>1, <3>1, StatementType DEF TypeOK
    <3>12. CASE Commit(w)
      BY <3>12, CommitType
    <3>13. CASE Rollback(w)
      BY <3>13, IdleType DEF Rollback, Release, TypeOK
    <3> QED
      BY <3>1, <3>12, <3>13 DEF Step, Statement, Refused, DeadlockVictim
  <2>3. ASSUME NEW w \in Workers, Crash(w) PROVE TypeOK'
    BY <2>3, IdleType DEF Crash, Rollback, Release, TypeOK
  <2>4. ASSUME NEW u \in Users, ResetPassword(u) PROVE TypeOK'
    BY <2>4 DEF ResetPassword, TypeOK, DeviceStatus
  <2>5. CASE UNCHANGED vars
    BY <2>5 DEF vars, TypeOK
  <2> QED
    BY <2>1, <2>2, <2>3, <2>4, <2>5 DEF Next
<1> QED
  BY <1>1, <1>2, PTL DEF Spec

(***************************************************************************)
(* The epoch chain and the membership of the open epoch.                   *)
(***************************************************************************)

(* A statement changes nothing but its own transaction and the locks. *)
LEMMA StatementFrame ==
    ASSUME TypeOK, NEW w \in Workers, Statement(w)
    PROVE  /\ UNCHANGED <<members, joinedAt, devices, current, epochs>>
           /\ \A v \in Workers : v # w => tx'[v] = tx[v]
           /\ tx'[w].op = tx[w].op
           /\ tx'[w].users = tx[w].users
<1> USE DEF TypeOK, Tx
<1>1. CASE DeleteRows(w) \/ InsertRows(w) \/ InsertSettings(w)
  BY <1>1 DEF DeleteRows, InsertRows, InsertSettings
<1>2. CASE ReadSettings(w)
  BY <1>2 DEF ReadSettings
<1>3. CASE ListChats(w)
  <2> DEFINE listed == {c \in Chats : tx[w].users \cap members[c] # {} /\ current[c] > 0}
  <2>1. tx' = [tx EXCEPT ![w].todo = listed, ![w].pc = "pick"]
    BY <1>3 DEF ListChats
  <2>2. (\A v \in Workers : v # w => tx'[v] = tx[v]) /\ UNCHANGED <<tx[w].op, tx[w].users>>
    <3> HIDE DEF listed
    <3> QED BY <2>1
  <2> QED BY <1>3, <2>2 DEF ListChats
<1>4. CASE PickChat(w)
  <2>1. PICK c \in tx[w].todo :
          tx' = [tx EXCEPT ![w].chat = c,
                           ![w].todo = tx[w].todo \ {c},
                           ![w].seen[c] = IF tx[w].op = "periodic" THEN @ ELSE current[c],
                           ![w].pc = "lock"]
    BY <1>4 DEF PickChat
  <2>2. (\A v \in Workers : v # w => tx'[v] = tx[v]) /\ UNCHANGED <<tx[w].op, tx[w].users>>
    BY <2>1
  <2> QED BY <1>4, <2>2 DEF PickChat
<1>8. CASE ListDone(w)
  BY <1>8 DEF ListDone
<1>5. CASE AcquireLock(w) \/ ReadRoster(w)
  BY <1>5 DEF AcquireLock, ReadRoster
<1>6. CASE InsertEpoch(w)
  BY <1>6 DEF InsertEpoch
<1>7. CASE StampJoiners(w)
  BY <1>7 DEF StampJoiners
<1> QED
  BY <1>1, <1>2, <1>3, <1>4, <1>5, <1>6, <1>7, <1>8 DEF Statement

(* The next epoch of a chat whose counter was read before the lock: if the number is free, the  *)
(* counter had not moved.                                                                       *)
LEMMA FreeNumberIsNext ==
    ASSUME TypeOK, EpochChain, NEW w \in Workers, tx[w].chat \in Chats,
           tx[w].seen[tx[w].chat] <= current[tx[w].chat], ~NumberTaken(w)
    PROVE  tx[w].seen[tx[w].chat] = current[tx[w].chat]
<1> DEFINE c == tx[w].chat
           n == tx[w].seen[c]
<1>1. n \in Nat /\ current[c] \in Nat
  BY DEF TypeOK, Tx
<1>2. SUFFICES ASSUME n # current[c] PROVE FALSE
  OBVIOUS
<1>3. n + 1 \in 1..current[c]
  BY <1>1, <1>2
<1>4. PICK e \in epochs[c] : e.epoch = n + 1
  BY <1>3 DEF EpochChain
<1> QED
  BY <1>4 DEF NumberTaken

(* A transaction is granted the advisory lock only when nobody holds it. *)
LEMMA LockIsFree ==
    ASSUME TypeOK, NEW w \in Workers, Running(w, "lock")
    PROVE  lock[tx[w].chat] = NoWorker
<1>1. WaitsFor(w) = {lock[tx[w].chat]} \ {NoWorker}
  BY DEF Running, WaitsFor
<1> QED
  BY <1>1 DEF Running

LEMMA StatementLocks ==
    ASSUME TypeOK, EpochChain, LockDiscipline, StepDiscipline, NEW w \in Workers, Statement(w)
    PROVE  LockDiscipline'
<1>1. tx[w] \in Tx /\ current \in [Chats -> Nat]
  BY DEF TypeOK
<1> USE <1>1 DEF LockDiscipline, TypeOK, Tx, Running
<1>2. CASE DeleteRows(w)
  BY <1>2 DEF DeleteRows
<1>3. CASE InsertRows(w)
  BY <1>3 DEF InsertRows
<1>4. CASE InsertSettings(w)
  BY <1>4 DEF InsertSettings
<1>5. CASE ReadSettings(w)
  BY <1>5 DEF ReadSettings
<1>6. CASE ListChats(w)
  BY <1>6 DEF ListChats
<1>7. CASE PickChat(w)
  BY <1>7 DEF PickChat
<1>8. CASE ListDone(w)
  BY <1>8 DEF ListDone
<1>9. CASE AcquireLock(w)
  <2>1. tx[w].pc = "lock" /\ lock[tx[w].chat] = NoWorker
    BY <1>9, LockIsFree DEF AcquireLock
  <2>2. \A c \in Chats : c # tx[w].chat => lock'[c] = lock[c]
    BY <1>9 DEF AcquireLock
  <2>3. lock'[tx[w].chat] = w /\ w # NoWorker /\ UNCHANGED current
    BY <1>9, <2>1, ChatsAssumption DEF AcquireLock
  <2>4. \A v \in Workers, c \in Chats : lock[c] = v => lock'[c] = v
    BY <2>1, <2>2, ChatsAssumption
  <2>5. /\ tx'[w].pc = "roster"
        /\ UNCHANGED <<tx[w].chat, tx[w].opened, tx[w].seen>>
        /\ \A v \in Workers : v # w => tx'[v] = tx[v]
    BY <1>9 DEF AcquireLock
  <2>6. ASSUME NEW v \in Workers
        PROVE  /\ tx'[v].pc \in {"write", "settings", "lock", "roster", "insert", "floor"}
                    => tx'[v].chat \in Chats
               /\ tx'[v].pc \in {"roster", "insert", "floor"} => lock'[tx'[v].chat] = v
    <3>1. CASE v = w
      BY <2>1, <2>3, <2>5, <3>1
    <3>2. CASE v # w
      BY <2>4, <2>5, <3>2
    <3> QED BY <3>1, <3>2
  <2>7. ASSUME NEW v \in Workers, NEW c \in Chats
        PROVE  /\ tx'[v].seen[c] <= current'[c]
               /\ tx'[v].opened[c] # 0
                    => lock'[c] = v /\ tx'[v].opened[c] = current'[c] + 1
    <3>1. CASE v = w
      BY <2>3, <2>4, <2>5, <3>1
    <3>2. CASE v # w
      BY <2>3, <2>4, <2>5, <3>2
    <3> QED BY <3>1, <3>2
  <2> QED BY <2>6, <2>7
<1>10. CASE ReadRoster(w)
  BY <1>10 DEF ReadRoster
<1>11. CASE InsertEpoch(w)
  <2> DEFINE c == tx[w].chat
  <2>1. c \in Chats /\ lock[c] = w
    BY <1>11 DEF InsertEpoch
  <2>2. UNCHANGED <<current, lock>> /\ (\A v \in Workers : v # w => tx'[v] = tx[v])
    BY <1>11 DEF InsertEpoch
  <2>3. CASE NumberTaken(w)
    <3>1. tx'[w].pc = "clash" /\ UNCHANGED <<tx[w].chat, tx[w].opened, tx[w].seen>>
      BY <1>11, <2>3 DEF InsertEpoch
    <3> QED BY <2>2, <3>1
  <2>4. CASE ~NumberTaken(w)
    <3>1. tx[w].seen[c] = current[c]
      BY <2>1, <2>4, FreeNumberIsNext
    <3>2. tx'[w].opened = [tx[w].opened EXCEPT ![c] = tx[w].seen[c] + 1]
      BY <1>11, <2>4 DEF InsertEpoch
    <3>3. tx'[w].pc \in {"floor", "pick", "commit"} /\ UNCHANGED <<tx[w].chat, tx[w].seen>>
      BY <1>11, <2>4 DEF InsertEpoch, AfterInsert
    <3>4. \A d \in Chats : /\ d # c => tx'[w].opened[d] = tx[w].opened[d]
                           /\ d = c => tx'[w].opened[d] = current[d] + 1
      BY <2>1, <3>1, <3>2
    <3>5. \A v \in Workers : v # w => tx'[v] = tx[v]
      BY <2>2
    <3>6. /\ tx'[w].pc \in {"roster", "insert", "floor"} => lock'[tx'[w].chat] = w
          /\ tx'[w].chat \in Chats
      BY <2>1, <2>2, <3>3
    <3>7. \A d \in Chats : /\ tx'[w].seen[d] <= current'[d]
                           /\ tx'[w].opened[d] # 0 => /\ lock'[d] = w
                                                     /\ tx'[w].opened[d] = current'[d] + 1
      BY <2>1, <2>2, <3>3, <3>4
    <3> QED BY <2>2, <3>5, <3>6, <3>7
  <2> QED BY <2>3, <2>4
<1>12. CASE StampJoiners(w)
  BY <1>12 DEF StampJoiners
<1> QED
  BY <1>2, <1>3, <1>4, <1>5, <1>6, <1>7, <1>8, <1>9, <1>10, <1>11, <1>12 DEF Statement

LEMMA StatementSteps ==
    ASSUME TypeOK, LockDiscipline, StepDiscipline, NEW w \in Workers, Statement(w)
    PROVE  StepDiscipline'
<1>1. tx \in [Workers -> Tx] /\ tx[w] \in Tx
  BY DEF TypeOK
<1>2. AtStep(w)
  BY DEF StepDiscipline
<1>3. SUFFICES AtStep(w)'
  <2>1. \A v \in Workers : v # w => tx'[v] = tx[v]
    BY StatementFrame
  <2> QED BY <2>1 DEF StepDiscipline, AtStep
<1>4. CASE DeleteRows(w)
  BY <1>1, <1>2, <1>4 DEF DeleteRows, AtStep, Tx, Running
<1>5. CASE InsertRows(w)
  BY <1>1, <1>2, <1>5 DEF InsertRows, AtStep, Tx, Running
<1>6. CASE InsertSettings(w)
  BY <1>1, <1>2, <1>6 DEF InsertSettings, AtStep, Tx, Running
<1>7. CASE ReadSettings(w)
  <2>1. /\ UNCHANGED <<tx[w].op, tx[w].opened, tx[w].rows, tx[w].chat>>
        /\ tx[w].pc = "settings" /\ tx'[w].pc \in {"commit", "lock"}
        /\ tx'[w].pc = "lock" => ~RotationSkipped(w)
    BY <1>1, <1>7 DEF ReadSettings, Tx, Running
  <2>2. tx'[w].pc = "lock" => ~(tx[w].op = "add" /\ tx[w].chat \in SharedHistory)
    BY <2>1 DEF RotationSkipped
  <2> QED BY <1>2, <2>1, <2>2 DEF AtStep
<1>8. CASE ListChats(w)
  <2>1. tx[w].pc = "chats" /\ tx'[w].pc = "pick"
    BY <1>1, <1>8 DEF ListChats, Tx, Running
  <2>2. UNCHANGED <<tx[w].op, tx[w].opened, tx[w].rows, tx[w].chat>>
    BY <1>1, <1>8 DEF ListChats, Tx
  <2> QED BY <1>2, <2>1, <2>2 DEF AtStep
<1>9. CASE PickChat(w)
  BY <1>1, <1>2, <1>9 DEF PickChat, AtStep, Tx, Running
<1>10. CASE ListDone(w)
  BY <1>1, <1>2, <1>10 DEF ListDone, AtStep, Tx, Running
<1>11. CASE AcquireLock(w)
  BY <1>1, <1>2, <1>11 DEF AcquireLock, AtStep, Tx, Running
<1>12. CASE ReadRoster(w)
  BY <1>1, <1>2, <1>12 DEF ReadRoster, AtStep, Tx, Running
<1>13. CASE InsertEpoch(w)
  <2>1. /\ UNCHANGED <<tx[w].op, tx[w].rows, tx[w].chat>>
        /\ tx[w].chat \in Chats /\ tx[w].pc = "insert"
    BY <1>1, <1>13 DEF InsertEpoch, Tx, Running, LockDiscipline
  <2>2. CASE NumberTaken(w)
    <3>1. tx'[w].pc = "clash" /\ UNCHANGED tx[w].opened
      BY <1>1, <1>13, <2>2 DEF InsertEpoch, Tx
    <3> QED BY <1>2, <2>1, <3>1 DEF AtStep
  <2>3. CASE ~NumberTaken(w)
    <3>1. tx'[w].opened = [tx[w].opened EXCEPT ![tx[w].chat] = tx[w].seen[tx[w].chat] + 1]
      BY <1>1, <1>13, <2>3 DEF InsertEpoch, Tx
    <3>2. tx'[w].opened[tx[w].chat] # 0
      BY <1>1, <2>1, <3>1 DEF Tx
    <3>3. tx'[w].pc = AfterInsert(w)
      BY <1>1, <1>13, <2>3 DEF InsertEpoch, Tx
    <3>4. \A c \in Chats : c # tx[w].chat => tx'[w].opened[c] = tx[w].opened[c]
      BY <1>1, <3>1 DEF Tx
    <3>5. ~(tx[w].op = "add" /\ tx[w].chat \in SharedHistory)
      BY <1>2, <2>1 DEF AtStep
    <3> QED BY <1>2, <2>1, <3>2, <3>3, <3>4, <3>5 DEF AtStep, AfterInsert
  <2> QED BY <2>2, <2>3
<1>14. CASE StampJoiners(w)
  BY <1>1, <1>2, <1>14 DEF StampJoiners, AtStep, Tx, Running
<1> QED
  BY <1>4, <1>5, <1>6, <1>7, <1>8, <1>9, <1>10, <1>11, <1>12, <1>13, <1>14 DEF Statement

(* What a transaction sees of a chat depends on the committed members and its own writes only. *)
LEMMA VisibleFrame ==
    ASSUME NEW w \in Workers, NEW c \in Chats, UNCHANGED <<members[c], tx[w].op, tx[w].chat, tx[w].rows>>
    PROVE  Visible(w, c)' = Visible(w, c)
BY DEF Visible

LEMMA OwnersOfRoster == ASSUME NEW S PROVE Owners(Roster(S)) \subseteq S
BY DEF Owners, Roster

LEMMA StatementMembership ==
    ASSUME TypeOK, LockDiscipline, StepDiscipline, MembershipDiscipline,
           NEW w \in Workers, Statement(w)
    PROVE  MembershipDiscipline'
<1> DEFINE Rotates(v) == (/\ tx[v].pc = "commit" /\ tx[v].op \in Removals \cup {"add"}
                          /\ tx[v].chat \in Encrypted /\ tx[v].opened[tx[v].chat] = 0)
                            => tx[v].op = "add" /\ tx[v].chat \in SharedHistory
           Holds(v) == \A c \in Encrypted :
                         (tx[v].opened[c] # 0 \/ (tx[v].pc = "insert" /\ tx[v].chat = c))
                            => Owners(tx[v].roster[c]) \subseteq Visible(v, c)
<1>1. /\ tx \in [Workers -> Tx] /\ tx[w] \in Tx
      /\ AtStep(w) /\ Rotates(w) /\ Holds(w)
      /\ Encrypted \subseteq Chats
      /\ \A c \in Encrypted : current[c] >= 1
  BY ChatsAssumption DEF TypeOK, StepDiscipline, MembershipDiscipline
<1>2. /\ UNCHANGED <<members, current>>
      /\ UNCHANGED <<tx[w].op, tx[w].users>>
      /\ \A v \in Workers : v # w => tx'[v] = tx[v]
  BY StatementFrame
<1>3. SUFFICES Rotates(w)' /\ Holds(w)'
  <2>1. ASSUME NEW v \in Workers, v # w PROVE Rotates(v)' /\ Holds(v)'
    <3>1. tx'[v] = tx[v] /\ Rotates(v) /\ Holds(v)
      BY <1>2, <2>1 DEF MembershipDiscipline
    <3>2. \A c \in Chats : Visible(v, c)' = Visible(v, c)
      BY <1>2, <3>1, VisibleFrame
    <3> QED BY <1>1, <3>1, <3>2
  <2>2. \A c \in Encrypted : current'[c] >= 1
    BY <1>1, <1>2
  <2> QED BY <1>3, <2>1, <2>2 DEF MembershipDiscipline
<1>4. ASSUME UNCHANGED <<tx[w].chat, tx[w].rows>>
      PROVE  \A c \in Chats : Visible(w, c)' = Visible(w, c)
  BY <1>2, <1>4, VisibleFrame
<1>5. CASE DeleteRows(w) \/ InsertRows(w) \/ InsertSettings(w)
  <2>1. tx[w].pc = "write"
    BY <1>5 DEF DeleteRows, InsertRows, InsertSettings, Running
  <2>2. UNCHANGED tx[w].opened /\ tx'[w].pc \in {"settings", "lock", "clash"}
    <3>1. CASE DeleteRows(w)
      BY <1>1, <3>1 DEF DeleteRows, Tx
    <3>2. CASE InsertRows(w)
      BY <1>1, <3>2 DEF InsertRows, Tx
    <3>3. CASE InsertSettings(w)
      BY <1>1, <3>3 DEF InsertSettings, Tx
    <3> QED BY <1>5, <3>1, <3>2, <3>3
  <2> QED BY <1>1, <2>1, <2>2 DEF AtStep
<1>6. CASE ReadSettings(w)
  <2>1. \A c \in Chats : tx'[w].opened[c] = 0
    BY <1>1, <1>6 DEF ReadSettings, Tx, Running, AtStep
  <2>2. UNCHANGED tx[w].chat /\ tx'[w].pc \in {"commit", "lock"}
    BY <1>1, <1>6 DEF ReadSettings, Tx
  <2>3. tx'[w].pc = "commit" => RotationSkipped(w)
    BY <1>1, <1>6 DEF ReadSettings, Tx
  <2>4. RotationSkipped(w) /\ tx[w].chat \in Encrypted
          => tx[w].op = "add" /\ tx[w].chat \in SharedHistory
    BY <1>1 DEF RotationSkipped
  <2> QED BY <1>1, <1>2, <2>1, <2>2, <2>3, <2>4
<1>7. CASE ListChats(w)
  <2>1. tx'[w].pc = "pick" /\ UNCHANGED <<tx[w].chat, tx[w].rows, tx[w].roster, tx[w].opened>>
    BY <1>1, <1>7 DEF ListChats, Tx
  <2> QED BY <1>1, <1>4, <2>1
<1>8. CASE PickChat(w)
  <2>1. tx'[w].pc = "lock" /\ UNCHANGED <<tx[w].rows, tx[w].roster, tx[w].opened>>
    BY <1>1, <1>8 DEF PickChat, Tx
  <2>2. tx[w].rows = {} /\ tx[w].op \notin Removals
    BY <1>1, <1>8 DEF PickChat, Running, AtStep, Removals
  <2>3. \A c \in Chats : Visible(w, c) = members[c] /\ Visible(w, c)' = members[c]
    BY <1>2, <2>1, <2>2 DEF Visible
  <2> QED BY <1>1, <2>1, <2>3
<1>9. CASE ListDone(w)
  <2>1. /\ tx[w].op \notin Removals \cup {"add"}
        /\ tx'[w].pc = "commit"
        /\ UNCHANGED <<tx[w].chat, tx[w].rows, tx[w].roster, tx[w].opened>>
    BY <1>1, <1>9 DEF ListDone, Tx, Running, AtStep, Removals
  <2> QED BY <1>1, <1>2, <1>4, <2>1
<1>10. CASE AcquireLock(w)
  <2>1. tx'[w].pc = "roster" /\ UNCHANGED <<tx[w].chat, tx[w].rows, tx[w].roster, tx[w].opened>>
    BY <1>1, <1>10 DEF AcquireLock, Tx
  <2> QED BY <1>1, <1>4, <2>1
<1>11. CASE ReadRoster(w)
  <2>1. /\ tx'[w].pc = "insert"
        /\ UNCHANGED <<tx[w].chat, tx[w].rows, tx[w].opened>>
        /\ tx'[w].roster = [tx[w].roster EXCEPT ![tx[w].chat] = Roster(Visible(w, tx[w].chat))]
    BY <1>1, <1>11 DEF ReadRoster, Tx
  <2>2. ASSUME NEW c \in Encrypted,
               tx'[w].opened[c] # 0 \/ (tx'[w].pc = "insert" /\ tx'[w].chat = c)
        PROVE  Owners(tx'[w].roster[c]) \subseteq Visible(w, c)
    <3>1. CASE c = tx[w].chat
      BY <1>1, <2>1, <3>1, OwnersOfRoster DEF Tx
    <3>2. CASE c # tx[w].chat
      BY <1>1, <2>1, <2>2, <3>2 DEF Tx
    <3> QED BY <3>1, <3>2
  <2> QED BY <1>1, <1>4, <2>1, <2>2
<1>12. CASE InsertEpoch(w)
  <2>1. UNCHANGED <<tx[w].chat, tx[w].rows, tx[w].roster>> /\ tx[w].pc = "insert"
    BY <1>1, <1>12 DEF InsertEpoch, Tx, Running
  <2>2. CASE NumberTaken(w)
    <3>1. tx'[w].pc = "clash" /\ UNCHANGED tx[w].opened
      BY <1>1, <1>12, <2>2 DEF InsertEpoch, Tx
    <3> QED BY <1>1, <1>4, <2>1, <3>1
  <2>3. CASE ~NumberTaken(w)
    <3>1. tx'[w].opened = [tx[w].opened EXCEPT ![tx[w].chat] = tx[w].seen[tx[w].chat] + 1]
      BY <1>1, <1>12, <2>3 DEF InsertEpoch, Tx
    <3>2. tx'[w].pc \in {"floor", "pick", "commit"}
      BY <1>1, <1>12, <2>3 DEF InsertEpoch, AfterInsert, Tx
    <3>3. tx[w].chat \in Chats => tx'[w].opened[tx[w].chat] # 0
      BY <1>1, <3>1 DEF Tx
    <3>4. \A c \in Chats : c # tx[w].chat => tx'[w].opened[c] = tx[w].opened[c]
      BY <1>1, <3>1 DEF Tx
    <3> QED BY <1>1, <1>4, <2>1, <3>2, <3>3, <3>4
  <2> QED BY <2>2, <2>3
<1>13. CASE StampJoiners(w)
  <2>1. /\ UNCHANGED <<tx[w].chat, tx[w].roster, tx[w].opened>>
        /\ tx[w].rows \subseteq tx'[w].rows
        /\ tx[w].pc = "floor" /\ tx'[w].pc = "commit"
    BY <1>1, <1>13 DEF StampJoiners, Tx, Running
  <2>2. tx[w].op = "add" /\ tx[w].opened[tx[w].chat] # 0
    BY <1>1, <2>1 DEF AtStep
  <2>3. \A c \in Chats : Visible(w, c) \subseteq Visible(w, c)'
    BY <1>2, <2>1, <2>2 DEF Visible, Removals
  <2> QED BY <1>1, <2>1, <2>2, <2>3
<1> QED
  BY <1>5, <1>6, <1>7, <1>8, <1>9, <1>10, <1>11, <1>12, <1>13 DEF Statement

(* A commit extends the chain by the pending epoch, or leaves it alone. *)
LEMMA CommitChain ==
    ASSUME TypeOK, EpochInv, NEW w \in Workers, Commit(w)
    PROVE  EpochChain'
<1>1. /\ tx[w].opened \in [Chats -> Nat]
      /\ \A c \in Chats : current[c] \in Nat /\ epochs[c] \subseteq EpochRow
  BY DEF TypeOK, Tx
<1>2. SUFFICES ASSUME NEW c \in Chats
               PROVE  /\ {e.epoch : e \in epochs'[c]} = 1..current'[c]
                      /\ \A e, f \in epochs'[c] : e.epoch = f.epoch => e = f
                      /\ \A e \in epochs'[c] : ~e.closed <=> e.epoch = current'[c]
  BY DEF EpochChain
<1>3. /\ {e.epoch : e \in epochs[c]} = 1..current[c]
      /\ \A e, f \in epochs[c] : e.epoch = f.epoch => e = f
      /\ \A e \in epochs[c] : ~e.closed <=> e.epoch = current[c]
  BY DEF EpochInv, EpochChain
<1>4. CASE tx[w].opened[c] = 0
  BY <1>3, <1>4 DEF Commit, Rotated
<1>5. CASE tx[w].opened[c] # 0
  <2> DEFINE n == current[c]
             new == [epoch |-> n + 1, devices |-> tx[w].roster[c], closed |-> FALSE]
             old == {[e EXCEPT !.closed = TRUE] : e \in epochs[c]}
  <2>1. tx[w].opened[c] = n + 1
    BY <1>5 DEF EpochInv, LockDiscipline
  <2>2. epochs'[c] = old \cup {new} /\ current'[c] = n + 1 /\ n \in Nat
    BY <1>1, <1>5, <2>1 DEF Commit, Rotated
  <2>3. \A e \in epochs[c] : /\ [e EXCEPT !.closed = TRUE].epoch = e.epoch
                             /\ [e EXCEPT !.closed = TRUE].closed = TRUE
    BY <1>1 DEF EpochRow
  <2>4. \A f \in old : f.closed = TRUE /\ f.epoch \in 1..n
    <3>1. \A e \in epochs[c] : e.epoch \in 1..n
      BY <1>3
    <3> QED BY <2>3, <3>1
  <2>5. \A i \in 1..n : \E f \in old : f.epoch = i
    <3>1. TAKE i \in 1..n
    <3>2. PICK e \in epochs[c] : e.epoch = i
      BY <1>3
    <3>3. [e EXCEPT !.closed = TRUE] \in old
      OBVIOUS
    <3> QED BY <2>3, <3>2, <3>3
  <2>6. \A e, f \in old : e.epoch = f.epoch => e = f
    <3>1. TAKE e, f \in old
    <3>2. PICK e0 \in epochs[c] : e = [e0 EXCEPT !.closed = TRUE]
      OBVIOUS
    <3>3. PICK f0 \in epochs[c] : f = [f0 EXCEPT !.closed = TRUE]
      OBVIOUS
    <3>4. e.epoch = e0.epoch /\ f.epoch = f0.epoch
      BY <2>3, <3>2, <3>3
    <3> QED BY <1>3, <3>2, <3>3, <3>4
  <2>7. new.epoch = n + 1 /\ new.closed = FALSE
    OBVIOUS
  <2> HIDE DEF old, new
  <2>8. {e.epoch : e \in old \cup {new}} = 1..(n + 1)
    <3>1. \A e \in old \cup {new} : e.epoch \in 1..(n + 1)
      BY <2>2, <2>4, <2>7
    <3>2. ASSUME NEW i \in 1..(n + 1) PROVE \E e \in old \cup {new} : e.epoch = i
      BY <2>2, <2>5, <2>7, i \in 1..n \/ i = n + 1
    <3> QED BY <3>1, <3>2
  <2>9. \A e, f \in old \cup {new} : e.epoch = f.epoch => e = f
    BY <2>2, <2>4, <2>6, <2>7
  <2>10. \A e \in old \cup {new} : ~e.closed <=> e.epoch = n + 1
    BY <2>2, <2>4, <2>7
  <2> QED BY <2>2, <2>8, <2>9, <2>10
<1> QED
  BY <1>4, <1>5

(* What becomes of the transactions when one of them ends: the others are as they were, and     *)
(* the one that ends has no pending epoch, writes no row and holds no lock.                     *)
LEMMA EndOfTransaction ==
    ASSUME TypeOK, NEW w \in Workers, Commit(w) \/ Rollback(w)
    PROVE  /\ \A v \in Workers : v # w => tx'[v] = tx[v]
           /\ \A v \in Workers, c \in Chats : v # w /\ lock[c] = v => lock'[c] = v
           /\ \A c \in Chats : tx'[w].opened[c] = 0
           /\ tx'[w].rows = {}
           /\ tx'[w].pc \in {"idle", "pick"}
           /\ tx'[w].pc = "pick" => tx'[w].op = "periodic"
           /\ tx'[w].pc = "idle" => tx'[w].op = "none"
           /\ \A c \in Chats : tx'[w].seen[c] \in {0, tx[w].seen[c]}
<1>1. lock \in [Chats -> Workers \cup {NoWorker}] /\ tx \in [Workers -> Tx]
  BY DEF TypeOK
<1>2. /\ Release(w)
      /\ tx' = [tx EXCEPT ![w] = AfterCommit(w)] \/ tx' = [tx EXCEPT ![w] = Idle]
  BY DEF Commit, Rollback
<1>3. AfterCommit(w) = Idle \/ AfterCommit(w) = [Idle EXCEPT !.pc = "pick", !.op = "periodic",
                                                  !.todo = tx[w].todo, !.seen = tx[w].seen]
  BY DEF AfterCommit
<1>4. \A v \in Workers, c \in Chats : v # w /\ lock[c] = v => lock'[c] = v
  BY <1>2 DEF Release
<1>5. \A v \in Workers : v # w => tx'[v] = tx[v]
  BY <1>1, <1>2
<1>6. CASE tx'[w] = Idle
  BY <1>4, <1>5, <1>6 DEF Idle
<1>7. CASE tx'[w] = [Idle EXCEPT !.pc = "pick", !.op = "periodic",
                                 !.todo = tx[w].todo, !.seen = tx[w].seen]
  BY <1>4, <1>5, <1>7 DEF Idle
<1> QED
  BY <1>1, <1>2, <1>3, <1>6, <1>7

(* A commit moves a chat's counter only under the chat's lock; in a chat encrypted all along a  *)
(* commit without a pending epoch removes nobody.                                               *)
LEMMA CommitEffect ==
    ASSUME TypeOK, EpochInv, NEW w \in Workers, Commit(w), NEW c \in Chats
    PROVE  /\ members'[c] = Visible(w, c)
           /\ tx[w].opened[c] = 0 => /\ current'[c] = current[c] /\ epochs'[c] = epochs[c]
                                     /\ c \in Encrypted => members[c] \subseteq members'[c]
           /\ tx[w].opened[c] # 0 => /\ lock[c] = w
                                     /\ current'[c] = current[c] + 1
<1>1. members'[c] = Visible(w, c)
  BY DEF Commit
<1>2. tx[w].opened[c] = 0 => current'[c] = current[c] /\ epochs'[c] = epochs[c]
  BY DEF Commit, Rotated
<1>3. tx[w].opened[c] # 0 => lock[c] = w /\ current'[c] = current[c] + 1
  BY DEF Commit, EpochInv, LockDiscipline
<1>4. ASSUME tx[w].opened[c] = 0, c \in Encrypted PROVE members[c] \subseteq Visible(w, c)
  <2>1. CASE tx[w].chat = c /\ tx[w].op \in Removals
    <3>1. tx[w].pc = "commit"
      BY DEF Commit, Running
    <3> QED BY <1>4, <2>1, <3>1 DEF EpochInv, MembershipDiscipline, Removals
  <2>2. CASE ~(tx[w].chat = c /\ tx[w].op \in Removals)
    BY <2>2 DEF Visible
  <2> QED BY <2>1, <2>2
<1> QED
  BY <1>1, <1>2, <1>3, <1>4

LEMMA CommitPreserves ==
    ASSUME TypeOK, EpochInv, NEW w \in Workers, Commit(w)
    PROVE  EpochInv'
<1>1. TypeOK' /\ tx \in [Workers -> Tx] /\ tx' \in [Workers -> Tx]
      /\ current \in [Chats -> Nat] /\ Encrypted \subseteq Chats
  BY CommitType, ChatsAssumption DEF TypeOK
<1>2. \A c \in Chats : current[c] <= current'[c]
  <2>1. TAKE c \in Chats
  <2>2. current[c] \in Nat /\ current'[c] \in {current[c], current[c] + 1}
    BY <1>1, CommitEffect
  <2> QED BY <2>2
<1>3. LockDiscipline'
  <2>1. ASSUME NEW v \in Workers, v # w
        PROVE  /\ tx'[v].pc \in {"write", "settings", "lock", "roster", "insert", "floor"}
                    => tx'[v].chat \in Chats
               /\ tx'[v].pc \in {"roster", "insert", "floor"} => lock'[tx'[v].chat] = v
               /\ \A c \in Chats : /\ tx'[v].seen[c] <= current'[c]
                                   /\ tx'[v].opened[c] # 0 => /\ lock'[c] = v
                                                              /\ tx'[v].opened[c] = current'[c] + 1
    <3>1. tx'[v] = tx[v] /\ \A c \in Chats : lock[c] = v => lock'[c] = v
      BY <2>1, EndOfTransaction
    <3>2. /\ tx[v].pc \in {"write", "settings", "lock", "roster", "insert", "floor"}
               => tx[v].chat \in Chats
          /\ tx[v].pc \in {"roster", "insert", "floor"} => lock[tx[v].chat] = v
      BY DEF EpochInv, LockDiscipline
    <3>3. ASSUME NEW c \in Chats
          PROVE  /\ tx[v].seen[c] <= current'[c]
                 /\ tx[v].opened[c] # 0 => /\ lock'[c] = v
                                           /\ tx[v].opened[c] = current'[c] + 1
      <4>1. /\ tx[v].seen[c] <= current[c]
            /\ tx[v].opened[c] # 0 => /\ lock[c] = v
                                      /\ tx[v].opened[c] = current[c] + 1
        BY DEF EpochInv, LockDiscipline
      <4>2. tx[v].seen[c] \in Nat /\ current[c] \in Nat /\ current'[c] \in Nat
        BY <1>1 DEF Tx, TypeOK
      <4>3. lock[c] = v => current'[c] = current[c]
        BY <2>1, CommitEffect
      <4> QED BY <1>2, <3>1, <4>1, <4>2, <4>3
    <3> QED BY <3>1, <3>2, <3>3
  <2>2. /\ tx'[w].pc \in {"idle", "pick"}
        /\ \A c \in Chats : tx'[w].seen[c] <= current'[c] /\ tx'[w].opened[c] = 0
    <3>1. \A c \in Chats : tx'[w].seen[c] \in {0, tx[w].seen[c]} /\ tx'[w].opened[c] = 0
      BY EndOfTransaction
    <3>2. ASSUME NEW c \in Chats PROVE tx'[w].seen[c] <= current'[c]
      <4>1. tx[w].seen[c] <= current[c]
        BY DEF EpochInv, LockDiscipline
      <4>2. tx[w].seen[c] \in Nat /\ current[c] \in Nat /\ current'[c] \in Nat
        BY <1>1 DEF Tx, TypeOK
      <4> QED BY <1>2, <3>1, <4>1, <4>2
    <3> QED BY <3>1, <3>2, EndOfTransaction
  <2> QED BY <2>1, <2>2 DEF LockDiscipline
<1>4. StepDiscipline'
  <2>1. ASSUME NEW v \in Workers, v # w PROVE AtStep(v)'
    <3>1. tx'[v] = tx[v]
      BY <2>1, EndOfTransaction
    <3> QED BY <3>1 DEF EpochInv, StepDiscipline, AtStep
  <2>2. AtStep(w)'
    BY EndOfTransaction DEF AtStep, Removals
  <2> QED BY <2>1, <2>2 DEF StepDiscipline
<1>5. MembershipDiscipline'
  <2>1. ASSUME NEW c \in Encrypted PROVE current'[c] >= 1
    <3>1. current[c] >= 1 /\ current[c] \in Nat /\ current'[c] \in Nat /\ c \in Chats
      BY <1>1 DEF EpochInv, MembershipDiscipline, TypeOK
    <3> QED BY <1>2, <3>1
  <2>2. ASSUME NEW v \in Workers, v # w, NEW c \in Encrypted,
               tx'[v].opened[c] # 0 \/ (tx'[v].pc = "insert" /\ tx'[v].chat = c)
        PROVE  Owners(tx'[v].roster[c]) \subseteq Visible(v, c)'
    <3>1. tx'[v] = tx[v] /\ c \in Chats
      BY <1>1, <2>2, EndOfTransaction
    <3>2. lock[c] = v
      BY <2>2, <3>1 DEF EpochInv, LockDiscipline
    <3>3. members[c] \subseteq members'[c]
      BY <2>2, <3>1, <3>2, CommitEffect
    <3>4. Owners(tx[v].roster[c]) \subseteq Visible(v, c)
      BY <2>2, <3>1 DEF EpochInv, MembershipDiscipline
    <3>5. Visible(v, c) \subseteq Visible(v, c)'
      BY <3>1, <3>3 DEF Visible
    <3> QED BY <3>1, <3>4, <3>5
  <2>3. ASSUME NEW v \in Workers, v # w,
               tx'[v].pc = "commit", tx'[v].op \in Removals \cup {"add"},
               tx'[v].chat \in Encrypted, tx'[v].opened[tx'[v].chat] = 0
        PROVE  tx'[v].op = "add" /\ tx'[v].chat \in SharedHistory
    <3>1. tx'[v] = tx[v]
      BY <2>3, EndOfTransaction
    <3> QED BY <2>3, <3>1 DEF EpochInv, MembershipDiscipline
  <2>4. tx'[w].pc \notin {"commit", "insert"} /\ \A c \in Encrypted : tx'[w].opened[c] = 0
    BY <1>1, EndOfTransaction
  <2> QED BY <2>1, <2>2, <2>3, <2>4 DEF MembershipDiscipline
<1>6. OpenEpochExcludesFormerMembers'
  <2>1. SUFFICES ASSUME NEW c \in Encrypted, NEW e \in epochs'[c], ~e.closed
                 PROVE  Owners(e.devices) \subseteq members'[c]
    BY DEF OpenEpochExcludesFormerMembers, OpenEpochs
  <2>2. c \in Chats
    BY <1>1
  <2>3. CASE tx[w].opened[c] = 0
    BY <2>1, <2>2, <2>3, CommitEffect DEF EpochInv, OpenEpochExcludesFormerMembers, OpenEpochs
  <2>4. CASE tx[w].opened[c] # 0
    <3>1. epochs'[c] = {[f EXCEPT !.closed = TRUE] : f \in epochs[c]}
             \cup {[epoch |-> tx[w].opened[c], devices |-> tx[w].roster[c], closed |-> FALSE]}
      BY <2>2, <2>4 DEF Commit, Rotated
    <3>2. \A f \in epochs[c] : [f EXCEPT !.closed = TRUE].closed = TRUE
      BY <2>2 DEF TypeOK, EpochRow
    <3>3. e.devices = tx[w].roster[c]
      <4> DEFINE new == [epoch |-> tx[w].opened[c], devices |-> tx[w].roster[c], closed |-> FALSE]
      <4>1. e = new \/ \E f \in epochs[c] : e = [f EXCEPT !.closed = TRUE]
        BY <2>1, <3>1
      <4>2. e = new
        BY <2>1, <3>2, <4>1
      <4> QED BY <4>2
    <3>4. Owners(tx[w].roster[c]) \subseteq Visible(w, c)
      BY <2>4 DEF EpochInv, MembershipDiscipline
    <3> QED BY <2>2, <3>3, <3>4, CommitEffect
  <2> QED BY <2>3, <2>4
<1> QED
  BY <1>3, <1>4, <1>5, <1>6, CommitChain DEF EpochInv

(* A rollback changes no table, and nobody else's transaction or locks. *)
LEMMA RollbackPreserves ==
    ASSUME TypeOK, EpochInv, NEW w \in Workers, Rollback(w)
    PROVE  EpochInv'
<1>1. /\ UNCHANGED <<members, current, epochs>>
      /\ \A v \in Workers : v # w => tx'[v] = tx[v]
      /\ \A v \in Workers, c \in Chats : v # w /\ lock[c] = v => lock'[c] = v
      /\ tx'[w] = Idle
  BY EndOfTransaction DEF Rollback, TypeOK
<1>2. current \in [Chats -> Nat] /\ Encrypted \subseteq Chats
  BY ChatsAssumption DEF TypeOK
<1>3. EpochChain' /\ OpenEpochExcludesFormerMembers'
  BY <1>1 DEF EpochInv, EpochChain, OpenEpochExcludesFormerMembers, OpenEpochs
<1>4. LockDiscipline'
  <2>1. /\ Idle.pc = "idle"
        /\ \A c \in Chats : Idle.seen[c] <= current[c] /\ Idle.opened[c] = 0
    BY <1>2 DEF Idle
  <2>2. ASSUME NEW v \in Workers, v # w
        PROVE  /\ tx'[v].pc \in {"write", "settings", "lock", "roster", "insert", "floor"}
                    => tx'[v].chat \in Chats
               /\ tx'[v].pc \in {"roster", "insert", "floor"} => lock'[tx'[v].chat] = v
               /\ \A c \in Chats : /\ tx'[v].seen[c] <= current'[c]
                                   /\ tx'[v].opened[c] # 0 => /\ lock'[c] = v
                                                              /\ tx'[v].opened[c] = current'[c] + 1
    BY <1>1, <2>2 DEF EpochInv, LockDiscipline
  <2> QED BY <1>1, <2>1, <2>2 DEF LockDiscipline
<1>5. StepDiscipline'
  BY <1>1 DEF EpochInv, StepDiscipline, AtStep, Idle
<1>6. MembershipDiscipline'
  <2>1. \A v \in Workers, c \in Chats : v # w => Visible(v, c)' = Visible(v, c)
    BY <1>1 DEF Visible
  <2>2. \A c \in Encrypted : Idle.opened[c] = 0 /\ Idle.pc = "idle"
    BY <1>2 DEF Idle
  <2>3. ASSUME NEW v \in Workers, v # w, NEW c \in Encrypted,
               tx'[v].opened[c] # 0 \/ (tx'[v].pc = "insert" /\ tx'[v].chat = c)
        PROVE  Owners(tx'[v].roster[c]) \subseteq Visible(v, c)'
    <3>1. Owners(tx[v].roster[c]) \subseteq Visible(v, c)
      BY <1>1, <2>3 DEF EpochInv, MembershipDiscipline
    <3> QED BY <1>1, <1>2, <2>1, <2>3, <3>1
  <2>4. ASSUME NEW v \in Workers, v # w,
               tx'[v].pc = "commit", tx'[v].op \in Removals \cup {"add"},
               tx'[v].chat \in Encrypted, tx'[v].opened[tx'[v].chat] = 0
        PROVE  tx'[v].op = "add" /\ tx'[v].chat \in SharedHistory
    BY <1>1, <2>4 DEF EpochInv, MembershipDiscipline
  <2>5. \A c \in Encrypted : current'[c] >= 1
    BY <1>1 DEF EpochInv, MembershipDiscipline
  <2> QED BY <1>1, <2>2, <2>3, <2>4, <2>5 DEF MembershipDiscipline
<1> QED
  BY <1>3, <1>4, <1>5, <1>6 DEF EpochInv

(* A request begins with an empty transaction at its first statement. *)
LEMMA RequestPreserves ==
    ASSUME TypeOK, EpochInv, NEW w \in Workers, Request(w)
    PROVE  EpochInv'
<1>1. tx \in [Workers -> Tx] /\ current \in [Chats -> Nat] /\ Encrypted \subseteq Chats
  BY ChatsAssumption DEF TypeOK
<1> DEFINE Begun(t) == /\ t.pc \in {"write", "chats", "pick"}
                       /\ t.pc = "write" => t.op \in Removals \cup {"add", "enable"}
                                            /\ t.chat \in Chats
                       /\ t.pc \in {"chats", "pick"} => t.op \in {"publish", "periodic"}
                       /\ t.rows = {}
                       /\ \A c \in Chats : t.opened[c] = 0 /\ t.seen[c] <= current[c]
<1>2. ASSUME NEW op \in Ops, NEW S, NEW c, NEW pc
      PROVE  /\ Start(op, S, c, pc).pc = pc
             /\ Start(op, S, c, pc).op = op
             /\ Start(op, S, c, pc).chat = c
             /\ Start(op, S, c, pc).rows = {}
             /\ \A b \in Chats : Start(op, S, c, pc).opened[b] = 0
             /\ \A b \in Chats : Start(op, S, c, pc).seen[b] <= current[b]
  BY <1>1 DEF Start, Idle
<1>3. /\ UNCHANGED <<members, current, epochs, lock>>
      /\ \A v \in Workers : v # w => tx'[v] = tx[v]
      /\ Begun(tx'[w])
  <2>1. ASSUME NEW c \in Chats, NEW S \in SUBSET Users, NEW op \in {"remove", "leave", "add", "enable"},
               tx' = [tx EXCEPT ![w] = Start(op, S, c, "write")]
        PROVE  (\A v \in Workers : v # w => tx'[v] = tx[v]) /\ Begun(tx'[w])
    <3>1. tx'[w] = Start(op, S, c, "write") /\ op \in Ops
      BY <1>1, <2>1 DEF Ops, Removals
    <3> QED BY <1>1, <1>2, <2>1, <3>1 DEF Removals
  <2>2. ASSUME NEW c \in Chats, NEW S \in SUBSET Users, Remove(w, c, S)
        PROVE  <1>3!1 /\ <1>3!2 /\ <1>3!3
    BY <2>1, <2>2 DEF Remove
  <2>3. ASSUME NEW c \in Chats, NEW S \in SUBSET Users, Add(w, c, S)
        PROVE  <1>3!1 /\ <1>3!2 /\ <1>3!3
    BY <2>1, <2>3 DEF Add
  <2>4. ASSUME NEW c \in Chats, NEW u \in Users, Leave(w, c, u)
        PROVE  <1>3!1 /\ <1>3!2 /\ <1>3!3
    BY <2>1, <2>4 DEF Leave
  <2>5. ASSUME NEW c \in Chats, Enable(w, c)
        PROVE  <1>3!1 /\ <1>3!2 /\ <1>3!3
    BY <2>1, <2>5 DEF Enable
  <2>6. ASSUME NEW d \in Devices, PublishIdentity(w, d)
        PROVE  <1>3!1 /\ <1>3!2 /\ <1>3!3
    <3>1. tx' = [tx EXCEPT ![w] = Start("publish", {DeviceOwner[d]}, NoChat, "chats")]
      BY <2>6 DEF PublishIdentity
    <3>2. tx'[w] = Start("publish", {DeviceOwner[d]}, NoChat, "chats") /\ "publish" \in Ops
      BY <1>1, <3>1 DEF Ops
    <3> QED BY <1>1, <1>2, <2>6, <3>1, <3>2 DEF PublishIdentity
  <2>7. ASSUME NEW due \in SUBSET Chats, Periodic(w, due)
        PROVE  <1>3!1 /\ <1>3!2 /\ <1>3!3
    <3> DEFINE t == [Start("periodic", {}, NoChat, "pick") EXCEPT !.todo = due, !.seen = current]
    <3>1. tx' = [tx EXCEPT ![w] = t]
      BY <2>7 DEF Periodic
    <3>2. Begun(t)
      BY <1>1 DEF Start, Idle
    <3> HIDE DEF t
    <3>3. tx'[w] = t /\ \A v \in Workers : v # w => tx'[v] = tx[v]
      BY <1>1, <3>1
    <3> QED BY <2>7, <3>2, <3>3 DEF Periodic
  <2> QED BY <2>2, <2>3, <2>4, <2>5, <2>6, <2>7 DEF Request
<1>4. EpochChain' /\ OpenEpochExcludesFormerMembers'
  BY <1>3 DEF EpochInv, EpochChain, OpenEpochExcludesFormerMembers, OpenEpochs
<1>5. LockDiscipline'
  <2>1. ASSUME NEW v \in Workers, v # w
        PROVE  /\ tx'[v].pc \in {"write", "settings", "lock", "roster", "insert", "floor"}
                    => tx'[v].chat \in Chats
               /\ tx'[v].pc \in {"roster", "insert", "floor"} => lock'[tx'[v].chat] = v
               /\ \A c \in Chats : /\ tx'[v].seen[c] <= current'[c]
                                   /\ tx'[v].opened[c] # 0 => /\ lock'[c] = v
                                                              /\ tx'[v].opened[c] = current'[c] + 1
    BY <1>3, <2>1 DEF EpochInv, LockDiscipline
  <2> QED BY <1>3, <2>1 DEF LockDiscipline
<1>6. StepDiscipline'
  <2>1. \A v \in Workers : v # w => AtStep(v)'
    BY <1>3 DEF EpochInv, StepDiscipline, AtStep
  <2>2. AtStep(w)'
    BY <1>3 DEF AtStep
  <2> QED BY <2>1, <2>2 DEF StepDiscipline
<1>7. MembershipDiscipline'
  <2>1. \A v \in Workers, c \in Chats : v # w => Visible(v, c)' = Visible(v, c)
    BY <1>3 DEF Visible
  <2>2. ASSUME NEW v \in Workers, v # w, NEW c \in Encrypted,
               tx'[v].opened[c] # 0 \/ (tx'[v].pc = "insert" /\ tx'[v].chat = c)
        PROVE  Owners(tx'[v].roster[c]) \subseteq Visible(v, c)'
    <3>1. Owners(tx[v].roster[c]) \subseteq Visible(v, c)
      BY <1>3, <2>2 DEF EpochInv, MembershipDiscipline
    <3> QED BY <1>1, <1>3, <2>1, <2>2, <3>1
  <2>3. ASSUME NEW v \in Workers, v # w,
               tx'[v].pc = "commit", tx'[v].op \in Removals \cup {"add"},
               tx'[v].chat \in Encrypted, tx'[v].opened[tx'[v].chat] = 0
        PROVE  tx'[v].op = "add" /\ tx'[v].chat \in SharedHistory
    BY <1>3, <2>3 DEF EpochInv, MembershipDiscipline
  <2>4. \A c \in Encrypted : current'[c] >= 1
    BY <1>3 DEF EpochInv, MembershipDiscipline
  <2>5. tx'[w].pc \notin {"commit", "insert"} /\ \A c \in Encrypted : tx'[w].opened[c] = 0
    BY <1>1, <1>3
  <2> QED BY <2>2, <2>3, <2>4, <2>5 DEF MembershipDiscipline
<1> QED
  BY <1>4, <1>5, <1>6, <1>7 DEF EpochInv

LEMMA InitialEpochs == Init => EpochInv
<1> SUFFICES ASSUME Init PROVE EpochInv
  OBVIOUS
<1>1. /\ tx = [w \in Workers |-> Idle]
      /\ current = [c \in Chats |-> IF c \in Encrypted THEN 1 ELSE 0]
      /\ Encrypted \subseteq Chats
  BY ChatsAssumption DEF Init
<1>2. ASSUME NEW c \in Chats
      PROVE  \/ /\ current[c] = 0 /\ epochs[c] = {} /\ c \notin Encrypted
             \/ /\ current[c] = 1
                /\ epochs[c] = {[epoch |-> 1, devices |-> Roster(members[c]), closed |-> FALSE]}
  BY DEF Init
<1>3. EpochChain
  <2>1. 1..0 = {} /\ 1..1 = {1}
    OBVIOUS
  <2>2. ASSUME NEW c \in Chats
        PROVE  /\ {e.epoch : e \in epochs[c]} = 1..current[c]
               /\ \A e, f \in epochs[c] : e.epoch = f.epoch => e = f
               /\ \A e \in epochs[c] : ~e.closed <=> e.epoch = current[c]
    <3> DEFINE first == [epoch |-> 1, devices |-> Roster(members[c]), closed |-> FALSE]
    <3>1. first.epoch = 1 /\ first.closed = FALSE
      OBVIOUS
    <3>2. CASE current[c] = 0 /\ epochs[c] = {}
      BY <2>1, <3>2
    <3>3. CASE current[c] = 1 /\ epochs[c] = {first}
      <4> HIDE DEF first
      <4> QED BY <2>1, <3>1, <3>3
    <3> QED BY <1>2, <3>2, <3>3
  <2> QED BY <2>2 DEF EpochChain
<1>4. \A w \in Workers : /\ tx[w].pc = "idle" /\ tx[w].op = "none" /\ tx[w].rows = {}
                         /\ \A c \in Chats : tx[w].seen[c] = 0 /\ tx[w].opened[c] = 0
  BY <1>1 DEF Idle
<1>5. LockDiscipline
  <2>1. \A c \in Chats : 0 <= current[c]
    BY <1>1
  <2> QED BY <1>4, <2>1 DEF LockDiscipline
<1>6. StepDiscipline
  BY <1>4 DEF StepDiscipline, AtStep, Removals
<1>7. MembershipDiscipline
  BY <1>1, <1>4 DEF MembershipDiscipline
<1>8. OpenEpochExcludesFormerMembers
  BY <1>1, <1>2, OwnersOfRoster DEF OpenEpochExcludesFormerMembers, OpenEpochs
<1> QED
  BY <1>3, <1>5, <1>6, <1>7, <1>8 DEF EpochInv

LEMMA EpochInvStep == TypeOK /\ EpochInv /\ [Next]_vars => EpochInv'
<1> SUFFICES ASSUME TypeOK, EpochInv, [Next]_vars PROVE EpochInv'
  OBVIOUS
<1>1. ASSUME NEW w \in Workers, Request(w) PROVE EpochInv'
  BY <1>1, RequestPreserves
<1>2. ASSUME NEW w \in Workers, Statement(w) PROVE EpochInv'
  <2>1. UNCHANGED <<members, current, epochs>>
    BY <1>2, StatementFrame
  <2>2. EpochChain' /\ OpenEpochExcludesFormerMembers'
    BY <2>1 DEF EpochInv, EpochChain, OpenEpochExcludesFormerMembers, OpenEpochs
  <2>3. LockDiscipline'
    BY <1>2, StatementLocks DEF EpochInv
  <2>4. StepDiscipline'
    BY <1>2, StatementSteps DEF EpochInv
  <2>5. MembershipDiscipline'
    BY <1>2, StatementMembership DEF EpochInv
  <2> QED BY <2>2, <2>3, <2>4, <2>5 DEF EpochInv
<1>3. ASSUME NEW w \in Workers, Commit(w) PROVE EpochInv'
  BY <1>3, CommitPreserves
<1>4. ASSUME NEW w \in Workers, Rollback(w) PROVE EpochInv'
  BY <1>4, RollbackPreserves
<1>5. CASE UNCHANGED <<members, current, epochs, lock, tx>>
  <2>1. \A v \in Workers, c \in Chats : Visible(v, c)' = Visible(v, c)
    BY <1>5 DEF Visible
  <2>2. EpochChain' /\ LockDiscipline' /\ OpenEpochExcludesFormerMembers'
    BY <1>5 DEF EpochInv, EpochChain, LockDiscipline, OpenEpochExcludesFormerMembers, OpenEpochs
  <2>3. StepDiscipline'
    BY <1>5 DEF EpochInv, StepDiscipline, AtStep
  <2>4. MembershipDiscipline'
    BY <1>5, <2>1, ChatsAssumption DEF EpochInv, MembershipDiscipline
  <2> QED BY <2>2, <2>3, <2>4 DEF EpochInv
<1> QED
  BY <1>1, <1>2, <1>3, <1>4, <1>5
  DEF Next, vars, Step, Refused, DeadlockVictim, Crash, ResetPassword

(* The inductive invariant holds of every reachable state. *)
THEOREM EpochInvariant == Spec => []EpochInv
BY InitialEpochs, EpochInvStep, TypeCorrect, PTL DEF Spec

(* Epoch numbers of a chat are 1..current_epoch without gap or repeat, and the last one is the  *)
(* only one open: allocate_epoch is right under every interleaving of any number of requests.   *)
THEOREM ChainCorrect == Spec => []EpochChain
<1>1. EpochInv => EpochChain
  BY DEF EpochInv
<1> QED
  BY <1>1, EpochInvariant, PTL

(* The open epoch of a chat encrypted all along commits to no device of a former member.        *)
THEOREM FormerMembersExcluded == Spec => []OpenEpochExcludesFormerMembers
<1>1. EpochInv => OpenEpochExcludesFormerMembers
  BY DEF EpochInv
<1> QED
  BY <1>1, EpochInvariant, PTL

(* Only a commit changes a committed chat. *)
LEMMA OnlyCommits ==
    ASSUME TypeOK, [Next]_vars
    PROVE  UNCHANGED <<members, joinedAt, current, epochs>> \/ \E w \in Workers : Commit(w)
<1>1. ASSUME NEW w \in Workers, Request(w) PROVE UNCHANGED <<members, joinedAt, current, epochs>>
  BY <1>1 DEF Request, Remove, Leave, Add, Enable, PublishIdentity, Periodic
<1>2. ASSUME NEW w \in Workers, Statement(w) PROVE UNCHANGED <<members, joinedAt, current, epochs>>
  BY <1>2, StatementFrame
<1>3. ASSUME NEW w \in Workers, Rollback(w) PROVE UNCHANGED <<members, joinedAt, current, epochs>>
  BY <1>3 DEF Rollback
<1>4. CASE UNCHANGED vars
  BY <1>4 DEF vars
<1> QED
  BY <1>1, <1>2, <1>3, <1>4 DEF Next, Step, Refused, DeadlockVictim, Crash, ResetPassword

(* No step removes a member of an encrypted chat without opening the next epoch.                *)
THEOREM RemovalsRotate == Spec => RemovalRotates
<1>1. ASSUME TypeOK, EpochInv, [Next]_vars, NEW c \in Encrypted, members[c] \ members'[c] # {}
      PROVE  current'[c] = current[c] + 1
  <2>1. c \in Chats
    BY ChatsAssumption
  <2>2. PICK w \in Workers : Commit(w)
    BY <1>1, OnlyCommits
  <2> QED BY <1>1, <2>1, <2>2, CommitEffect
<1>2. TypeOK /\ EpochInv /\ [Next]_vars
        => [\A c \in Encrypted : members[c] \ members'[c] # {} => current'[c] = current[c] + 1]_vars
  BY <1>1
<1> QED
  BY <1>2, TypeCorrect, EpochInvariant, PTL DEF Spec, RemovalRotates

(* No step adds a member to an encrypted chat with JOINED history but at a fresh epoch, which   *)
(* becomes the floor of what the newcomer may be granted.                                       *)
THEOREM JoinersStartFresh == Spec => JoinerStartsAtFreshEpoch
<1>1. ASSUME TypeOK, EpochInv, [Next]_vars,
             NEW c \in Encrypted \ SharedHistory, NEW u \in members'[c] \ members[c]
      PROVE  current'[c] = current[c] + 1 /\ joinedAt'[c][u] = current'[c]
  <2>1. c \in Chats
    BY ChatsAssumption
  <2>2. PICK w \in Workers : Commit(w)
    BY <1>1, OnlyCommits
  <2>3. u \in Visible(w, c) /\ u \notin members[c]
    BY <1>1, <2>1, <2>2, CommitEffect
  <2>4. tx[w].chat = c /\ u \in tx[w].rows /\ tx[w].op \notin Removals
    BY <1>1, <2>3 DEF Visible
  <2>5. tx[w].op = "add" /\ tx[w].pc = "commit"
    BY <1>1, <2>2, <2>4 DEF EpochInv, StepDiscipline, AtStep, Commit, Running
  <2>6. tx[w].opened[c] # 0
    BY <1>1, <2>4, <2>5 DEF EpochInv, MembershipDiscipline
  <2>7. current'[c] = current[c] + 1 /\ current'[c] = tx[w].opened[c]
    BY <1>1, <2>1, <2>2, <2>6, CommitEffect DEF Commit
  <2>8. u \in Users
    BY <1>1, <2>1, <2>2, <2>3, VisibleType
  <2>9. joinedAt'[c][u] = tx[w].opened[c]
    BY <2>1, <2>2, <2>4, <2>5, <2>8 DEF Commit
  <2> QED BY <2>7, <2>9
<1>2. TypeOK /\ EpochInv /\ [Next]_vars
        => [\A c \in Encrypted \ SharedHistory : \A u \in members'[c] \ members[c] :
              /\ current'[c] = current[c] + 1
              /\ joinedAt'[c][u] = current'[c]]_vars
  BY <1>1
<1> QED
  BY <1>2, TypeCorrect, EpochInvariant, PTL DEF Spec, JoinerStartsAtFreshEpoch

(* Committed epochs keep their number and their commitment for good, and stay closed once       *)
(* closed; a step opens at most one epoch per chat.                                             *)
THEOREM EpochsPermanent == Spec => EpochsAppendOnly
<1>1. ASSUME TypeOK, EpochInv, [Next]_vars, NEW c \in Chats
      PROVE  /\ current'[c] \in {current[c], current[c] + 1}
             /\ \A e \in epochs[c] : \E f \in epochs'[c] :
                   /\ f.epoch = e.epoch /\ f.devices = e.devices
                   /\ e.closed => f.closed
  <2>1. CASE UNCHANGED <<members, joinedAt, current, epochs>>
    BY <2>1
  <2>2. ASSUME NEW w \in Workers, Commit(w)
        PROVE  /\ current'[c] \in {current[c], current[c] + 1}
               /\ \A e \in epochs[c] : \E f \in epochs'[c] :
                     /\ f.epoch = e.epoch /\ f.devices = e.devices
                     /\ e.closed => f.closed
    <3>1. current'[c] \in {current[c], current[c] + 1}
      BY <1>1, <2>2, CommitEffect
    <3>2. ASSUME NEW e \in epochs[c]
          PROVE  \E f \in epochs'[c] : /\ f.epoch = e.epoch /\ f.devices = e.devices
                                       /\ e.closed => f.closed
      <4>1. CASE tx[w].opened[c] = 0
        BY <1>1, <2>2, <4>1, CommitEffect
      <4>2. CASE tx[w].opened[c] # 0
        <5> DEFINE f == [e EXCEPT !.closed = TRUE]
        <5>1. f \in epochs'[c]
          BY <2>2, <4>2 DEF Commit, Rotated
        <5>2. e \in EpochRow
          BY <1>1 DEF TypeOK
        <5>3. f.epoch = e.epoch /\ f.devices = e.devices /\ f.closed = TRUE
          BY <5>2 DEF EpochRow
        <5> HIDE DEF f
        <5> QED BY <5>1, <5>3
      <4> QED BY <4>1, <4>2
    <3> QED BY <3>1, <3>2
  <2> QED BY <1>1, <2>1, <2>2, OnlyCommits
<1>2. TypeOK /\ EpochInv /\ [Next]_vars
        => [\A c \in Chats :
              /\ current'[c] \in {current[c], current[c] + 1}
              /\ \A e \in epochs[c] : \E f \in epochs'[c] :
                    /\ f.epoch = e.epoch /\ f.devices = e.devices
                    /\ e.closed => f.closed]_vars
  BY <1>1
<1> QED
  BY <1>2, TypeCorrect, EpochInvariant, PTL DEF Spec, EpochsAppendOnly

----------------------------------------------------------------------------
(* The concurrent transactions implement the atomic epoch changes of EpochLedger. *)

(* The chats whose pending epoch a transaction commits. *)
Pending(w) == {c \in Chats : tx[w].opened[c] # 0}

LEMMA CommitAdvances ==
    ASSUME TypeOK, EpochInv, NEW w \in Workers, Commit(w)
    PROVE  Ledger!Advance(Pending(w))
<1>1. current' = [c \in Chats |-> IF tx[w].opened[c] = 0 THEN current[c] ELSE tx[w].opened[c]]
  BY DEF Commit
<1>2. \A c \in Chats : tx[w].opened[c] # 0 => tx[w].opened[c] = current[c] + 1
  BY DEF EpochInv, LockDiscipline
<1> QED
  BY <1>1, <1>2 DEF Ledger!Advance, Pending

(* The commit of a removal or an addition is the abstract membership change of the rows it      *)
(* holds; any other commit is a rotation.                                                       *)
LEMMA CommitRefines ==
    ASSUME TypeOK, EpochInv, NEW w \in Workers, Commit(w)
    PROVE  Ledger!Next
<1> DEFINE c == tx[w].chat
           S == tx[w].rows
<1>1. /\ tx[w].pc = "commit" /\ AtStep(w) /\ S \in SUBSET Users
      /\ members \in [Chats -> SUBSET Users]
      /\ joinedAt \in [Chats -> [Users -> Nat]]
      /\ UNCHANGED devices
  BY DEF Commit, Running, EpochInv, StepDiscipline, TypeOK, Tx
<1>2. members' = [b \in Chats |-> Visible(w, b)]
  BY DEF Commit
<1>3. joinedAt' = [b \in Chats |-> [u \in Users |->
                     IF b = c /\ u \in S THEN IF tx[w].op = "add" THEN tx[w].opened[b] ELSE 0
                                         ELSE joinedAt[b][u]]]
  BY DEF Commit
<1>4. Ledger!Advance(Pending(w)) /\ Pending(w) \in SUBSET Chats
  BY CommitAdvances DEF Pending
<1>5. CASE c \in Chats /\ tx[w].op \in Removals
  <2>1. members' = [members EXCEPT ![c] = @ \ S]
    BY <1>1, <1>2, <1>5 DEF Visible
  <2>2. Ledger!Stamp(c, S, 0)
    BY <1>3, <1>5 DEF Ledger!Stamp, Removals
  <2>3. Pending(w) \in {{}, {c}}
    BY <1>1, <1>5 DEF AtStep, Pending
  <2>4. c \in Encrypted => Pending(w) = {c}
    BY <1>1, <1>5, <2>3 DEF EpochInv, MembershipDiscipline, Pending, Removals
  <2>5. Ledger!RemoveMembers(c, S)
    BY <1>1, <1>4, <2>1, <2>2, <2>3, <2>4 DEF Ledger!RemoveMembers
  <2> QED BY <1>1, <1>5, <2>5 DEF Ledger!Next
<1>6. CASE c \in Chats /\ tx[w].op = "add"
  <2>1. members' = [members EXCEPT ![c] = @ \cup S]
    BY <1>1, <1>2, <1>6 DEF Visible, Removals
  <2>2. Pending(w) \in {{}, {c}}
    BY <1>1, <1>6 DEF AtStep, Pending
  <2>3. c \in SharedHistory => Pending(w) = {}
    BY <1>1, <1>6 DEF AtStep, Pending
  <2>4. c \in Encrypted \ SharedHistory => Pending(w) = {c}
    BY <1>1, <1>6, <2>2 DEF EpochInv, MembershipDiscipline, Pending
  <2>5. tx[w].opened[c] = IF Pending(w) = {} THEN 0 ELSE current[c] + 1
    BY <1>6, <2>2 DEF EpochInv, LockDiscipline, Pending
  <2>6. Ledger!Stamp(c, S, IF Pending(w) = {} THEN 0 ELSE current[c] + 1)
    BY <1>3, <1>6, <2>5 DEF Ledger!Stamp
  <2>7. Ledger!AddMembers(c, S)
    BY <1>1, <1>4, <2>1, <2>2, <2>3, <2>4, <2>6 DEF Ledger!AddMembers
  <2> QED BY <1>1, <1>6, <2>7 DEF Ledger!Next
<1>7. CASE c \notin Chats \/ tx[w].op \notin Removals \cup {"add"}
  <2>1. members' = members
    <3>1. \A b \in Chats : Visible(w, b) = members[b]
      BY <1>1, <1>7 DEF AtStep, Visible
    <3> QED BY <1>1, <1>2, <3>1
  <2>2. joinedAt' = joinedAt
    <3>1. \A b \in Chats, u \in Users : ~(b = c /\ u \in S)
      BY <1>1, <1>7 DEF AtStep
    <3> QED BY <1>1, <1>3, <3>1
  <2>3. Ledger!Rotate(Pending(w))
    BY <1>1, <1>4, <2>1, <2>2 DEF Ledger!Rotate
  <2> QED BY <1>4, <2>3 DEF Ledger!Next
<1> QED
  BY <1>5, <1>6, <1>7

LEMMA StepRefines ==
    ASSUME TypeOK, EpochInv, [Next]_vars
    PROVE  [Ledger!Next]_(Ledger!vars)
<1>1. ASSUME NEW w \in Workers, Request(w)
      PROVE  Ledger!Next \/ UNCHANGED Ledger!vars
  <2>1. ASSUME NEW d \in Devices, PublishIdentity(w, d) PROVE Ledger!Next
    BY <2>1 DEF PublishIdentity, Ledger!PublishIdentity, Ledger!Next
  <2> QED
    BY <1>1, <2>1 DEF Request, Remove, Leave, Add, Enable, Periodic, Ledger!vars
<1>2. ASSUME NEW w \in Workers, Statement(w) PROVE UNCHANGED Ledger!vars
  BY <1>2, StatementFrame DEF Ledger!vars
<1>3. ASSUME NEW w \in Workers, Rollback(w) PROVE UNCHANGED Ledger!vars
  BY <1>3 DEF Rollback, Ledger!vars
<1>4. ASSUME NEW u \in Users, ResetPassword(u) PROVE Ledger!Next
  BY <1>4 DEF ResetPassword, Ledger!RevokeDevices, Ledger!Next
<1>5. CASE UNCHANGED vars
  BY <1>5 DEF vars, Ledger!vars
<1> QED
  BY <1>1, <1>2, <1>3, <1>4, <1>5, CommitRefines DEF Next, Step, Refused, DeadlockVictim, Crash

(* Whatever the interleaving of statements, clashes, deadlocks and crashes, what other requests *)
(* can see of memberships, epochs and devices changes only as EpochLedger allows.               *)
THEOREM LedgerImplemented == Spec => ImplementsLedger
<1>1. Init => Ledger!Init
  BY DEF Init, Ledger!Init
<1>2. TypeOK /\ EpochInv /\ [Next]_vars => [Ledger!Next]_(Ledger!vars)
  BY StepRefines
<1> QED
  BY <1>1, <1>2, TypeCorrect, EpochInvariant, PTL DEF Spec, ImplementsLedger, Ledger!Spec
============================================================================
