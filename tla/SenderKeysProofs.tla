-------------------------- MODULE SenderKeysProofs --------------------------
(***************************************************************************)
(* Proofs about SenderKeys, for any number of users, devices, chats and    *)
(* calls, and for any bounds.                                              *)
(***************************************************************************)
EXTENDS SenderKeysProps, TLAPS

(* Between requests and answers a call keeps its sender and its chat. *)
CallTargets ==
    \A k \in Calls : call[k].pc \notin Ended => call[k].device \in Devices /\ call[k].chat \in Chats

TypeInv == TypeOK /\ CallTargets

LEMMA NoCallType ==
    NoCall \in Call /\ \A pc \in Steps : [NoCall EXCEPT !.pc = pc] \in Call
BY DEF NoCall, Call, Steps, Endpoints

(* Replacing fields of a call by values of their types gives a call. *)
LEMMA FieldTypes ==
    ASSUME NEW t \in Call
    PROVE  /\ \A x \in Steps : [t EXCEPT !.pc = x] \in Call
           /\ \A x \in Nat : [t EXCEPT !.epoch = x] \in Call
           /\ \A x \in Nat : [t EXCEPT !.fresh = x] \in Call
           /\ \A x \in Nat : [t EXCEPT !.skid = x] \in Call
           /\ \A x \in SUBSET Devices : [t EXCEPT !.grants = x] \in Call
           /\ \A x \in BOOLEAN : [t EXCEPT !.retried = x] \in Call
           /\ \A x \in BOOLEAN : [t EXCEPT !.lost = x] \in Call
           /\ \A x \in BOOLEAN : [t EXCEPT !.disturbed = x] \in Call
BY DEF Call

LEMMA FreshIdType == FreshId \in Nat
<1>1. 1 \in Ids /\ Ids \subseteq Nat
  BY SendersAssumption DEF Ids
<1>2. \E n \in Ids : InUse(n) => \A i \in Ids : InUse(i)
  BY <1>1
<1> QED BY <1>1, <1>2 DEF FreshId

LEMMA EpochsType == Epochs \subseteq Nat
BY DEF Epochs

LEMMA RosterType == ASSUME NEW c \in Chats PROVE Roster(c) \in SUBSET Devices
BY DEF Roster

(* One call of sendText changes its own record only; it keeps its sender and chat, or ends. *)
Continues(k, t) ==
    /\ t \in Call
    /\ t.pc \notin Ended => t.device = call[k].device /\ t.chat = call[k].chat

LEMMA StepOfCall ==
    ASSUME TypeInv, NEW k \in Calls, SendStep(k)
    PROVE  \E t \in Call : Continues(k, t) /\ call' = [call EXCEPT ![k] = t]
<1>1. call[k] \in Call /\ call \in [Calls -> Call]
  BY DEF TypeInv, TypeOK
<1>2. ASSUME Fail(k) = call' PROVE \E t \in Call : Continues(k, t) /\ call' = [call EXCEPT ![k] = t]
  <2> DEFINE t == [NoCall EXCEPT !.pc = IF call[k].lost THEN "idle" ELSE "failed"]
  <2>1. (IF call[k].lost THEN "idle" ELSE "failed") \in Ended /\ Ended \subseteq Steps
    BY DEF Ended, Steps
  <2>2. t \in Call
    BY <2>1, NoCallType
  <2>3. t.pc = IF call[k].lost THEN "idle" ELSE "failed"
    BY DEF NoCall
  <2> QED BY <1>2, <2>1, <2>2, <2>3 DEF Fail, Continues
<1>3. ASSUME NEW pc \in Steps, call' = Goto(k, pc)
      PROVE  \E t \in Call : Continues(k, t) /\ call' = [call EXCEPT ![k] = t]
  <2> DEFINE t == [call[k] EXCEPT !.pc = pc]
  <2>1. t \in Call /\ t.device = call[k].device /\ t.chat = call[k].chat
    BY <1>1, FieldTypes DEF Call
  <2> QED BY <1>1, <1>3, <2>1 DEF Goto, Continues
<1>4. ASSUME NEW s \in Call, Answer(k, s), s.device = call[k].device, s.chat = call[k].chat
      PROVE  \E t \in Call : Continues(k, t) /\ call' = [call EXCEPT ![k] = t]
  <2> DEFINE t == IF call[k].lost THEN NoCall ELSE s
  <2>1. t \in Call /\ Continues(k, t)
    BY <1>4, NoCallType DEF Continues, NoCall, Ended
  <2> QED BY <1>4, <2>1 DEF Answer
<1>5. CASE Access(k)
  <2>1. call[k].pc \in Endpoints => Handler[call[k].pc] \in Steps
    BY DEF Handler, Endpoints, Steps
  <2> QED BY <1>2, <1>3, <1>5, <2>1 DEF Access
<1>6. CASE ReadKeys(k)
  <2> DEFINE s == [[call[k] EXCEPT !.pc = "chain"] EXCEPT !.epoch = current[call[k].chat]]
  <2>1. call[k].chat \in Chats
    BY <1>6 DEF ReadKeys, At, TypeInv, CallTargets, Ended
  <2>2. current[call[k].chat] \in Nat
    BY <2>1 DEF TypeInv, TypeOK, Epochs
  <2>3. [call[k] EXCEPT !.pc = "chain"] \in Call
    BY <1>1, FieldTypes DEF Steps
  <2>4. s \in Call /\ s.device = call[k].device /\ s.chat = call[k].chat
    BY <1>1, <2>2, <2>3, FieldTypes DEF Call
  <2>5. s = [call[k] EXCEPT !.pc = "chain", !.epoch = current[call[k].chat]]
    BY <1>1 DEF Call
  <2> QED BY <1>2, <1>4, <1>6, <2>4, <2>5 DEF ReadKeys
<1>7. CASE EnsureChain(k)
  <2>1. CASE call' = Goto(k, "GET roster")
    BY <1>3, <2>1 DEF Steps, Endpoints
  <2>2. ASSUME NEW x \in Cached(k),
               call' = [call EXCEPT ![k].pc = "POST message", ![k].skid = x.skid]
        PROVE  \E t \in Call : Continues(k, t) /\ call' = [call EXCEPT ![k] = t]
    <3> DEFINE s == [[call[k] EXCEPT !.pc = "POST message"] EXCEPT !.skid = x.skid]
    <3>1. call[k].device \in Devices
      BY <1>7 DEF EnsureChain, At, TypeInv, CallTargets, Ended
    <3>2. x.skid \in Nat
      BY <3>1 DEF Cached, OwnChain, TypeInv, TypeOK
    <3>3. [call[k] EXCEPT !.pc = "POST message"] \in Call
      BY <1>1, FieldTypes DEF Steps, Endpoints
    <3>4. s \in Call /\ s.device = call[k].device /\ s.chat = call[k].chat
      BY <1>1, <3>2, <3>3, FieldTypes DEF Call
    <3>5. call' = [call EXCEPT ![k] = s]
      BY <1>1, <2>2
    <3> QED BY <3>4, <3>5 DEF Continues
  <2> QED BY <1>7, <2>1, <2>2 DEF EnsureChain
<1>8. CASE ReadRoster(k)
  <2> DEFINE s == [[[call[k] EXCEPT !.pc = "POST sender-keys"] EXCEPT !.skid = FreshId]
                      EXCEPT !.grants = Roster(call[k].chat)]
  <2>1. Roster(call[k].chat) \in SUBSET Devices
    BY <1>8, RosterType DEF ReadRoster, At, TypeInv, CallTargets, Ended
  <2>2. [call[k] EXCEPT !.pc = "POST sender-keys"] \in Call
    BY <1>1, FieldTypes DEF Steps, Endpoints
  <2>3. [[call[k] EXCEPT !.pc = "POST sender-keys"] EXCEPT !.skid = FreshId] \in Call
    BY <2>2, FieldTypes, FreshIdType
  <2>4. s \in Call
    BY <2>1, <2>3, FieldTypes
  <2>5. s.device = call[k].device /\ s.chat = call[k].chat
    BY <1>1 DEF Call
  <2>6. s = [call[k] EXCEPT !.pc = "POST sender-keys", !.skid = FreshId,
                            !.grants = Roster(call[k].chat)]
    BY <1>1 DEF Call
  <2> QED BY <1>4, <1>8, <2>4, <2>5, <2>6 DEF ReadRoster
<1>9. CASE CheckEpoch(k) \/ CheckDevice(k) \/ CheckGrants(k) \/ CheckDistribution(k)
  BY <1>2, <1>3, <1>9 DEF CheckEpoch, CheckDevice, CheckGrants, CheckDistribution, Steps
<1>10. CASE InsertDistribution(k)
  <2> DEFINE s == [[call[k] EXCEPT !.pc = "published"] EXCEPT !.grants = {}]
  <2>1. [call[k] EXCEPT !.pc = "published"] \in Call
    BY <1>1, FieldTypes DEF Steps
  <2>2. s \in Call /\ s.device = call[k].device /\ s.chat = call[k].chat
    BY <1>1, <2>1, FieldTypes DEF Call
  <2>3. s = [call[k] EXCEPT !.pc = "published", !.grants = {}]
    BY <1>1 DEF Call
  <2> QED BY <1>4, <1>10, <2>2, <2>3 DEF InsertDistribution
<1>11. CASE ChainPublished(k)
  BY <1>3, <1>11 DEF ChainPublished, Steps, Endpoints
<1>12. CASE CheckCurrent(k)
  <2> DEFINE s == [[call[k] EXCEPT !.pc = "stale"] EXCEPT !.fresh = current[call[k].chat]]
  <2>1. call[k].chat \in Chats
    BY <1>12 DEF CheckCurrent, At, TypeInv, CallTargets, Ended
  <2>2. current[call[k].chat] \in Nat
    BY <2>1 DEF TypeInv, TypeOK, Epochs
  <2>3. [call[k] EXCEPT !.pc = "stale"] \in Call
    BY <1>1, FieldTypes DEF Steps
  <2>4. s \in Call /\ s.device = call[k].device /\ s.chat = call[k].chat
    BY <1>1, <2>2, <2>3, FieldTypes DEF Call
  <2>5. s = [call[k] EXCEPT !.pc = "stale", !.fresh = current[call[k].chat]]
    BY <1>1 DEF Call
  <2> QED BY <1>2, <1>3, <1>4, <1>12, <2>4, <2>5 DEF CheckCurrent, Steps
<1>13. CASE StartOver(k)
  <2> DEFINE s == [[[[[call[k] EXCEPT !.pc = "chain"] EXCEPT !.retried = TRUE]
                        EXCEPT !.epoch = call[k].fresh] EXCEPT !.fresh = 0] EXCEPT !.skid = 0]
  <2>1. call[k].fresh \in Nat
    BY <1>1 DEF Call
  <2>2. [[call[k] EXCEPT !.pc = "chain"] EXCEPT !.retried = TRUE] \in Call
    BY <1>1, FieldTypes DEF Steps
  <2>3. [[[call[k] EXCEPT !.pc = "chain"] EXCEPT !.retried = TRUE] EXCEPT !.epoch = call[k].fresh] \in Call
    BY <2>1, <2>2, FieldTypes
  <2>4. s \in Call
    BY <2>3, FieldTypes
  <2>5. s.device = call[k].device /\ s.chat = call[k].chat
    BY <1>1 DEF Call
  <2>6. call' = [call EXCEPT ![k] = s]
    BY <1>1, <1>13 DEF StartOver, Call
  <2> QED BY <2>4, <2>5, <2>6 DEF Continues
<1>14. CASE Store(k)
  BY <1>14, NoCallType DEF Store, Continues, NoCall, Ended
<1> QED
  BY <1>5, <1>6, <1>7, <1>8, <1>9, <1>10, <1>11, <1>12, <1>13, <1>14 DEF SendStep

(* A step of the ledger moves a chat by at most one epoch; an encrypted chat that loses a       *)
(* member moves.                                                                                *)
LedgerEffect ==
    /\ members' \in [Chats -> SUBSET Users]
    /\ joinedAt' \in [Chats -> [Users -> Nat]]
    /\ devices' \in [Devices -> {"absent", "active", "revoked"}]
    /\ current' \in [Chats -> Nat]
    /\ \A c \in Chats : current[c] <= current'[c]
    /\ \A c \in Encrypted : current'[c] = current[c] => members[c] \subseteq members'[c]

LEMMA LedgerMoves == ASSUME TypeOK, Ledger!Next PROVE LedgerEffect
<1>1. ASSUME NEW R, Ledger!Advance(R)
      PROVE  /\ current' \in [Chats -> Nat]
             /\ \A c \in Chats : current'[c] = IF c \in R THEN current[c] + 1 ELSE current[c]
  BY <1>1 DEF Ledger!Advance, TypeOK, Epochs
<1>2. ASSUME NEW c \in Chats, NEW S \in SUBSET Users, NEW floor \in Nat, Ledger!Stamp(c, S, floor)
      PROVE  joinedAt' \in [Chats -> [Users -> Nat]]
  BY <1>2 DEF Ledger!Stamp, TypeOK
<1>3. ASSUME NEW c \in Chats, NEW S \in SUBSET Users, Ledger!RemoveMembers(c, S) PROVE LedgerEffect
  <2>1. PICK R \in {{}, {c}} : (c \in Encrypted => R = {c}) /\ Ledger!Advance(R)
    BY <1>3 DEF Ledger!RemoveMembers
  <2>2. joinedAt' \in [Chats -> [Users -> Nat]] /\ devices' = devices
    BY <1>2, <1>3 DEF Ledger!RemoveMembers
  <2>3. members' = [members EXCEPT ![c] = @ \ S]
    BY <1>3 DEF Ledger!RemoveMembers
  <2>4. members' \in [Chats -> SUBSET Users] /\ \A b \in Chats : b # c => members'[b] = members[b]
    BY <2>3 DEF TypeOK
  <2>5. \A b \in Chats : current[b] <= current'[b]
    BY <1>1, <2>1 DEF TypeOK, Epochs
  <2>6. ASSUME NEW b \in Encrypted, current'[b] = current[b] PROVE members[b] \subseteq members'[b]
    <3>1. b \in Chats /\ current[b] \in Nat
      BY SendersAssumption DEF TypeOK, Epochs
    <3>2. CASE b = c
      <4>1. R = {c}
        BY <2>1, <3>2
      <4>2. current'[b] = current[b] + 1
        BY <1>1, <2>1, <3>1, <3>2, <4>1
      <4> QED BY <2>6, <3>1, <4>2
    <3>3. CASE b # c
      BY <2>4, <3>1, <3>3
    <3> QED BY <3>2, <3>3
  <2> QED BY <1>1, <2>1, <2>2, <2>4, <2>5, <2>6 DEF LedgerEffect, TypeOK
<1>4. ASSUME NEW c \in Chats, NEW S \in SUBSET Users, Ledger!AddMembers(c, S) PROVE LedgerEffect
  <2>1. PICK R \in {{}, {c}} : /\ Ledger!Advance(R)
                               /\ Ledger!Stamp(c, S, IF R = {} THEN 0 ELSE current[c] + 1)
    BY <1>4 DEF Ledger!AddMembers
  <2>2. (IF R = {} THEN 0 ELSE current[c] + 1) \in Nat
    BY DEF TypeOK, Epochs
  <2>3. joinedAt' \in [Chats -> [Users -> Nat]]
    BY <1>2, <2>1, <2>2
  <2>4. members' = [members EXCEPT ![c] = @ \cup S] /\ devices' = devices
    BY <1>4 DEF Ledger!AddMembers
  <2>5. /\ members' \in [Chats -> SUBSET Users]
        /\ \A b \in Chats : members[b] \subseteq members'[b]
    BY <2>4 DEF TypeOK
  <2>6. \A b \in Chats : current[b] <= current'[b]
    BY <1>1, <2>1 DEF TypeOK, Epochs
  <2> QED BY <1>1, <2>1, <2>3, <2>4, <2>5, <2>6, SendersAssumption DEF LedgerEffect, TypeOK
<1>5. ASSUME NEW R \in SUBSET Chats, Ledger!Rotate(R) PROVE LedgerEffect
  <2>1. Ledger!Advance(R) /\ UNCHANGED <<members, joinedAt, devices>>
    BY <1>5 DEF Ledger!Rotate
  <2>2. /\ current' \in [Chats -> Nat]
        /\ \A c \in Chats : current'[c] = IF c \in R THEN current[c] + 1 ELSE current[c]
    BY <1>1, <2>1
  <2>3. \A c \in Chats : current[c] \in Nat
    BY EpochsType DEF TypeOK
  <2>4. \A c \in Chats : current[c] <= current'[c]
    BY <2>2, <2>3
  <2> QED BY <2>1, <2>2, <2>4, SendersAssumption DEF LedgerEffect, TypeOK
<1>6. CASE \E d \in Devices : Ledger!PublishIdentity(d)
  BY <1>6, SendersAssumption DEF LedgerEffect, Ledger!PublishIdentity, TypeOK, Epochs
<1>7. CASE \E u \in Users : Ledger!RevokeDevices(u)
  BY <1>7, SendersAssumption DEF LedgerEffect, Ledger!RevokeDevices, TypeOK, Epochs
<1> QED BY <1>3, <1>4, <1>5, <1>6, <1>7 DEF Ledger!Next

(* The ledger moving under the calls. *)
LEMMA LedgerType ==
    ASSUME TypeInv, LedgerStep
    PROVE  TypeInv'
<1>1. /\ members' \in [Chats -> SUBSET Users]
      /\ joinedAt' \in [Chats -> [Users -> Nat]]
      /\ devices' \in [Devices -> {"absent", "active", "revoked"}]
      /\ current' \in [Chats -> Epochs]
  BY LedgerMoves, SendersAssumption DEF TypeInv, LedgerEffect, LedgerStep, Epochs
<1>2. eras' \in [Chats -> [Epochs -> SUBSET Users]]
  BY <1>1 DEF TypeInv, TypeOK, LedgerStep
<1>3. waiting' \in [Devices -> SUBSET Chats]
  BY DEF TypeInv, TypeOK, LedgerStep
<1>4. \A k \in Calls : /\ call'[k] \in Call
                       /\ call'[k].pc = call[k].pc /\ call'[k].device = call[k].device
                       /\ call'[k].chat = call[k].chat
  <2> TAKE k \in Calls
  <2>1. call[k] \in Call
    BY DEF TypeInv, TypeOK
  <2>2. [call[k] EXCEPT !.disturbed = TRUE] \in Call
    BY <2>1, FieldTypes
  <2>3. call'[k] = call[k] \/ call'[k] = [call[k] EXCEPT !.disturbed = TRUE]
    BY DEF LedgerStep
  <2> QED BY <2>1, <2>2, <2>3 DEF Call
<1>5. call' \in [Calls -> Call]
  BY <1>4 DEF LedgerStep
<1> QED BY <1>1, <1>2, <1>3, <1>4, <1>5 DEF TypeInv, TypeOK, CallTargets, LedgerStep, Distribution, Message, OwnChain

LEMMA ReloadType ==
    ASSUME TypeInv, NEW d \in Senders, Reload(d)
    PROVE  TypeInv'
<1>1. \A k \in Calls : /\ call'[k] \in Call
                       /\ call'[k].pc \notin Ended => /\ call'[k].device = call[k].device
                                                      /\ call'[k].chat = call[k].chat
                                                      /\ call[k].pc \notin Ended
  <2> TAKE k \in Calls
  <2>1. call[k] \in Call
    BY DEF TypeInv, TypeOK
  <2>2. [call[k] EXCEPT !.lost = TRUE] \in Call
    BY <2>1, FieldTypes
  <2>3. \/ call'[k] = call[k]
        \/ call'[k] = NoCall
        \/ call'[k] = [call[k] EXCEPT !.lost = TRUE] /\ call[k].pc \notin Ended
    BY DEF Reload
  <2>4. NoCall.pc \in Ended
    BY DEF NoCall, Ended
  <2> QED BY <2>1, <2>2, <2>3, <2>4, NoCallType DEF Call
<1>2. call' \in [Calls -> Call]
  BY <1>1 DEF Reload
<1>3. ownChains' \in [Devices -> SUBSET OwnChain]
  BY DEF Reload, TypeInv, TypeOK
<1> QED BY <1>1, <1>2, <1>3 DEF TypeInv, TypeOK, CallTargets, Reload, ledger

LEMMA SendType ==
    ASSUME TypeInv, NEW k \in Calls, SendStep(k)
    PROVE  TypeInv'
<1>1. PICK t \in Call : Continues(k, t) /\ call' = [call EXCEPT ![k] = t]
  BY StepOfCall
<1>2. call' \in [Calls -> Call] /\ call[k] \in Call
  BY <1>1 DEF TypeInv, TypeOK
<1>3. call[k].pc \notin Ended => call[k].device \in Devices /\ call[k].chat \in Chats
  BY DEF TypeInv, CallTargets
<1>4. call[k].pc \notin Ended
  BY DEF SendStep, Access, ReadKeys, EnsureChain, ReadRoster, CheckEpoch, CheckDevice, CheckGrants,
         InsertDistribution, ChainPublished, CheckCurrent, StartOver, CheckDistribution, Store,
         At, Ended, Endpoints
<1>5. CallTargets'
  BY <1>1, <1>3, <1>4 DEF TypeInv, TypeOK, CallTargets, Continues
<1>6. /\ UNCHANGED <<ledger, eras, waiting>>
      /\ dists' # dists => InsertDistribution(k)
      /\ stored' # stored => Store(k)
      /\ ownChains' # ownChains => ChainPublished(k) \/ StartOver(k)
  BY DEF SendStep, Access, ReadKeys, EnsureChain, ReadRoster, CheckEpoch, CheckDevice, CheckGrants,
         InsertDistribution, ChainPublished, CheckCurrent, StartOver, CheckDistribution, Store
<1>7. dists' \in [Chats -> SUBSET Distribution]
  <2>1. NewDistribution(k) \in Distribution
    BY <1>2, <1>3, <1>4 DEF NewDistribution, Distribution, Call
  <2>2. CASE InsertDistribution(k)
    <3>1. \/ dists' = dists
          \/ dists' = [dists EXCEPT ![call[k].chat] = @ \cup {NewDistribution(k)}]
      BY <2>2 DEF InsertDistribution
    <3>2. dists \in [Chats -> SUBSET Distribution]
      BY DEF TypeInv, TypeOK
    <3> QED BY <2>1, <3>1, <3>2
  <2> QED BY <1>6, <2>2 DEF TypeInv, TypeOK
<1>8. stored' \in [Chats -> SUBSET Message]
  <2>1. [skid |-> call[k].skid, epoch |-> call[k].epoch, device |-> call[k].device] \in Message
    BY <1>2, <1>3, <1>4 DEF Message, Call
  <2>2. CASE Store(k)
    BY <2>1, <2>2 DEF TypeInv, TypeOK, Store
  <2> QED BY <1>6, <2>2 DEF TypeInv, TypeOK
<1>9. ownChains' \in [Devices -> SUBSET OwnChain]
  <2>1. [chat |-> call[k].chat, epoch |-> call[k].epoch, skid |-> call[k].skid] \in OwnChain
    BY <1>2, <1>3, <1>4 DEF OwnChain, Call
  <2>2. Keep(k) \in SUBSET OwnChain
    BY <1>3, <1>4, <2>1 DEF Keep, TypeInv, TypeOK
  <2>3. CASE ChainPublished(k)
    BY <2>2, <2>3 DEF TypeInv, TypeOK, ChainPublished
  <2>4. CASE StartOver(k)
    BY <2>4 DEF TypeInv, TypeOK, StartOver
  <2> QED BY <1>6, <2>3, <2>4 DEF TypeInv, TypeOK
<1> QED BY <1>2, <1>5, <1>6, <1>7, <1>8, <1>9 DEF TypeInv, TypeOK, ledger

LEMMA InitialType == Init => TypeInv
<1> SUFFICES ASSUME Init PROVE TypeInv
  OBVIOUS
<1>1. 0 \in Epochs /\ 1 \in Epochs
  BY SendersAssumption DEF Epochs
<1>2. /\ members \in [Chats -> SUBSET Users]
      /\ devices \in [Devices -> {"absent", "active", "revoked"}]
      /\ joinedAt \in [Chats -> [Users -> Nat]]
      /\ current \in [Chats -> Epochs]
  BY <1>1 DEF Init, Ledger!Init
<1>3. call \in [Calls -> Call] /\ CallTargets
  BY NoCallType DEF Init, CallTargets, NoCall, Ended
<1>4. eras \in [Chats -> [Epochs -> SUBSET Users]]
  BY <1>2 DEF Init
<1> QED BY <1>2, <1>3, <1>4 DEF TypeInv, TypeOK, Init

LEMMA TypeInvStep == TypeInv /\ [Next]_vars => TypeInv'
<1> SUFFICES ASSUME TypeInv, [Next]_vars PROVE TypeInv'
  OBVIOUS
<1>1. CASE LedgerStep
  BY <1>1, LedgerType
<1>2. ASSUME NEW d \in Senders, Reload(d) PROVE TypeInv'
  BY <1>2, ReloadType
<1>3. ASSUME NEW k \in Calls, NEW d \in Senders, NEW c \in Chats, StartSend(k, d, c)
      PROVE  TypeInv'
  <2> DEFINE t == [NoCall EXCEPT !.pc = "GET keys", !.device = d, !.chat = c]
  <2>1. t \in Call /\ t.device = d /\ t.chat = c
    BY SendersAssumption DEF NoCall, Call, Steps, Endpoints
  <2>2. call' = [call EXCEPT ![k] = t]
    BY <1>3 DEF StartSend
  <2>3. call' \in [Calls -> Call] /\ CallTargets'
    BY <2>1, <2>2, SendersAssumption DEF TypeInv, TypeOK, CallTargets
  <2> QED BY <1>3, <2>3 DEF StartSend, TypeInv, TypeOK, ledger
<1>4. ASSUME NEW k \in Calls, SendStep(k) PROVE TypeInv'
  BY <1>4, SendType
<1>5. CASE UNCHANGED vars
  BY <1>5 DEF vars, ledger, TypeInv, TypeOK, CallTargets
<1> QED BY <1>1, <1>2, <1>3, <1>4, <1>5 DEF Next

(* The types of the sending side are preserved: SenderKeys describes all of its state.          *)
THEOREM SendersTypeCorrect == Spec => []TypeInv
BY InitialType, TypeInvStep, PTL DEF Spec

THEOREM SendersWellTyped == Spec => []TypeOK
BY SendersTypeCorrect, PTL DEF TypeInv

----------------------------------------------------------------------------
(* Who a chain is wrapped for.  The client read the roster after the epoch number, so if that   *)
(* epoch is still open when the server looks, the roster was read while it was open.            *)
OwnersOf(S) == {DeviceOwner[d] : d \in S}

Uploading == {"POST sender-keys", "epoch", "device", "grants", "insert"}

Checked == {"device", "grants", "insert"}

MembersRecorded == \A c \in Chats : members[c] \subseteq eras[c][current[c]]

EpochsSeen ==
    /\ \A k \in Calls : call[k].pc \notin Ended =>
          call[k].epoch <= current[call[k].chat] /\ call[k].fresh <= current[call[k].chat]
    /\ \A c \in Chats : \A x \in dists[c] : x.epoch <= current[c]

WrappedForMembers ==
    \A k \in Calls : call[k].pc \in Uploading /\ call[k].epoch = current[call[k].chat] =>
        /\ OwnersOf(call[k].grants) \subseteq eras[call[k].chat][call[k].epoch]
        /\ call[k].chat \in Encrypted => OwnersOf(call[k].grants) \subseteq members[call[k].chat]

CheckedInEra ==
    \A k \in Calls : call[k].pc \in Checked =>
        OwnersOf(call[k].grants) \subseteq eras[call[k].chat][call[k].epoch]

EraInv ==
    /\ MembersRecorded /\ EpochsSeen /\ WrappedForMembers /\ CheckedInEra
    /\ GrantsStayInEra /\ LiveChainsExcludeFormerMembers

(* What a step of sendText does to the chain that is being published. *)
Ends(k) == call'[k].pc \in Ended

Elsewhere(k) ==
    /\ call'[k].pc \notin Uploading
    /\ call'[k].epoch \in {call[k].epoch, current[call[k].chat], call[k].fresh}
    /\ call'[k].fresh \in {call[k].fresh, current[call[k].chat], 0}

Wraps(k) ==
    /\ call'[k].pc = "POST sender-keys"
    /\ call'[k].epoch = call[k].epoch /\ call'[k].fresh = call[k].fresh
    /\ call'[k].grants = Roster(call[k].chat)

Uploads(k) ==
    /\ call[k].pc \in Uploading /\ call'[k].pc \in Uploading
    /\ call'[k].epoch = call[k].epoch /\ call'[k].fresh = call[k].fresh
    /\ call'[k].grants = call[k].grants
    /\ call'[k].pc \in Checked => call[k].pc \in Checked \/ call[k].epoch = current[call[k].chat]

LEMMA SendEffect ==
    ASSUME TypeInv, NEW k \in Calls, SendStep(k)
    PROVE  Ends(k) \/ Elsewhere(k) \/ Wraps(k) \/ Uploads(k)
<1>1. call[k] \in Call /\ call \in [Calls -> Call]
  BY DEF TypeInv, TypeOK
<1>2. ASSUME call' = Fail(k) PROVE Ends(k)
  BY <1>1, <1>2 DEF Fail, Ends, Ended, NoCall
<1>3. ASSUME NEW pc \in Steps, call' = Goto(k, pc)
      PROVE  /\ call'[k].pc = pc /\ call'[k].epoch = call[k].epoch
             /\ call'[k].fresh = call[k].fresh /\ call'[k].grants = call[k].grants
  BY <1>1, <1>3 DEF Goto, Call
<1>4. ASSUME NEW s, Answer(k, s) PROVE Ends(k) \/ call'[k] = s
  BY <1>1, <1>4 DEF Answer, Ends, Ended, NoCall
<1>4a. ASSUME NEW pc \in Steps \ Uploading, call' = Goto(k, pc) PROVE Elsewhere(k)
  BY <1>3, <1>4a DEF Elsewhere
<1>5. CASE Access(k)
  <2>1. call[k].pc \in Endpoints => Handler[call[k].pc] \in Steps
    BY DEF Handler, Endpoints, Steps
  <2>2. CASE call' = Goto(k, Handler[call[k].pc])
    BY <1>3, <1>5, <2>1, <2>2
       DEF Access, Handler, Endpoints, Elsewhere, Uploads, Uploading, Checked
  <2> QED BY <1>2, <1>5, <2>2 DEF Access
<1>6. CASE ReadKeys(k)
  BY <1>1, <1>2, <1>4, <1>6 DEF ReadKeys, Elsewhere, Uploading, Call
<1>7. CASE EnsureChain(k)
  <2>1. CASE call' = Goto(k, "GET roster")
    BY <1>4a, <2>1 DEF Uploading, Steps, Endpoints
  <2>2. ASSUME NEW x, call' = [call EXCEPT ![k].pc = "POST message", ![k].skid = x.skid]
        PROVE  Elsewhere(k)
    <3>1. call'[k] = [call[k] EXCEPT !.pc = "POST message", !.skid = x.skid]
      BY <1>1, <2>2
    <3>2. /\ call'[k].pc = "POST message"
          /\ call'[k].epoch = call[k].epoch /\ call'[k].fresh = call[k].fresh
      BY <1>1, <3>1 DEF Call
    <3> QED BY <3>2 DEF Elsewhere, Uploading
  <2> QED BY <1>7, <2>1, <2>2 DEF EnsureChain
<1>8. CASE ReadRoster(k)
  BY <1>1, <1>4, <1>8 DEF ReadRoster, Wraps, Call
<1>9. CASE CheckEpoch(k)
  BY <1>2, <1>3, <1>9 DEF CheckEpoch, At, Steps, Uploads, Uploading, Checked
<1>10. CASE CheckDevice(k) \/ CheckGrants(k)
  BY <1>2, <1>3, <1>10 DEF CheckDevice, CheckGrants, At, Steps, Uploads, Uploading, Checked
<1>11. CASE InsertDistribution(k)
  BY <1>1, <1>4, <1>11 DEF InsertDistribution, Elsewhere, Uploading, Call
<1>12. CASE ChainPublished(k)
  <2>1. call' = Goto(k, "POST message")
    BY <1>12 DEF ChainPublished
  <2> QED BY <1>4a, <2>1 DEF Uploading, Steps, Endpoints
<1>13. CASE CheckCurrent(k)
  <2>1. CASE call' = Goto(k, "distribution")
    BY <1>4a, <2>1 DEF Uploading, Steps
  <2>2. CASE Answer(k, [call[k] EXCEPT !.pc = "stale", !.fresh = current[call[k].chat]])
    BY <1>1, <1>4, <2>2 DEF Elsewhere, Uploading, Call
  <2> QED BY <1>2, <1>13, <2>1, <2>2 DEF CheckCurrent
<1>14. CASE StartOver(k)
  BY <1>1, <1>14 DEF StartOver, Elsewhere, Uploading, Call
<1>15. CASE CheckDistribution(k)
  <2>1. CASE call' = Goto(k, "store")
    BY <1>4a, <2>1 DEF Uploading, Steps
  <2> QED BY <1>2, <1>15, <2>1 DEF CheckDistribution
<1>16. CASE Store(k)
  BY <1>1, <1>16 DEF Store, Ends, Ended, NoCall
<1> QED
  BY <1>5, <1>6, <1>7, <1>8, <1>9, <1>10, <1>11, <1>12, <1>13, <1>14, <1>15, <1>16 DEF SendStep

(* Everything but the progress of the call, and for InsertDistribution the distributions.       *)
LEMMA SendFrame ==
    ASSUME TypeInv, NEW k \in Calls, SendStep(k)
    PROVE  /\ UNCHANGED <<members, joinedAt, devices, current, eras>>
           /\ \A j \in Calls : j # k => call'[j] = call[j]
           /\ call'[k].pc \notin Ended => call'[k].chat = call[k].chat
           /\ call[k].pc \notin Ended
           /\ dists' # dists => InsertDistribution(k)
<1>1. PICK t \in Call : Continues(k, t) /\ call' = [call EXCEPT ![k] = t]
  BY StepOfCall
<1>2. /\ \A j \in Calls : j # k => call'[j] = call[j]
      /\ call'[k].pc \notin Ended => call'[k].chat = call[k].chat
  BY <1>1 DEF TypeInv, TypeOK, Continues
<1>3. UNCHANGED ledger /\ UNCHANGED eras /\ (dists' # dists => InsertDistribution(k))
  BY DEF SendStep, Access, ReadKeys, EnsureChain, ReadRoster, CheckEpoch, CheckDevice, CheckGrants,
         InsertDistribution, ChainPublished, CheckCurrent, StartOver, CheckDistribution, Store
<1>4. call[k].pc \notin Ended
  BY DEF SendStep, Access, ReadKeys, EnsureChain, ReadRoster, CheckEpoch, CheckDevice, CheckGrants,
         InsertDistribution, ChainPublished, CheckCurrent, StartOver, CheckDistribution, Store,
         At, Ended, Endpoints
<1> QED BY <1>2, <1>3, <1>4 DEF ledger

LEMMA OwnersOfRoster == ASSUME NEW c \in Chats PROVE OwnersOf(Roster(c)) \subseteq members[c]
BY DEF OwnersOf, Roster

LEMMA SendEra ==
    ASSUME TypeInv, EraInv, NEW k \in Calls, SendStep(k)
    PROVE  EraInv'
<1> DEFINE c == call[k].chat
           e == call[k].epoch
<1>1. /\ UNCHANGED <<members, joinedAt, devices, current, eras>>
      /\ \A j \in Calls : j # k => call'[j] = call[j]
      /\ call'[k].pc \notin Ended => call'[k].chat = c
      /\ dists' # dists => InsertDistribution(k)
      /\ c \in Chats
  BY SendFrame DEF TypeInv, CallTargets
<1>2. Ends(k) \/ Elsewhere(k) \/ Wraps(k) \/ Uploads(k)
  BY SendEffect
<1>3. /\ e \in Nat /\ call[k].fresh \in Nat /\ current[c] \in Nat
      /\ e <= current[c] /\ call[k].fresh <= current[c]
  BY <1>1, SendFrame, EpochsType DEF TypeInv, TypeOK, Call, EraInv, EpochsSeen
<1>4. Uploading \cap Ended = {} /\ Checked \subseteq Uploading /\ "POST sender-keys" \notin Checked
  BY DEF Uploading, Ended, Checked
<1>5. MembersRecorded'
  BY <1>1 DEF EraInv, MembersRecorded
<1>6. call'[k].pc \notin Ended => call'[k].epoch <= current[c] /\ call'[k].fresh <= current[c]
  <2>1. CASE Elsewhere(k)
    BY <1>3, <2>1 DEF Elsewhere
  <2>2. CASE Wraps(k) \/ Uploads(k)
    BY <1>3, <2>2 DEF Wraps, Uploads
  <2> QED BY <1>2, <2>1, <2>2 DEF Ends
<1>7. EpochsSeen'
  <2>1. \A x \in dists'[c] : x.epoch <= current[c]
    <3>1. CASE InsertDistribution(k)
      <4>1. dists'[c] = dists[c] \cup {NewDistribution(k)}
        BY <1>1, <3>1 DEF InsertDistribution, TypeInv, TypeOK
      <4> QED BY <1>1, <1>3, <4>1 DEF NewDistribution, EraInv, EpochsSeen
    <3> QED BY <1>1, <3>1 DEF EraInv, EpochsSeen
  <2>2. \A b \in Chats : b # c => dists'[b] = dists[b]
    BY <1>1 DEF InsertDistribution, TypeInv, TypeOK
  <2> QED BY <1>1, <1>6, <2>1, <2>2 DEF EraInv, EpochsSeen
<1>8. WrappedForMembers'
  <2>1. ASSUME call'[k].pc \in Uploading, call'[k].epoch = current[c]
        PROVE  /\ OwnersOf(call'[k].grants) \subseteq eras[c][call'[k].epoch]
               /\ c \in Encrypted => OwnersOf(call'[k].grants) \subseteq members[c]
    <3>1. CASE Wraps(k)
      BY <1>1, <2>1, <3>1, OwnersOfRoster DEF Wraps, EraInv, MembersRecorded
    <3>2. CASE Uploads(k)
      BY <2>1, <3>2 DEF Uploads, EraInv, WrappedForMembers
    <3> QED BY <1>2, <1>4, <2>1, <3>1, <3>2 DEF Ends, Elsewhere
  <2> QED BY <1>1, <1>4, <2>1 DEF EraInv, WrappedForMembers, OwnersOf
<1>9. CheckedInEra'
  <2>1. ASSUME call'[k].pc \in Checked
        PROVE  OwnersOf(call'[k].grants) \subseteq eras[c][call'[k].epoch]
    <3>1. Uploads(k)
      BY <1>2, <1>4, <2>1 DEF Ends, Elsewhere, Wraps
    <3> QED BY <2>1, <3>1 DEF Uploads, EraInv, WrappedForMembers, CheckedInEra
  <2> QED BY <1>1, <1>4, <2>1 DEF EraInv, CheckedInEra, OwnersOf
<1>10. GrantsStayInEra' /\ LiveChainsExcludeFormerMembers'
  <2>1. CASE dists' = dists
    BY <1>1, <2>1 DEF EraInv, GrantsStayInEra, LiveChainsExcludeFormerMembers
  <2>2. CASE InsertDistribution(k)
    <3>1. /\ dists'[c] = dists[c] \cup {NewDistribution(k)}
          /\ \A b \in Chats : b # c => dists'[b] = dists[b]
      BY <1>1, <2>2 DEF InsertDistribution, TypeInv, TypeOK
    <3>2. /\ OwnersOf(call[k].grants) \subseteq eras[c][e]
          /\ e = current[c] /\ c \in Encrypted => OwnersOf(call[k].grants) \subseteq members[c]
      BY <2>2 DEF InsertDistribution, At, EraInv, CheckedInEra, WrappedForMembers, Checked, Uploading
    <3>3. GrantsStayInEra'
      BY <1>1, <3>1, <3>2 DEF EraInv, GrantsStayInEra, NewDistribution, OwnersOf
    <3>4. LiveChainsExcludeFormerMembers'
      BY <1>1, <3>1, <3>2, SendersAssumption
         DEF EraInv, LiveChainsExcludeFormerMembers, NewDistribution, OwnersOf
    <3> QED BY <3>3, <3>4
  <2> QED BY <1>1, <2>1, <2>2
<1> QED BY <1>5, <1>7, <1>8, <1>9, <1>10 DEF EraInv

(* An epoch that closes keeps its members on record, and makes the chains wrapped for it        *)
(* stale: their epoch is not the open one any more.                                             *)
LEMMA LedgerEra ==
    ASSUME TypeInv, EraInv, LedgerStep
    PROVE  EraInv'
<1>1. LedgerEffect /\ UNCHANGED dists
  BY LedgerMoves DEF TypeInv, LedgerStep
<1>2. \A c \in Chats : /\ current[c] \in Epochs /\ current[c] \in Nat
                       /\ current'[c] \in Epochs /\ current'[c] \in Nat
                       /\ current[c] <= current'[c]
  BY <1>1, SendersAssumption DEF LedgerEffect, LedgerStep, TypeInv, TypeOK, Epochs
<1>3. \A c \in Chats : /\ \A e \in Epochs : eras[c][e] \subseteq eras'[c][e]
                       /\ members'[c] \subseteq eras'[c][current'[c]]
  BY <1>2 DEF LedgerStep, TypeInv, TypeOK
<1>4. \A k \in Calls :
        /\ call'[k].pc = call[k].pc /\ call'[k].chat = call[k].chat
        /\ call'[k].epoch = call[k].epoch /\ call'[k].fresh = call[k].fresh
        /\ call'[k].grants = call[k].grants
  BY DEF LedgerStep, TypeInv, TypeOK, Call
<1>5. ASSUME NEW k \in Calls, call[k].pc \notin Ended
      PROVE  /\ call[k].chat \in Chats /\ call[k].epoch \in Nat /\ call[k].fresh \in Nat
             /\ call[k].epoch \in Epochs
             /\ call[k].epoch <= current[call[k].chat] /\ call[k].fresh <= current[call[k].chat]
  <2>1. call[k].chat \in Chats /\ call[k].epoch \in Nat /\ call[k].fresh \in Nat
    BY <1>5 DEF TypeInv, TypeOK, CallTargets, Call
  <2>2. call[k].epoch <= current[call[k].chat] /\ call[k].fresh <= current[call[k].chat]
    BY <1>5 DEF EraInv, EpochsSeen
  <2>3. call[k].epoch \in Epochs
    BY <1>2, <2>1, <2>2, SendersAssumption DEF Epochs
  <2> QED BY <2>1, <2>2, <2>3
<1>6. Uploading \cap Ended = {} /\ Checked \subseteq Uploading
  BY DEF Uploading, Ended, Checked
<1>7. \A c \in Chats : \A x \in dists[c] :
        x.epoch \in Nat /\ x.epoch <= current[c] /\ x.epoch \in Epochs
  <2> TAKE c \in Chats
  <2> TAKE x \in dists[c]
  <2>1. x.epoch \in Nat /\ x.epoch <= current[c]
    BY DEF TypeInv, TypeOK, Distribution, EraInv, EpochsSeen
  <2> QED BY <1>2, <2>1, SendersAssumption DEF Epochs
<1>8. MembersRecorded'
  BY <1>3 DEF MembersRecorded
<1>9. EpochsSeen'
  <2>1. ASSUME NEW k \in Calls, call[k].pc \notin Ended
        PROVE  call[k].epoch <= current'[call[k].chat] /\ call[k].fresh <= current'[call[k].chat]
    BY <1>2, <1>5, <2>1
  <2>2. ASSUME NEW c \in Chats, NEW x \in dists[c] PROVE x.epoch <= current'[c]
    BY <1>2, <1>7
  <2> QED BY <1>1, <1>4, <2>1, <2>2 DEF EpochsSeen
<1>10. ASSUME NEW k \in Calls, call[k].pc \in Uploading, call[k].epoch = current'[call[k].chat]
       PROVE  /\ OwnersOf(call[k].grants) \subseteq eras'[call[k].chat][call[k].epoch]
              /\ call[k].chat \in Encrypted
                   => OwnersOf(call[k].grants) \subseteq members'[call[k].chat]
  <2>1. call[k].epoch = current[call[k].chat]
    BY <1>2, <1>5, <1>6, <1>10
  <2>2. call[k].chat \in Encrypted => members[call[k].chat] \subseteq members'[call[k].chat]
    BY <1>1, <1>10, <2>1 DEF LedgerEffect
  <2> QED BY <1>3, <1>5, <1>6, <1>10, <2>1, <2>2 DEF EraInv, WrappedForMembers
<1>11. WrappedForMembers'
  BY <1>4, <1>10 DEF WrappedForMembers, OwnersOf
<1>12. CheckedInEra'
  <2>1. ASSUME NEW k \in Calls, call[k].pc \in Checked
        PROVE  OwnersOf(call[k].grants) \subseteq eras'[call[k].chat][call[k].epoch]
    BY <1>3, <1>5, <1>6, <2>1 DEF EraInv, CheckedInEra
  <2> QED BY <1>4, <2>1 DEF CheckedInEra, OwnersOf
<1>13. GrantsStayInEra'
  BY <1>1, <1>3, <1>7 DEF EraInv, GrantsStayInEra
<1>14. LiveChainsExcludeFormerMembers'
  <2>1. ASSUME NEW c \in Encrypted, NEW x \in dists[c], x.epoch = current'[c]
        PROVE  {DeviceOwner[d] : d \in x.grants} \subseteq members'[c]
    <3>1. c \in Chats
      BY SendersAssumption
    <3>2. x.epoch = current[c]
      BY <1>2, <1>7, <2>1, <3>1
    <3>3. members[c] \subseteq members'[c]
      BY <1>1, <2>1, <3>2 DEF LedgerEffect
    <3> QED BY <3>2, <3>3 DEF EraInv, LiveChainsExcludeFormerMembers
  <2> QED BY <1>1, <2>1 DEF LiveChainsExcludeFormerMembers
<1> QED BY <1>8, <1>9, <1>11, <1>12, <1>13, <1>14 DEF EraInv

LEMMA ReloadEra ==
    ASSUME TypeInv, EraInv, NEW d \in Senders, Reload(d)
    PROVE  EraInv'
<1>1. UNCHANGED <<members, joinedAt, devices, current, dists, eras>>
  BY DEF Reload, ledger
<1>2. \A k \in Calls : \/ call'[k].pc \in Ended
                       \/ /\ call'[k].pc = call[k].pc /\ call'[k].chat = call[k].chat
                          /\ call'[k].epoch = call[k].epoch /\ call'[k].fresh = call[k].fresh
                          /\ call'[k].grants = call[k].grants
  BY DEF Reload, TypeInv, TypeOK, Call, NoCall, Ended
<1>3. Uploading \cap Ended = {} /\ Checked \subseteq Uploading
  BY DEF Uploading, Ended, Checked
<1>4. EpochsSeen' /\ MembersRecorded'
  BY <1>1, <1>2 DEF EraInv, EpochsSeen, MembersRecorded
<1>5. WrappedForMembers' /\ CheckedInEra'
  BY <1>1, <1>2, <1>3 DEF EraInv, WrappedForMembers, CheckedInEra, OwnersOf
<1>6. GrantsStayInEra' /\ LiveChainsExcludeFormerMembers'
  BY <1>1 DEF EraInv, GrantsStayInEra, LiveChainsExcludeFormerMembers
<1> QED BY <1>4, <1>5, <1>6 DEF EraInv

LEMMA StartEra ==
    ASSUME TypeInv, EraInv, NEW k \in Calls, NEW d \in Senders, NEW c \in Chats, StartSend(k, d, c)
    PROVE  EraInv'
<1>1. UNCHANGED <<members, joinedAt, devices, current, dists, eras>>
  BY DEF StartSend, ledger
<1>2. /\ \A j \in Calls : j # k => call'[j] = call[j]
      /\ call'[k].pc = "GET keys" /\ call'[k].chat = c /\ call'[k].epoch = 0 /\ call'[k].fresh = 0
  BY DEF StartSend, TypeInv, TypeOK, NoCall
<1>3. "GET keys" \notin Uploading /\ "GET keys" \notin Checked
  BY DEF Uploading, Checked
<1>4. 0 <= current[c]
  <2>1. current[c] \in Nat
    BY EpochsType DEF TypeInv, TypeOK
  <2> QED BY <2>1
<1>5. EpochsSeen' /\ MembersRecorded'
  BY <1>1, <1>2, <1>4 DEF EraInv, EpochsSeen, MembersRecorded
<1>6. WrappedForMembers' /\ CheckedInEra'
  BY <1>1, <1>2, <1>3 DEF EraInv, WrappedForMembers, CheckedInEra, OwnersOf
<1>7. GrantsStayInEra' /\ LiveChainsExcludeFormerMembers'
  BY <1>1 DEF EraInv, GrantsStayInEra, LiveChainsExcludeFormerMembers
<1> QED BY <1>5, <1>6, <1>7 DEF EraInv

LEMMA InitialEra == Init => EraInv
<1> SUFFICES ASSUME Init PROVE EraInv
  OBVIOUS
<1>1. /\ \A k \in Calls : call[k].pc \in Ended /\ call[k].pc \notin Uploading
                         /\ call[k].pc \notin Checked
      /\ \A c \in Chats : dists[c] = {}
  BY DEF Init, NoCall, Ended, Uploading, Checked
<1>2. MembersRecorded
  <2>1. \A c \in Chats : current[c] \in Epochs
    BY SendersAssumption DEF Init, Ledger!Init, Epochs
  <2> QED BY <2>1 DEF Init, MembersRecorded
<1>3. EpochsSeen /\ WrappedForMembers /\ CheckedInEra
  BY <1>1 DEF EpochsSeen, WrappedForMembers, CheckedInEra
<1>4. GrantsStayInEra /\ LiveChainsExcludeFormerMembers
  BY <1>1, SendersAssumption DEF GrantsStayInEra, LiveChainsExcludeFormerMembers
<1> QED BY <1>2, <1>3, <1>4 DEF EraInv

LEMMA EraInvStep == TypeInv /\ EraInv /\ [Next]_vars => EraInv'
<1> SUFFICES ASSUME TypeInv, EraInv, [Next]_vars PROVE EraInv'
  OBVIOUS
<1>1. CASE LedgerStep
  BY <1>1, LedgerEra
<1>2. ASSUME NEW d \in Senders, Reload(d) PROVE EraInv'
  BY <1>2, ReloadEra
<1>3. ASSUME NEW k \in Calls, NEW d \in Senders, NEW c \in Chats, StartSend(k, d, c) PROVE EraInv'
  BY <1>3, StartEra
<1>4. ASSUME NEW k \in Calls, SendStep(k) PROVE EraInv'
  BY <1>4, SendEra
<1>5. CASE UNCHANGED vars
  BY <1>5 DEF vars, ledger, EraInv, MembersRecorded, EpochsSeen, WrappedForMembers, CheckedInEra,
     GrantsStayInEra, LiveChainsExcludeFormerMembers, OwnersOf
<1> QED BY <1>1, <1>2, <1>3, <1>4, <1>5 DEF Next

(* What holds of every chain being published and published, whatever the chats, the devices and *)
(* the calls: publish_sender_key and ensureSenderChain against concurrent rotations.            *)
THEOREM EraInvariant == Spec => []EraInv
<1>1. TypeInv /\ EraInv /\ [Next]_vars => TypeInv' /\ EraInv'
  BY TypeInvStep, EraInvStep
<1> QED BY InitialType, InitialEra, <1>1, PTL DEF Spec

(* A chain is granted only to devices of users who were members while its epoch was open.       *)
THEOREM GrantsInEra == Spec => []GrantsStayInEra
<1>1. EraInv => GrantsStayInEra
  BY DEF EraInv
<1> QED BY EraInvariant, <1>1, PTL

(* The chains of the open epoch of an encrypted chat are granted to its members only.           *)
THEOREM LiveChainsPrivate == Spec => []LiveChainsExcludeFormerMembers
<1>1. EraInv => LiveChainsExcludeFormerMembers
  BY DEF EraInv
<1> QED BY EraInvariant, <1>1, PTL

----------------------------------------------------------------------------
(* Who gets a grant.  A membership change moves the chat to its next epoch, so while the epoch  *)
(* a call believes in is still open, the members are those of the roster it read; devices come  *)
(* and go meanwhile, but a new one is `waiting' and a revoked one is not due any more.          *)
Due(c) == {d \in Roster(c) : c \notin waiting[d]}

SendersPublished == \A k \in Calls : call[k].pc \notin Ended => devices[call[k].device] # "absent"

OfOpenEpoch(k) == call[k].chat \in Encrypted /\ call[k].epoch = current[call[k].chat]

ReadersBelong ==
    \A k \in Calls : call[k].pc = "roster" /\ OfOpenEpoch(k) =>
        DeviceOwner[call[k].device] \in members[call[k].chat]

GrantedOrRevoked(k) ==
    call[k].device \in call[k].grants \/ devices[call[k].device] = "revoked"

WrappedForSelf ==
    \A k \in Calls :
        /\ call[k].pc \in {"POST sender-keys", "epoch"} /\ OfOpenEpoch(k) => GrantedOrRevoked(k)
        /\ call[k].pc = "device" /\ call[k].chat \in Encrypted => GrantedOrRevoked(k)
        /\ call[k].pc \in {"grants", "insert"} /\ call[k].chat \in Encrypted =>
             call[k].device \in call[k].grants

WrappedForAll ==
    \A k \in Calls :
        call[k].pc = "insert" /\ OfOpenEpoch(k) /\ call[k].chat \notin SharedHistory =>
            Due(call[k].chat) \subseteq call[k].grants

RosterInv ==
    /\ SendersPublished /\ ReadersBelong /\ WrappedForSelf /\ WrappedForAll
    /\ OwnDeviceGranted /\ LiveChainsReachMembers

(* A device does not come back from revocation, nor disappear. *)
LEMMA DevicesStay ==
    ASSUME TypeOK, Ledger!Next
    PROVE  \A d \in Devices : /\ devices[d] # "absent" => devices'[d] # "absent"
                              /\ devices[d] = "revoked" => devices'[d] = "revoked"
<1>1. CASE \/ \E c \in Chats, S \in SUBSET Users : Ledger!RemoveMembers(c, S) \/ Ledger!AddMembers(c, S)
           \/ \E R \in SUBSET Chats : Ledger!Rotate(R)
  <2>1. UNCHANGED devices
    BY <1>1 DEF Ledger!RemoveMembers, Ledger!AddMembers, Ledger!Rotate
  <2> QED BY <2>1
<1>2. CASE \E d \in Devices : Ledger!PublishIdentity(d)
  BY <1>2 DEF Ledger!PublishIdentity, TypeOK
<1>3. CASE \E u \in Users : Ledger!RevokeDevices(u)
  BY <1>3 DEF Ledger!RevokeDevices, TypeOK
<1> QED BY <1>1, <1>2, <1>3 DEF Ledger!Next

(* A chat with JOINED history whose epoch stays open keeps its members. *)
LEMMA MembersStay ==
    ASSUME TypeOK, Ledger!Next, NEW b \in Encrypted \ SharedHistory, current'[b] = current[b]
    PROVE  members'[b] = members[b]
<1>1. ASSUME NEW c \in Chats, NEW S \in SUBSET Users,
             Ledger!RemoveMembers(c, S) \/ Ledger!AddMembers(c, S)
      PROVE  members'[b] = members[b]
  <2>1. b \in Chats /\ current[b] \in Nat
    BY SendersAssumption DEF TypeOK, Epochs
  <2>2. PICK R \in {{}, {c}} : (b = c => R = {c}) /\ Ledger!Advance(R)
    <3>1. CASE Ledger!RemoveMembers(c, S)
      BY <3>1 DEF Ledger!RemoveMembers
    <3>2. CASE Ledger!AddMembers(c, S)
      BY <3>2 DEF Ledger!AddMembers
    <3> QED BY <1>1, <3>1, <3>2
  <2>3. current'[b] = IF b \in R THEN current[b] + 1 ELSE current[b]
    BY <2>1, <2>2 DEF Ledger!Advance
  <2>4. b \notin R
    BY <2>1, <2>3
  <2>5. b # c
    BY <2>2, <2>4
  <2>6. members' = [members EXCEPT ![c] = @ \ S] \/ members' = [members EXCEPT ![c] = @ \cup S]
    BY <1>1 DEF Ledger!RemoveMembers, Ledger!AddMembers
  <2> QED BY <2>1, <2>5, <2>6 DEF TypeOK
<1>2. CASE \/ \E R \in SUBSET Chats : Ledger!Rotate(R)
           \/ \E d \in Devices : Ledger!PublishIdentity(d)
           \/ \E u \in Users : Ledger!RevokeDevices(u)
  <2>1. UNCHANGED members
    BY <1>2 DEF Ledger!Rotate, Ledger!PublishIdentity, Ledger!RevokeDevices
  <2> QED BY <2>1
<1> QED BY <1>1, <1>2 DEF Ledger!Next

(* While an epoch is open nobody becomes due: members stay who they are, and a device that      *)
(* appears is waiting.                                                                          *)
LEMMA DueShrinks ==
    ASSUME TypeInv, LedgerStep, NEW c \in Encrypted \ SharedHistory, current'[c] = current[c]
    PROVE  Due(c)' \subseteq Due(c)
<1>1. c \in Chats /\ members'[c] = members[c]
  BY MembersStay, SendersAssumption DEF TypeInv, LedgerStep
<1>2. ASSUME NEW d \in Due(c)' PROVE d \in Due(c)
  <2>1. /\ d \in Devices /\ devices'[d] = "active" /\ DeviceOwner[d] \in members'[c]
        /\ c \notin waiting'[d]
    BY <1>2 DEF Due, Roster
  <2>2. waiting'[d] = {b \in IF devices[d] = "absent" /\ devices'[d] = "active"
                               THEN Chats ELSE waiting[d] : current'[b] = current[b]}
    BY <2>1 DEF LedgerStep
  <2>3. devices[d] # "absent" /\ c \notin waiting[d]
    BY <1>1, <2>1, <2>2
  <2>4. devices[d] # "revoked"
    BY <2>1, DevicesStay DEF TypeInv, LedgerStep
  <2>5. devices[d] = "active"
    BY <2>1, <2>3, <2>4 DEF TypeInv, TypeOK
  <2> QED BY <1>1, <2>1, <2>3, <2>5 DEF Due, Roster
<1> QED BY <1>2

(* What a step of sendText does to the grants that are being wrapped and checked. *)
Wrapping == {"roster"} \cup Uploading

RosterEffect(k) ==
    \/ call'[k].pc \notin Wrapping
    \/ /\ call'[k].pc = "roster" /\ call'[k].epoch = call[k].epoch
       /\ DeviceOwner[call[k].device] \in members[call[k].chat]
    \/ /\ call[k].pc = "roster" /\ call'[k].pc = "POST sender-keys"
       /\ call'[k].epoch = call[k].epoch /\ call'[k].grants = Roster(call[k].chat)
    \/ /\ call'[k].epoch = call[k].epoch /\ call'[k].grants = call[k].grants
       /\ \/ call[k].pc = "POST sender-keys" /\ call'[k].pc = "epoch"
          \/ /\ call[k].pc = "epoch" /\ call'[k].pc = "device"
             /\ call[k].epoch = current[call[k].chat]
          \/ /\ call[k].pc = "device" /\ call'[k].pc = "grants"
             /\ devices[call[k].device] = "active"
          \/ /\ call[k].pc = "grants" /\ call'[k].pc = "insert"
             /\ call[k].grants = Roster(call[k].chat)

LEMMA SendRosterEffect ==
    ASSUME TypeInv, NEW k \in Calls, SendStep(k)
    PROVE  RosterEffect(k)
<1>1. call[k] \in Call /\ call \in [Calls -> Call]
  BY DEF TypeInv, TypeOK
<1>2. Wrapping \cap Ended = {}
  BY DEF Wrapping, Uploading, Ended
<1>3. ASSUME call' = Fail(k) PROVE RosterEffect(k)
  <2>1. call'[k].pc \in Ended
    BY <1>1, <1>3 DEF Fail, Ended, NoCall
  <2> QED BY <1>2, <2>1 DEF RosterEffect
<1>4. ASSUME NEW pc, call' = Goto(k, pc)
      PROVE  /\ call'[k].pc = pc /\ call'[k].epoch = call[k].epoch
             /\ call'[k].grants = call[k].grants
  BY <1>1, <1>4 DEF Goto, Call
<1>5. ASSUME NEW s, Answer(k, s) PROVE call'[k] = s \/ call'[k].pc \notin Wrapping
  <2>1. NoCall.pc \notin Wrapping
    BY <1>2 DEF NoCall, Ended
  <2> QED BY <1>1, <1>5, <2>1 DEF Answer
<1>6. CASE Access(k)
  <2>1. CASE /\ DeviceOwner[call[k].device] \in members[call[k].chat]
             /\ call' = Goto(k, Handler[call[k].pc])
    <3>1. /\ call'[k].pc = Handler[call[k].pc] /\ call'[k].epoch = call[k].epoch
          /\ call'[k].grants = call[k].grants
      BY <1>4, <2>1
    <3>2. \/ Handler[call[k].pc] \in {"keys", "gate"}
          \/ Handler[call[k].pc] = "roster"
          \/ call[k].pc = "POST sender-keys" /\ Handler[call[k].pc] = "epoch"
      BY <1>6 DEF Access, Handler, Endpoints
    <3>3. "keys" \notin Wrapping /\ "gate" \notin Wrapping
      BY DEF Wrapping, Uploading
    <3> QED BY <2>1, <3>1, <3>2, <3>3 DEF RosterEffect
  <2> QED BY <1>3, <1>6, <2>1 DEF Access
<1>7. ASSUME NEW pc \in {"chain", "GET roster", "POST message", "stale", "published", "distribution", "store"},
             call'[k].pc = pc
      PROVE  RosterEffect(k)
  BY <1>7 DEF RosterEffect, Wrapping, Uploading
<1>8. CASE ReadKeys(k)
  <2>1. CASE Answer(k, [call[k] EXCEPT !.pc = "chain", !.epoch = current[call[k].chat]])
    <3>1. [call[k] EXCEPT !.pc = "chain", !.epoch = current[call[k].chat]].pc = "chain"
      BY <1>1 DEF Call
    <3> QED BY <1>5, <1>7, <2>1, <3>1 DEF RosterEffect
  <2> QED BY <1>3, <1>8, <2>1 DEF ReadKeys
<1>9. CASE EnsureChain(k)
  <2>1. CASE call' = Goto(k, "GET roster")
    BY <1>4, <1>7, <2>1
  <2>2. ASSUME NEW x, call' = [call EXCEPT ![k].pc = "POST message", ![k].skid = x.skid]
        PROVE  RosterEffect(k)
    <3>1. call'[k].pc = "POST message"
      BY <1>1, <2>2 DEF Call
    <3> QED BY <1>7, <3>1
  <2> QED BY <1>9, <2>1, <2>2 DEF EnsureChain
<1>10. CASE ReadRoster(k)
  BY <1>1, <1>5, <1>10 DEF ReadRoster, At, RosterEffect, Call
<1>11. CASE CheckEpoch(k)
  BY <1>3, <1>4, <1>11 DEF CheckEpoch, At, RosterEffect
<1>12. CASE CheckDevice(k)
  BY <1>3, <1>4, <1>12 DEF CheckDevice, At, RosterEffect
<1>13. CASE CheckGrants(k)
  BY <1>3, <1>4, <1>13 DEF CheckGrants, At, RosterEffect
<1>14. CASE InsertDistribution(k)
  <2>1. [call[k] EXCEPT !.pc = "published", !.grants = {}].pc = "published"
    BY <1>1 DEF Call
  <2> QED BY <1>5, <1>7, <1>14, <2>1 DEF InsertDistribution, RosterEffect
<1>15. CASE ChainPublished(k)
  BY <1>4, <1>7, <1>15 DEF ChainPublished
<1>16. CASE CheckCurrent(k)
  <2>1. CASE call' = Goto(k, "distribution")
    BY <1>4, <1>7, <2>1
  <2>2. CASE Answer(k, [call[k] EXCEPT !.pc = "stale", !.fresh = current[call[k].chat]])
    <3>1. [call[k] EXCEPT !.pc = "stale", !.fresh = current[call[k].chat]].pc = "stale"
      BY <1>1 DEF Call
    <3> QED BY <1>5, <1>7, <2>2, <3>1 DEF RosterEffect
  <2> QED BY <1>3, <1>16, <2>1, <2>2 DEF CheckCurrent
<1>17. CASE StartOver(k)
  <2>1. call'[k].pc = "chain"
    BY <1>1, <1>17 DEF StartOver, Call
  <2> QED BY <1>7, <2>1
<1>18. CASE CheckDistribution(k)
  BY <1>3, <1>4, <1>7, <1>18 DEF CheckDistribution
<1>19. CASE Store(k)
  <2>1. call'[k].pc \in Ended
    BY <1>1, <1>19 DEF Store, NoCall, Ended
  <2> QED BY <1>2, <2>1 DEF RosterEffect
<1> QED
  BY <1>6, <1>8, <1>9, <1>10, <1>11, <1>12, <1>13, <1>14, <1>15, <1>16, <1>17, <1>18, <1>19
     DEF SendStep

LEMMA SendRoster ==
    ASSUME TypeInv, EraInv, RosterInv, NEW k \in Calls, SendStep(k)
    PROVE  RosterInv'
<1> DEFINE c == call[k].chat
           d == call[k].device
<1>1. /\ UNCHANGED <<members, devices, current, waiting>>
      /\ \A j \in Calls : j # k => call'[j] = call[j]
      /\ call'[k].pc \notin Ended => call'[k].chat = c /\ call'[k].device = d
      /\ dists' # dists => InsertDistribution(k)
      /\ c \in Chats /\ d \in Devices
  <2>1. PICK t \in Call : Continues(k, t) /\ call' = [call EXCEPT ![k] = t]
    BY StepOfCall
  <2>2. call'[k].pc \notin Ended => call'[k].chat = c /\ call'[k].device = d
    BY <2>1 DEF TypeInv, TypeOK, Continues
  <2>3. UNCHANGED waiting
    BY DEF SendStep, Access, ReadKeys, EnsureChain, ReadRoster, CheckEpoch, CheckDevice, CheckGrants,
           InsertDistribution, ChainPublished, CheckCurrent, StartOver, CheckDistribution, Store
  <2> QED BY <2>2, <2>3, SendFrame DEF TypeInv, CallTargets
<1>2. RosterEffect(k)
  BY SendRosterEffect
<1>3. call[k].pc \notin Ended /\ Wrapping \cap Ended = {}
  BY SendFrame DEF Wrapping, Uploading, Ended
<1>4. devices[d] \in {"active", "revoked"}
  BY <1>1, <1>3 DEF RosterInv, SendersPublished, TypeInv, TypeOK
<1>5. SendersPublished'
  BY <1>1, <1>3 DEF RosterInv, SendersPublished
<1>6. ReadersBelong'
  <2>1. call'[k].pc = "roster" => call'[k].device = d /\ call'[k].chat = c /\ DeviceOwner[d] \in members[c]
    <3>1. "roster" \in Wrapping
      BY DEF Wrapping
    <3>2. "roster" \notin Ended
      BY DEF Ended
    <3> QED BY <1>1, <1>2, <3>1, <3>2 DEF RosterEffect
  <2> QED BY <1>1, <2>1 DEF RosterInv, ReadersBelong, OfOpenEpoch
<1>7. ASSUME call'[k].pc \in Wrapping
      PROVE  call'[k].device = d /\ call'[k].chat = c /\ call'[k].epoch = call[k].epoch
  BY <1>1, <1>2, <1>3, <1>7 DEF RosterEffect
<1>8. Uploading \subseteq Wrapping
  BY DEF Wrapping
<1>9. WrappedForSelf'
  <2>1. ASSUME call'[k].pc \in {"POST sender-keys", "epoch"}, OfOpenEpoch(k)'
        PROVE  GrantedOrRevoked(k)'
    <3>1. OfOpenEpoch(k) /\ call'[k].device = d
      BY <1>1, <1>7, <1>8, <2>1 DEF OfOpenEpoch, Uploading
    <3>2. CASE call[k].pc = "roster" /\ call'[k].grants = Roster(c)
      <4>1. DeviceOwner[d] \in members[c]
        BY <3>1, <3>2 DEF RosterInv, ReadersBelong
      <4> QED BY <1>1, <1>4, <3>1, <3>2, <4>1 DEF GrantedOrRevoked, Roster
    <3>3. CASE call[k].pc = "POST sender-keys" /\ call'[k].grants = call[k].grants
      BY <1>1, <3>1, <3>3 DEF RosterInv, WrappedForSelf, GrantedOrRevoked
    <3> QED BY <1>2, <1>8, <2>1, <3>2, <3>3 DEF RosterEffect, Uploading
  <2>2. ASSUME call'[k].pc = "device", call'[k].chat \in Encrypted PROVE GrantedOrRevoked(k)'
    <3>1. /\ call[k].pc = "epoch" /\ OfOpenEpoch(k) /\ call'[k].grants = call[k].grants
          /\ call'[k].device = d
      BY <1>2, <1>7, <1>8, <2>2 DEF RosterEffect, Uploading, OfOpenEpoch
    <3> QED BY <1>1, <3>1 DEF RosterInv, WrappedForSelf, GrantedOrRevoked
  <2>3. ASSUME call'[k].pc \in {"grants", "insert"}, call'[k].chat \in Encrypted
        PROVE  call'[k].device \in call'[k].grants
    <3>1. call'[k].device = d /\ c \in Encrypted /\ call'[k].grants = call[k].grants
      BY <1>2, <1>7, <1>8, <2>3 DEF RosterEffect, Uploading
    <3>2. CASE call[k].pc = "device" /\ devices[d] = "active"
      BY <3>1, <3>2 DEF RosterInv, WrappedForSelf, GrantedOrRevoked
    <3>3. CASE call[k].pc = "grants"
      BY <3>1, <3>3 DEF RosterInv, WrappedForSelf
    <3> QED BY <1>2, <1>8, <2>3, <3>2, <3>3 DEF RosterEffect, Uploading
  <2> QED BY <1>1, <2>1, <2>2, <2>3 DEF RosterInv, WrappedForSelf, OfOpenEpoch, GrantedOrRevoked
<1>10. \A b : Due(b)' = Due(b)
  BY <1>1 DEF Due, Roster
<1>11. WrappedForAll'
  <2>1. ASSUME call'[k].pc = "insert" PROVE call'[k].chat = c /\ Due(c) \subseteq call'[k].grants
    <3>1. /\ call'[k].chat = c
          /\ call'[k].grants = call[k].grants /\ call[k].grants = Roster(c)
      BY <1>2, <1>7, <1>8, <2>1 DEF RosterEffect, Uploading
    <3> QED BY <3>1 DEF Due
  <2> QED BY <1>1, <1>10, <2>1 DEF RosterInv, WrappedForAll, OfOpenEpoch
<1>12. OwnDeviceGranted' /\ LiveChainsReachMembers'
  <2>1. CASE dists' = dists
    BY <1>1, <2>1 DEF RosterInv, OwnDeviceGranted, LiveChainsReachMembers
  <2>2. CASE InsertDistribution(k)
    <3>1. /\ dists'[c] = dists[c] \cup {NewDistribution(k)}
          /\ \A b \in Chats : b # c => dists'[b] = dists[b]
          /\ call[k].pc = "insert"
      BY <1>1, <2>2 DEF InsertDistribution, At, TypeInv, TypeOK
    <3>2. c \in Encrypted => d \in call[k].grants
      BY <3>1 DEF RosterInv, WrappedForSelf
    <3>3. c \in Encrypted \ SharedHistory /\ call[k].epoch = current[c] => Due(c) \subseteq call[k].grants
      BY <3>1 DEF RosterInv, WrappedForAll, OfOpenEpoch
    <3>4. OwnDeviceGranted'
      BY <3>1, <3>2, SendersAssumption DEF RosterInv, OwnDeviceGranted, NewDistribution
    <3>5. LiveChainsReachMembers'
      BY <1>1, <3>1, <3>3, SendersAssumption
         DEF RosterInv, LiveChainsReachMembers, NewDistribution, Due, Roster
    <3> QED BY <3>4, <3>5
  <2> QED BY <1>1, <2>1, <2>2
<1> QED BY <1>5, <1>6, <1>9, <1>11, <1>12 DEF RosterInv

(* The roster against the world: within an epoch nobody who is due is missed, and what a new    *)
(* epoch leaves behind is not live any more.                                                    *)
LEMMA LedgerRoster ==
    ASSUME TypeInv, EraInv, RosterInv, LedgerStep
    PROVE  RosterInv'
<1>1. /\ UNCHANGED dists
      /\ \A d \in Devices : /\ devices[d] # "absent" => devices'[d] # "absent"
                            /\ devices[d] = "revoked" => devices'[d] = "revoked"
      /\ \A c \in Encrypted : current'[c] = current[c] => members[c] \subseteq members'[c]
      /\ \A c \in Chats : current[c] \in Nat /\ current'[c] \in Nat /\ current[c] <= current'[c]
  <2>1. TypeOK /\ Ledger!Next /\ UNCHANGED dists
    BY DEF TypeInv, LedgerStep
  <2>2. LedgerEffect
    BY <2>1, LedgerMoves
  <2>3. \A c \in Chats : current[c] \in Nat
    BY <2>1, EpochsType DEF TypeOK
  <2>4. \A d \in Devices : /\ devices[d] # "absent" => devices'[d] # "absent"
                           /\ devices[d] = "revoked" => devices'[d] = "revoked"
    BY <2>1, DevicesStay
  <2> QED BY <2>1, <2>2, <2>3, <2>4 DEF LedgerEffect
<1>2. \A k \in Calls :
        /\ call'[k].pc = call[k].pc /\ call'[k].device = call[k].device
        /\ call'[k].chat = call[k].chat /\ call'[k].epoch = call[k].epoch
        /\ call'[k].grants = call[k].grants
  BY DEF LedgerStep, TypeInv, TypeOK, Call
<1>3. \A k \in Calls : call[k].pc \notin Ended =>
        /\ call[k].device \in Devices /\ call[k].chat \in Chats
        /\ call[k].epoch \in Nat /\ call[k].epoch <= current[call[k].chat]
  BY DEF TypeInv, TypeOK, CallTargets, Call, EraInv, EpochsSeen
<1>4. ASSUME NEW k \in Calls, call[k].pc \notin Ended, OfOpenEpoch(k)'
      PROVE  OfOpenEpoch(k) /\ current'[call[k].chat] = current[call[k].chat]
  <2>1. call[k].chat \in Encrypted /\ call[k].epoch = current'[call[k].chat]
    BY <1>2, <1>4 DEF OfOpenEpoch
  <2> QED BY <1>1, <1>3, <1>4, <2>1 DEF OfOpenEpoch
<1>5. ASSUME NEW k \in Calls, call[k].pc \notin Ended, GrantedOrRevoked(k)
      PROVE  GrantedOrRevoked(k)'
  BY <1>1, <1>2, <1>3, <1>5 DEF GrantedOrRevoked
<1>6. SendersPublished'
  BY <1>1, <1>2, <1>3 DEF RosterInv, SendersPublished
<1>7. ReadersBelong'
  <2>1. ASSUME NEW k \in Calls, call[k].pc = "roster", OfOpenEpoch(k)'
        PROVE  DeviceOwner[call[k].device] \in members'[call[k].chat]
    <3>1. OfOpenEpoch(k) /\ current'[call[k].chat] = current[call[k].chat]
      BY <1>4, <2>1 DEF Ended
    <3>2. members[call[k].chat] \subseteq members'[call[k].chat]
      BY <1>1, <3>1 DEF OfOpenEpoch
    <3> QED BY <2>1, <3>1, <3>2 DEF RosterInv, ReadersBelong
  <2> QED BY <1>2, <2>1 DEF ReadersBelong
<1>8. WrappedForSelf'
  <2> SUFFICES ASSUME NEW k \in Calls
               PROVE  /\ call'[k].pc \in {"POST sender-keys", "epoch"} /\ OfOpenEpoch(k)'
                           => GrantedOrRevoked(k)'
                      /\ call'[k].pc = "device" /\ call'[k].chat \in Encrypted => GrantedOrRevoked(k)'
                      /\ call'[k].pc \in {"grants", "insert"} /\ call'[k].chat \in Encrypted =>
                           call'[k].device \in call'[k].grants
    BY DEF WrappedForSelf
  <2>1. ASSUME call'[k].pc \in {"POST sender-keys", "epoch"}, OfOpenEpoch(k)'
        PROVE  GrantedOrRevoked(k)'
    <3>1. call[k].pc \in {"POST sender-keys", "epoch"} /\ call[k].pc \notin Ended
      BY <1>2, <2>1 DEF Ended
    <3> QED BY <1>4, <1>5, <2>1, <3>1 DEF RosterInv, WrappedForSelf
  <2>2. ASSUME call'[k].pc = "device", call'[k].chat \in Encrypted PROVE GrantedOrRevoked(k)'
    <3>1. call[k].pc = "device" /\ call[k].chat \in Encrypted /\ call[k].pc \notin Ended
      BY <1>2, <2>2 DEF Ended
    <3> QED BY <1>5, <3>1 DEF RosterInv, WrappedForSelf
  <2>3. call'[k].pc \in {"grants", "insert"} /\ call'[k].chat \in Encrypted =>
          call'[k].device \in call'[k].grants
    BY <1>2 DEF RosterInv, WrappedForSelf
  <2> QED BY <2>1, <2>2, <2>3
<1>9. WrappedForAll'
  <2>1. ASSUME NEW k \in Calls, call[k].pc = "insert", OfOpenEpoch(k)',
               call[k].chat \notin SharedHistory
        PROVE  Due(call[k].chat)' \subseteq call[k].grants
    <3>1. OfOpenEpoch(k) /\ current'[call[k].chat] = current[call[k].chat]
      BY <1>4, <2>1 DEF Ended
    <3>2. call[k].chat \in Encrypted \ SharedHistory
      BY <2>1, <3>1 DEF OfOpenEpoch
    <3>3. Due(call[k].chat) \subseteq call[k].grants
      BY <2>1, <3>1 DEF RosterInv, WrappedForAll
    <3>4. \A c \in Encrypted \ SharedHistory : current'[c] = current[c] => Due(c)' \subseteq Due(c)
      BY DueShrinks
    <3>5. Due(call[k].chat)' = {x \in Devices : /\ devices'[x] = "active"
                                               /\ DeviceOwner[x] \in members'[call'[k].chat]
                                               /\ call'[k].chat \notin waiting'[x]}
      BY DEF Due, Roster
    <3> QED BY <1>2, <3>1, <3>2, <3>3, <3>4, <3>5 DEF Due, Roster
  <2> QED BY <1>2, <2>1 DEF WrappedForAll
<1>10. OwnDeviceGranted'
  BY <1>1 DEF RosterInv, OwnDeviceGranted
<1>11. LiveChainsReachMembers'
  <2>1. ASSUME NEW c \in Encrypted \ SharedHistory, NEW x \in dists[c], x.epoch = current'[c],
               NEW d \in Due(c)'
        PROVE  d \in x.grants
    <3>1. c \in Chats /\ x.epoch \in Nat /\ x.epoch <= current[c]
      BY SendersAssumption DEF TypeInv, TypeOK, Distribution, EraInv, EpochsSeen
    <3>2. current'[c] = current[c]
      BY <1>1, <2>1, <3>1
    <3>3. d \in Due(c)
      BY <2>1, <3>2, DueShrinks
    <3> QED BY <2>1, <3>2, <3>3 DEF RosterInv, LiveChainsReachMembers, Due, Roster
  <2> QED BY <1>1, <2>1 DEF LiveChainsReachMembers, Due, Roster
<1> QED BY <1>6, <1>7, <1>8, <1>9, <1>10, <1>11 DEF RosterInv

LEMMA ReloadRoster ==
    ASSUME TypeInv, RosterInv, NEW d \in Senders, Reload(d)
    PROVE  RosterInv'
<1>1. UNCHANGED <<members, devices, current, dists, waiting>>
  BY DEF Reload, ledger
<1>2. \A k \in Calls : \/ call'[k].pc \in Ended
                       \/ /\ call'[k].pc = call[k].pc /\ call'[k].device = call[k].device
                          /\ call'[k].chat = call[k].chat /\ call'[k].epoch = call[k].epoch
                          /\ call'[k].grants = call[k].grants
  BY DEF Reload, TypeInv, TypeOK, Call, NoCall, Ended
<1>3. {"roster", "POST sender-keys", "epoch", "device", "grants", "insert"} \cap Ended = {}
  BY DEF Ended
<1>4. SendersPublished' /\ ReadersBelong'
  BY <1>1, <1>2, <1>3 DEF RosterInv, SendersPublished, ReadersBelong, OfOpenEpoch
<1>5. WrappedForSelf'
  BY <1>1, <1>2, <1>3 DEF RosterInv, WrappedForSelf, OfOpenEpoch, GrantedOrRevoked
<1>6. WrappedForAll'
  BY <1>1, <1>2, <1>3 DEF RosterInv, WrappedForAll, OfOpenEpoch, Due, Roster
<1>7. OwnDeviceGranted' /\ LiveChainsReachMembers'
  BY <1>1 DEF RosterInv, OwnDeviceGranted, LiveChainsReachMembers
<1> QED BY <1>4, <1>5, <1>6, <1>7 DEF RosterInv

LEMMA StartRoster ==
    ASSUME TypeInv, RosterInv, NEW k \in Calls, NEW d \in Senders, NEW c \in Chats, StartSend(k, d, c)
    PROVE  RosterInv'
<1>1. UNCHANGED <<members, devices, current, dists, waiting>>
  BY DEF StartSend, ledger
<1>2. /\ \A j \in Calls : j # k => call'[j] = call[j]
      /\ call'[k].pc = "GET keys" /\ call'[k].device = d /\ devices[d] # "absent"
  BY DEF StartSend, TypeInv, TypeOK, NoCall
<1>3. SendersPublished' /\ ReadersBelong'
  BY <1>1, <1>2 DEF RosterInv, SendersPublished, ReadersBelong, OfOpenEpoch
<1>4. WrappedForSelf'
  BY <1>1, <1>2 DEF RosterInv, WrappedForSelf, OfOpenEpoch, GrantedOrRevoked
<1>5. WrappedForAll'
  BY <1>1, <1>2 DEF RosterInv, WrappedForAll, OfOpenEpoch, Due, Roster
<1>6. OwnDeviceGranted' /\ LiveChainsReachMembers'
  BY <1>1 DEF RosterInv, OwnDeviceGranted, LiveChainsReachMembers
<1> QED BY <1>3, <1>4, <1>5, <1>6 DEF RosterInv

LEMMA InitialRoster == Init => RosterInv
<1> SUFFICES ASSUME Init PROVE RosterInv
  OBVIOUS
<1>1. \A k \in Calls : call[k].pc \in Ended /\ call[k].pc = "idle"
  BY DEF Init, NoCall, Ended
<1>2. \A c \in Chats : dists[c] = {}
  BY DEF Init
<1>3. SendersPublished /\ ReadersBelong /\ WrappedForSelf /\ WrappedForAll
  BY <1>1 DEF SendersPublished, ReadersBelong, WrappedForSelf, WrappedForAll
<1>4. OwnDeviceGranted /\ LiveChainsReachMembers
  BY <1>2, SendersAssumption DEF OwnDeviceGranted, LiveChainsReachMembers
<1> QED BY <1>3, <1>4 DEF RosterInv

LEMMA RosterInvStep == TypeInv /\ EraInv /\ RosterInv /\ [Next]_vars => RosterInv'
<1> SUFFICES ASSUME TypeInv, EraInv, RosterInv, [Next]_vars PROVE RosterInv'
  OBVIOUS
<1>1. CASE LedgerStep
  BY <1>1, LedgerRoster
<1>2. ASSUME NEW d \in Senders, Reload(d) PROVE RosterInv'
  BY <1>2, ReloadRoster
<1>3. ASSUME NEW k \in Calls, NEW d \in Senders, NEW c \in Chats, StartSend(k, d, c) PROVE RosterInv'
  BY <1>3, StartRoster
<1>4. ASSUME NEW k \in Calls, SendStep(k) PROVE RosterInv'
  BY <1>4, SendRoster
<1>5. CASE UNCHANGED vars
  <2>1. UNCHANGED <<members, devices, current, dists, call, waiting>>
    BY <1>5 DEF vars, ledger
  <2> QED BY <2>1 DEF RosterInv, SendersPublished, ReadersBelong, WrappedForSelf, WrappedForAll,
                      OwnDeviceGranted, LiveChainsReachMembers, OfOpenEpoch, GrantedOrRevoked, Due, Roster
<1> QED BY <1>1, <1>2, <1>3, <1>4, <1>5 DEF Next

(* What holds of the devices a chain is wrapped for, from the roster the client reads to the    *)
(* set the server compares it with, whatever happens to members and devices in between.         *)
THEOREM RosterInvariant == Spec => []RosterInv
<1>1. TypeInv /\ EraInv /\ RosterInv /\ [Next]_vars => TypeInv' /\ EraInv' /\ RosterInv'
  BY TypeInvStep, EraInvStep, RosterInvStep
<1> QED BY InitialType, InitialEra, InitialRoster, <1>1, PTL DEF Spec

(* Every chain of an encrypted chat is granted to the device that made it too.                  *)
THEOREM OwnDevicesGranted == Spec => []OwnDeviceGranted
<1>1. RosterInv => OwnDeviceGranted
  BY DEF RosterInv
<1> QED BY RosterInvariant, <1>1, PTL

(* No member's device that the chat has rotated for lacks a grant of the open epoch.            *)
THEOREM LiveChainsReach == Spec => []LiveChainsReachMembers
<1>1. RosterInv => LiveChainsReachMembers
  BY DEF RosterInv
<1> QED BY RosterInvariant, <1>1, PTL

----------------------------------------------------------------------------
(* Why an undisturbed send succeeds: while the ledger does not move, the epoch and the roster   *)
(* that the client has read are still right when the server compares them; and a chain that a   *)
(* device keeps, or that a call holds, has been published, whatever other calls and reloads     *)
(* have done to the device's cache.                                                             *)
Published(c, d, e, n) == \E x \in dists[c] : x.device = d /\ x.epoch = e /\ x.skid = n

Holding == {"published", "POST message", "gate", "distribution", "store"}

KeptChainsPublished ==
    \A d \in Devices : \A x \in ownChains[d] : Published(x.chat, d, x.epoch, x.skid)

HeldChainsPublished ==
    \A k \in Calls : call[k].pc \in Holding =>
        Published(call[k].chat, call[k].device, call[k].epoch, call[k].skid)

Asking == {"GET keys", "keys"}

Granting == {"POST sender-keys", "epoch", "device", "grants"}

ReadsStillRight ==
    \A k \in Calls : call[k].pc \notin Ended /\ ~call[k].disturbed =>
        /\ call[k].pc # "stale"
        /\ call[k].pc \notin Asking => call[k].epoch = current[call[k].chat]
        /\ call[k].pc \in Granting => call[k].grants = Roster(call[k].chat)

SendInv == SendersPublished /\ KeptChainsPublished /\ HeldChainsPublished /\ ReadsStillRight

(* The progress of one call, by the fields it reads and writes. *)
Passes(k) ==
    /\ call'[k].epoch = call[k].epoch /\ call'[k].skid = call[k].skid
    /\ call'[k].grants = call[k].grants
    /\ \/ call[k].pc = "GET keys" /\ call'[k].pc = "keys"
       \/ call[k].pc = "chain" /\ call'[k].pc = "GET roster"
       \/ call[k].pc = "GET roster" /\ call'[k].pc = "roster"
       \/ call[k].pc = "POST sender-keys" /\ call'[k].pc = "epoch"
       \/ call[k].pc = "epoch" /\ call'[k].pc = "device"
       \/ call[k].pc = "device" /\ call'[k].pc = "grants"
       \/ call[k].pc = "grants" /\ call'[k].pc = "insert"
       \/ call[k].pc = "published" /\ call'[k].pc = "POST message"
       \/ call[k].pc = "POST message" /\ call'[k].pc = "gate"
       \/ call[k].pc = "gate" /\ call'[k].pc = "distribution"
       \/ call[k].pc = "distribution" /\ call'[k].pc = "store"

Learns(k) ==
    /\ call[k].pc = "keys" /\ call'[k].pc = "chain"
    /\ call'[k].epoch = current[call[k].chat]

Reuses(k) ==
    /\ call[k].pc = "chain" /\ call'[k].pc = "POST message" /\ call'[k].epoch = call[k].epoch
    /\ \E x \in ownChains[call[k].device] :
         x.chat = call[k].chat /\ x.epoch = call[k].epoch /\ x.skid = call'[k].skid

Mints(k) ==
    /\ call[k].pc = "roster" /\ call'[k].pc = "POST sender-keys"
    /\ call'[k].epoch = call[k].epoch /\ call'[k].grants = Roster(call[k].chat)

Publishes(k) ==
    /\ call[k].pc = "insert" /\ call'[k].pc = "published"
    /\ call'[k].epoch = call[k].epoch /\ call'[k].skid = call[k].skid

IsStale(k) ==
    /\ call[k].pc = "gate" /\ call'[k].pc = "stale"
    /\ call[k].epoch # current[call[k].chat]

Restarts(k) == call[k].pc = "stale" /\ call'[k].pc = "chain"

Progress(k) ==
    /\ call'[k].device = call[k].device /\ call'[k].chat = call[k].chat
    /\ call'[k].disturbed = call[k].disturbed
    /\ \/ Passes(k) \/ Learns(k) \/ Reuses(k) \/ Mints(k) \/ Publishes(k)
       \/ IsStale(k) \/ Restarts(k)

(* A call that fails does so at one of the checks. *)
Refused(k) ==
    \/ DeviceOwner[call[k].device] \notin members[call[k].chat]
    \/ call[k].pc = "keys" /\ current[call[k].chat] = 0
    \/ call[k].pc \in {"epoch", "gate"} /\ call[k].epoch # current[call[k].chat]
    \/ call[k].pc = "device" /\ devices[call[k].device] # "active"
    \/ call[k].pc = "grants" /\ call[k].grants # Roster(call[k].chat)
    \/ /\ call[k].pc = "distribution"
       /\ ~Published(call[k].chat, call[k].device, call[k].epoch, call[k].skid)

LEMMA SendProgress ==
    ASSUME TypeInv, NEW k \in Calls, SendStep(k)
    PROVE  \/ Progress(k)
           \/ call'[k].pc = "idle"
           \/ call'[k].pc = "failed" /\ Refused(k)
<1>1. call[k] \in Call /\ call \in [Calls -> Call]
  BY DEF TypeInv, TypeOK
<1> DEFINE Goal == Progress(k) \/ call'[k].pc = "idle" \/ (call'[k].pc = "failed" /\ Refused(k))
<1>2. ASSUME call' = Fail(k), Refused(k) PROVE Goal
  BY <1>1, <1>2 DEF Fail, NoCall
<1>3. ASSUME NEW pc, call' = Goto(k, pc)
      PROVE  /\ call'[k].pc = pc /\ call'[k].device = call[k].device /\ call'[k].chat = call[k].chat
             /\ call'[k].disturbed = call[k].disturbed /\ call'[k].epoch = call[k].epoch
             /\ call'[k].skid = call[k].skid /\ call'[k].grants = call[k].grants
  BY <1>1, <1>3 DEF Goto, Call
<1>4. ASSUME NEW s, Answer(k, s) PROVE call'[k] = s \/ call'[k].pc = "idle"
  BY <1>1, <1>4 DEF Answer, NoCall
<1>5. CASE Access(k)
  <2>1. CASE call' = Fail(k) /\ DeviceOwner[call[k].device] \notin members[call[k].chat]
    BY <1>2, <2>1 DEF Refused
  <2>2. CASE call' = Goto(k, Handler[call[k].pc])
    <3>1. \/ call[k].pc = "GET keys" /\ Handler[call[k].pc] = "keys"
          \/ call[k].pc = "GET roster" /\ Handler[call[k].pc] = "roster"
          \/ call[k].pc = "POST sender-keys" /\ Handler[call[k].pc] = "epoch"
          \/ call[k].pc = "POST message" /\ Handler[call[k].pc] = "gate"
      BY <1>5 DEF Access, Handler, Endpoints
    <3> QED BY <1>3, <2>2, <3>1 DEF Progress, Passes
  <2> QED BY <1>5, <2>1, <2>2 DEF Access
<1>6. CASE ReadKeys(k)
  <2>1. CASE current[call[k].chat] = 0
    BY <1>2, <1>6, <2>1 DEF ReadKeys, At, Refused
  <2>2. CASE Answer(k, [call[k] EXCEPT !.pc = "chain", !.epoch = current[call[k].chat]])
    BY <1>1, <1>4, <1>6, <2>2 DEF ReadKeys, At, Progress, Learns, Call
  <2> QED BY <1>6, <2>1, <2>2 DEF ReadKeys
<1>7. CASE EnsureChain(k)
  <2>1. CASE call' = Goto(k, "GET roster")
    BY <1>3, <1>7, <2>1 DEF EnsureChain, At, Progress, Passes
  <2>2. ASSUME NEW x \in Cached(k), call' = [call EXCEPT ![k].pc = "POST message", ![k].skid = x.skid]
        PROVE  Goal
    <3>1. /\ call'[k].pc = "POST message" /\ call'[k].skid = x.skid /\ call'[k].epoch = call[k].epoch
          /\ call'[k].device = call[k].device /\ call'[k].chat = call[k].chat
          /\ call'[k].disturbed = call[k].disturbed
      BY <1>1, <2>2 DEF Call
    <3>2. x \in ownChains[call[k].device] /\ x.chat = call[k].chat /\ x.epoch = call[k].epoch
      BY <2>2 DEF Cached
    <3> QED BY <1>7, <3>1, <3>2 DEF EnsureChain, At, Progress, Reuses
  <2> QED BY <1>7, <2>1, <2>2 DEF EnsureChain
<1>8. CASE ReadRoster(k)
  BY <1>1, <1>4, <1>8 DEF ReadRoster, At, Progress, Mints, Call
<1>9. CASE CheckEpoch(k)
  BY <1>2, <1>3, <1>9 DEF CheckEpoch, At, Refused, Progress, Passes
<1>10. CASE CheckDevice(k)
  BY <1>2, <1>3, <1>10 DEF CheckDevice, At, Refused, Progress, Passes
<1>11. CASE CheckGrants(k)
  BY <1>2, <1>3, <1>11 DEF CheckGrants, At, Refused, Progress, Passes
<1>12. CASE InsertDistribution(k)
  BY <1>1, <1>4, <1>12 DEF InsertDistribution, At, Progress, Publishes, Call
<1>13. CASE ChainPublished(k)
  BY <1>3, <1>13 DEF ChainPublished, At, Progress, Passes
<1>14. CASE CheckCurrent(k)
  <2>1. CASE call' = Goto(k, "distribution")
    BY <1>3, <1>14, <2>1 DEF CheckCurrent, At, Progress, Passes
  <2>2. CASE call' = Fail(k) /\ call[k].epoch # current[call[k].chat]
    BY <1>2, <1>14, <2>2 DEF CheckCurrent, At, Refused
  <2>3. CASE /\ Answer(k, [call[k] EXCEPT !.pc = "stale", !.fresh = current[call[k].chat]])
             /\ call[k].epoch # current[call[k].chat]
    BY <1>1, <1>4, <1>14, <2>3 DEF CheckCurrent, At, Progress, IsStale, Call
  <2> QED BY <1>14, <2>1, <2>2, <2>3 DEF CheckCurrent
<1>15. CASE StartOver(k)
  BY <1>1, <1>15 DEF StartOver, At, Progress, Restarts, Call
<1>16. CASE CheckDistribution(k)
  <2>1. CASE call' = Goto(k, "store")
    BY <1>3, <1>16, <2>1 DEF CheckDistribution, At, Progress, Passes
  <2>2. CASE /\ call' = Fail(k)
             /\ ~\E x \in dists[call[k].chat] :
                    /\ x.skid = call[k].skid /\ x.epoch = call[k].epoch
                    /\ DeviceOwner[x.device] = DeviceOwner[call[k].device]
    BY <1>2, <1>16, <2>2 DEF CheckDistribution, At, Refused, Published
  <2> QED BY <1>16, <2>1, <2>2 DEF CheckDistribution
<1>17. CASE Store(k)
  BY <1>1, <1>17 DEF Store, NoCall
<1> QED
  BY <1>5, <1>6, <1>7, <1>8, <1>9, <1>10, <1>11, <1>12, <1>13, <1>14, <1>15, <1>16, <1>17 DEF SendStep

LEMMA SendSend ==
    ASSUME TypeInv, SendInv, NEW k \in Calls, SendStep(k)
    PROVE  SendInv'
<1> DEFINE c == call[k].chat
           d == call[k].device
<1>1. /\ UNCHANGED <<members, devices, current>>
      /\ \A j \in Calls : j # k => call'[j] = call[j]
      /\ call[k].pc \notin Ended /\ c \in Chats /\ d \in Devices
      /\ dists' # dists => InsertDistribution(k)
  BY SendFrame DEF TypeInv, CallTargets
<1>2. Progress(k) \/ call'[k].pc \in Ended
  BY SendProgress DEF Ended
<1>3. /\ \A b \in Chats : dists[b] \subseteq dists'[b]
      /\ call[k].pc = "insert" => NewDistribution(k) \in dists'[c]
  <2>1. CASE InsertDistribution(k)
    BY <1>1, <2>1 DEF InsertDistribution, TypeInv, TypeOK
  <2>2. call[k].pc = "insert" => InsertDistribution(k)
    BY DEF SendStep, Access, ReadKeys, EnsureChain, ReadRoster, CheckEpoch, CheckDevice, CheckGrants,
           InsertDistribution, ChainPublished, CheckCurrent, StartOver, CheckDistribution, Store,
           At, Endpoints
  <2> QED BY <1>1, <2>1, <2>2
<1>4. ASSUME NEW b \in Chats, NEW i, NEW e, NEW n, Published(b, i, e, n)
      PROVE  \E x \in dists'[b] : x.device = i /\ x.epoch = e /\ x.skid = n
  BY <1>3, <1>4 DEF Published
<1>5. SendersPublished'
  BY <1>1, <1>2 DEF SendInv, SendersPublished, Progress
<1>6. ASSUME call'[k].pc \in Holding
      PROVE  \E x \in dists'[c] :
               x.device = d /\ x.epoch = call'[k].epoch /\ x.skid = call'[k].skid
  <2>1. Progress(k)
    BY <1>2, <1>6 DEF Holding, Ended
  <2>2. CASE Publishes(k)
    BY <1>3, <2>2 DEF Publishes, NewDistribution
  <2>3. CASE Reuses(k)
    <3>1. Published(c, d, call'[k].epoch, call'[k].skid)
      BY <1>1, <2>3 DEF Reuses, SendInv, KeptChainsPublished
    <3> QED BY <1>1, <1>4, <3>1
  <2>4. CASE Passes(k)
    <3>1. call[k].pc \in Holding
      BY <1>6, <2>4 DEF Passes, Holding
    <3>2. Published(c, d, call'[k].epoch, call'[k].skid)
      BY <2>4, <3>1 DEF Passes, SendInv, HeldChainsPublished
    <3> QED BY <1>1, <1>4, <3>2
  <2> QED BY <1>6, <2>1, <2>2, <2>3, <2>4 DEF Progress, Learns, Mints, IsStale, Restarts, Holding
<1>7. HeldChainsPublished'
  <2>1. ASSUME NEW j \in Calls, j # k, call[j].pc \in Holding
        PROVE  \E x \in dists'[call[j].chat] :
                 x.device = call[j].device /\ x.epoch = call[j].epoch /\ x.skid = call[j].skid
    <3>1. call[j].chat \in Chats
      BY <2>1 DEF TypeInv, CallTargets, Holding, Ended
    <3>2. Published(call[j].chat, call[j].device, call[j].epoch, call[j].skid)
      BY <2>1 DEF SendInv, HeldChainsPublished
    <3> QED BY <1>4, <3>1, <3>2
  <2>2. call'[k].pc \in Holding => call'[k].chat = c /\ call'[k].device = d
    BY <1>2 DEF Progress, Holding, Ended
  <2>3. ASSUME NEW j \in Calls, call'[j].pc \in Holding
        PROVE  \E x \in dists'[call'[j].chat] :
                 x.device = call'[j].device /\ x.epoch = call'[j].epoch /\ x.skid = call'[j].skid
    <3>1. CASE j = k
      BY <1>6, <2>2, <2>3, <3>1
    <3>2. CASE j # k
      BY <1>1, <2>1, <2>3, <3>2
    <3> QED BY <3>1, <3>2
  <2> QED BY <2>3 DEF HeldChainsPublished, Published
<1>8. KeptChainsPublished'
  <2>1. ASSUME NEW b \in Devices, NEW x \in ownChains'[b]
        PROVE  Published(x.chat, b, x.epoch, x.skid)'
    <3>1. CASE x \in ownChains[b]
      <4>1. Published(x.chat, b, x.epoch, x.skid) /\ x.chat \in Chats
        BY <3>1 DEF SendInv, KeptChainsPublished, TypeInv, TypeOK, OwnChain
      <4> QED BY <1>3, <4>1 DEF Published
    <3>2. CASE x \notin ownChains[b]
      <4>1. ChainPublished(k)
        <5>1. ownChains' = ownChains \/ ChainPublished(k) \/ StartOver(k)
          BY DEF SendStep, Access, ReadKeys, EnsureChain, ReadRoster, CheckEpoch, CheckDevice,
                 CheckGrants, InsertDistribution, ChainPublished, CheckCurrent, StartOver,
                 CheckDistribution, Store
        <5>2. ~StartOver(k)
          BY <2>1, <3>2 DEF StartOver, TypeInv, TypeOK
        <5> QED BY <2>1, <3>2, <5>1, <5>2
      <4>2. b = d /\ x = [chat |-> c, epoch |-> call[k].epoch, skid |-> call[k].skid]
        BY <1>1, <2>1, <3>2, <4>1 DEF ChainPublished, Keep, TypeInv, TypeOK
      <4>3. Published(c, d, call[k].epoch, call[k].skid)
        BY <4>1 DEF ChainPublished, At, SendInv, HeldChainsPublished, Holding
      <4> QED BY <1>1, <1>3, <4>2, <4>3 DEF Published
    <3> QED BY <3>1, <3>2
  <2> QED BY <2>1 DEF KeptChainsPublished
<1>9. \A b : Roster(b)' = Roster(b)
  BY <1>1 DEF Roster
<1>10. ReadsStillRight'
  <2>1. ASSUME call'[k].pc \notin Ended, ~call'[k].disturbed
        PROVE  /\ call'[k].chat = c
               /\ call'[k].pc # "stale"
               /\ call'[k].pc \notin Asking => call'[k].epoch = current[c]
               /\ call'[k].pc \in Granting => call'[k].grants = Roster(c)
    <3>1. Progress(k) /\ ~call[k].disturbed
      BY <1>2, <2>1 DEF Progress
    <3>2. /\ call[k].pc # "stale"
          /\ call[k].pc \notin Asking => call[k].epoch = current[c]
          /\ call[k].pc \in Granting => call[k].grants = Roster(c)
      BY <1>1, <3>1 DEF SendInv, ReadsStillRight
    <3>3. CASE Passes(k)
      BY <3>1, <3>2, <3>3 DEF Progress, Passes, Asking, Granting
    <3>4. CASE Learns(k) \/ Reuses(k) \/ Mints(k) \/ Publishes(k)
      BY <3>1, <3>2, <3>4 DEF Progress, Learns, Reuses, Mints, Publishes, Asking, Granting
    <3>5. CASE IsStale(k) \/ Restarts(k)
      BY <3>2, <3>5 DEF IsStale, Restarts, Asking
    <3> QED BY <3>1, <3>3, <3>4, <3>5 DEF Progress
  <2> QED BY <1>1, <1>9, <2>1 DEF SendInv, ReadsStillRight
<1> QED BY <1>5, <1>7, <1>8, <1>10 DEF SendInv

LEMMA SendInvStep == TypeInv /\ SendInv /\ [Next]_vars => SendInv'
<1> SUFFICES ASSUME TypeInv, SendInv, [Next]_vars PROVE SendInv'
  OBVIOUS
<1>1. CASE LedgerStep
  <2>1. UNCHANGED <<dists, ownChains>>
    BY <1>1 DEF LedgerStep
  <2>2. \A k \in Calls :
          /\ call'[k].pc = call[k].pc /\ call'[k].device = call[k].device
          /\ call'[k].chat = call[k].chat /\ call'[k].epoch = call[k].epoch
          /\ call'[k].skid = call[k].skid /\ (call[k].pc \notin Ended => call'[k].disturbed)
    BY <1>1 DEF LedgerStep, TypeInv, TypeOK, Call
  <2>3. SendersPublished'
    <3>1. \A d \in Devices : devices[d] # "absent" => devices'[d] # "absent"
      BY <1>1, DevicesStay DEF LedgerStep, TypeInv
    <3>2. \A k \in Calls : call[k].pc \notin Ended => call[k].device \in Devices
      BY DEF TypeInv, CallTargets
    <3> QED BY <2>2, <3>1, <3>2 DEF SendInv, SendersPublished
  <2>4. KeptChainsPublished' /\ HeldChainsPublished'
    BY <2>1, <2>2 DEF SendInv, KeptChainsPublished, HeldChainsPublished, Published
  <2>5. ReadsStillRight'
    BY <2>2 DEF ReadsStillRight
  <2> QED BY <2>3, <2>4, <2>5 DEF SendInv
<1>2. ASSUME NEW d \in Senders, Reload(d) PROVE SendInv'
  <2>1. UNCHANGED <<members, devices, current, dists>>
    BY <1>2 DEF Reload, ledger
  <2>2. \A k \in Calls : \/ call'[k].pc \in Ended
                         \/ /\ call'[k].pc = call[k].pc /\ call'[k].device = call[k].device
                            /\ call'[k].chat = call[k].chat /\ call'[k].epoch = call[k].epoch
                            /\ call'[k].skid = call[k].skid /\ call'[k].grants = call[k].grants
                            /\ call'[k].disturbed = call[k].disturbed
    BY <1>2 DEF Reload, TypeInv, TypeOK, Call, NoCall, Ended
  <2>3. \A b \in Devices : ownChains'[b] \subseteq ownChains[b]
    BY <1>2 DEF Reload, TypeInv, TypeOK
  <2>4. Holding \cap Ended = {}
    BY DEF Holding, Ended
  <2>5. SendersPublished' /\ KeptChainsPublished' /\ HeldChainsPublished'
    BY <2>1, <2>2, <2>3, <2>4
       DEF SendInv, SendersPublished, KeptChainsPublished, HeldChainsPublished, Published
  <2>6. ReadsStillRight'
    BY <2>1, <2>2 DEF SendInv, ReadsStillRight, Roster
  <2> QED BY <2>5, <2>6 DEF SendInv
<1>3. ASSUME NEW k \in Calls, NEW d \in Senders, NEW c \in Chats, StartSend(k, d, c) PROVE SendInv'
  <2>1. UNCHANGED <<members, devices, current, dists, ownChains>>
    BY <1>3 DEF StartSend, ledger
  <2>2. /\ \A j \in Calls : j # k => call'[j] = call[j]
        /\ call'[k].pc = "GET keys" /\ call'[k].device = d /\ devices[d] # "absent"
    BY <1>3 DEF StartSend, TypeInv, TypeOK, NoCall
  <2>3. SendersPublished'
    BY <2>1, <2>2 DEF SendInv, SendersPublished
  <2>4. KeptChainsPublished'
    BY <2>1 DEF SendInv, KeptChainsPublished, Published
  <2>5. HeldChainsPublished'
    <3>1. call'[k].pc \notin Holding
      BY <2>2 DEF Holding
    <3>2. ASSUME NEW j \in Calls, call'[j].pc \in Holding
          PROVE  Published(call[j].chat, call[j].device, call[j].epoch, call[j].skid)
                   /\ call'[j] = call[j]
      BY <2>2, <3>1, <3>2 DEF SendInv, HeldChainsPublished
    <3> QED BY <2>1, <3>2 DEF HeldChainsPublished, Published
  <2>6. ReadsStillRight'
    <3>1. call'[k].pc \in Asking /\ call'[k].pc \notin Granting /\ call'[k].pc # "stale"
      BY <2>2 DEF Asking, Granting
    <3>2. ASSUME NEW j \in Calls, j # k, call'[j].pc \notin Ended, ~call'[j].disturbed
          PROVE  /\ call'[j] = call[j] /\ call[j].pc # "stale"
                 /\ call[j].pc \notin Asking => call[j].epoch = current[call[j].chat]
                 /\ call[j].pc \in Granting => call[j].grants = Roster(call[j].chat)
      BY <2>2, <3>2 DEF SendInv, ReadsStillRight
    <3>3. \A b : Roster(b)' = Roster(b)
      BY <2>1 DEF Roster
    <3> QED BY <2>1, <3>1, <3>2, <3>3 DEF ReadsStillRight, Roster
  <2> QED BY <2>3, <2>4, <2>5, <2>6 DEF SendInv
<1>4. ASSUME NEW k \in Calls, SendStep(k) PROVE SendInv'
  BY <1>4, SendSend
<1>5. CASE UNCHANGED vars
  <2>1. UNCHANGED <<members, devices, current, dists, call, ownChains>>
    BY <1>5 DEF vars, ledger
  <2> QED BY <2>1 DEF SendInv, SendersPublished, KeptChainsPublished, HeldChainsPublished,
                      ReadsStillRight, Published, Roster
<1> QED BY <1>1, <1>2, <1>3, <1>4, <1>5 DEF Next

LEMMA InitialSend == Init => SendInv
<1> SUFFICES ASSUME Init PROVE SendInv
  OBVIOUS
<1>1. \A k \in Calls : call[k].pc \in Ended /\ call[k].pc \notin Holding
  BY DEF Init, NoCall, Ended, Holding
<1>2. \A d \in Devices : ownChains[d] = {}
  BY DEF Init
<1> QED BY <1>1, <1>2 DEF SendInv, SendersPublished, KeptChainsPublished, HeldChainsPublished, ReadsStillRight

(* The check that refuses an undisturbed call is one of those that the sender's own standing    *)
(* fails.                                                                                       *)
LEMMA OnlyOwnStanding ==
    ASSUME TypeInv, SendInv, [Next]_vars, NEW k \in Calls,
           call[k].pc \notin Ended, call'[k].pc = "failed", ~call[k].disturbed
    PROVE  \/ DeviceOwner[call[k].device] \notin members[call[k].chat]
           \/ devices[call[k].device] = "revoked"
           \/ current[call[k].chat] = 0
<1>1. call'[k].pc # call[k].pc
  BY DEF Ended
<1>2. ~LedgerStep
  BY <1>1 DEF LedgerStep, TypeInv, TypeOK, Call
<1>3. ASSUME NEW d \in Senders PROVE ~Reload(d)
  BY <1>1 DEF Reload, TypeInv, TypeOK, Call, NoCall
<1>4. ASSUME NEW j \in Calls, NEW d \in Senders, NEW c \in Chats PROVE ~StartSend(j, d, c)
  BY <1>1 DEF StartSend, TypeInv, TypeOK, NoCall
<1>5. call' # call
  BY <1>1
<1>6. PICK j \in Calls : SendStep(j)
  BY <1>2, <1>3, <1>4, <1>5 DEF Next, vars
<1>7. j = k
  BY <1>1, <1>6, SendFrame
<1>8. Refused(k)
  <2>1. ~Progress(k)
    BY DEF Progress, Passes, Learns, Reuses, Mints, Publishes, IsStale, Restarts
  <2> QED BY <1>6, <1>7, <2>1, SendProgress
<1>9. /\ call[k].pc \notin Asking => call[k].epoch = current[call[k].chat]
      /\ call[k].pc \in Granting => call[k].grants = Roster(call[k].chat)
  BY DEF SendInv, ReadsStillRight
<1>10. devices[call[k].device] \in {"active", "revoked"}
  BY DEF SendInv, SendersPublished, TypeInv, TypeOK, CallTargets
<1>11. call[k].pc = "distribution" => Published(call[k].chat, call[k].device, call[k].epoch, call[k].skid)
  BY DEF SendInv, HeldChainsPublished, Holding
<1> QED BY <1>8, <1>9, <1>10, <1>11 DEF Refused, Asking, Granting

(* A send fails only for a change of members, devices or epoch during it, or because the sender *)
(* has no business in the chat: never for what other sends and reloads of the device do.        *)
THEOREM UndisturbedSends == Spec => UndisturbedSendsSucceed
<1>1. TypeInv /\ SendInv /\ [Next]_vars =>
        [\A k \in Calls :
            call[k].pc \notin Ended /\ call'[k].pc = "failed" /\ ~call[k].disturbed
              => \/ DeviceOwner[call[k].device] \notin members[call[k].chat]
                 \/ devices[call[k].device] = "revoked"
                 \/ current[call[k].chat] = 0]_vars
  BY OnlyOwnStanding
<1>2. TypeInv /\ SendInv /\ [Next]_vars => TypeInv' /\ SendInv'
  BY TypeInvStep, SendInvStep
<1> QED BY InitialType, InitialSend, <1>1, <1>2, PTL DEF Spec, UndisturbedSendsSucceed
=============================================================================
