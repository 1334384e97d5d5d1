--------------------------- MODULE ChatRolesProofs ---------------------------
(***************************************************************************)
(* Whatever stale screens submit, the endpoints change memberships and     *)
(* epochs only as EpochLedger allows, no chat gets a second owner or loses *)
(* its own, two people have one private chat, and a screen waits for one   *)
(* operation at a time.                                                    *)
(***************************************************************************)
EXTENDS ChatRolesProps, FiniteSetTheorems, TLAPS

Names == {"private", "leave", "remove", "setRole", "add"}

Operation == [name : Names, who : Users, to : Roles]

Screen ==
    [pc : {"list", "enable", "search", "create", "info", "sent", "passed", "reload"},
     chat : Chats \cup {NoChat}, seen : [Users -> Roles], op : SUBSET Operation]

(* A chat that was not created has no members and no keys, one without keys stamps nobody, and   *)
(* the chats encrypted from the first state on stay so.                                         *)
RowsInv ==
    /\ type \in [Chats -> {"none", "group", "channel", "private"}]
    /\ role \in [Chats -> [Users -> Roles]]
    /\ joinedAt \in [Chats -> [Users -> Nat]]
    /\ current \in [Chats -> Nat]
    /\ \A c \in Chats :
          /\ type[c] = "none" => role[c] = NoRoles /\ current[c] = 0 /\ c \notin Encrypted
          /\ current[c] = 0 => c \notin Encrypted /\ \A u \in Users : joinedAt[c][u] = 0

(* The info screen shows a chat there is, and what it has submitted is one of its operations and  *)
(* grants a role.                                                                                *)
TabInv ==
    /\ tab \in [Users -> Screen]
    /\ \A u \in Users :
          /\ tab[u].pc \in {"info", "sent", "passed", "reload"} =>
                tab[u].chat \in Chats /\ type[tab[u].chat] # "none"
          /\ tab[u].pc \in {"sent", "passed"} =>
                \A o \in tab[u].op : o.name # "private" /\ (o.name = "setRole" => o.to # "none")

RolesInv == RowsInv /\ TabInv

(* The invariant holds in the first state.                                                       *)
LEMMA RolesInit == Init => RolesInv
<1> SUFFICES ASSUME Init PROVE RolesInv
    OBVIOUS
<1>1. role \in [Chats -> [Users -> Roles]] /\ \A c \in Chats \ Encrypted : role[c] = NoRoles
    BY ChatRolesAssumption DEF Init, NoRoles, Roles
<1>2. RowsInv
    BY <1>1, ChatRolesAssumption DEF Init, RowsInv
<1>3. AtList \in Screen
    BY DEF AtList, Screen, NoRoles, Roles
<1>4. TabInv
    BY <1>3 DEF Init, TabInv, AtList
<1> QED
    BY <1>2, <1>4 DEF RolesInv

(* Founding a chat keeps the rows consistent.                                                    *)
LEMMA FoundKeepsRows ==
    ASSUME RowsInv, NEW u \in Users, NEW c \in Chats, NEW S \in SUBSET Users,
           NEW kind \in {"group", "channel"}, Found(u, c, S, kind)
    PROVE  RowsInv'
<1>1. Founded(u, S) \in [Users -> Roles]
    BY DEF Founded, Roles
<1> QED
    BY <1>1 DEF Found, RowsInv

(* So does creating a private chat.                                                              *)
LEMMA PrivateKeepsRows ==
    ASSUME RowsInv, NEW u \in Users, NEW c \in Chats, CreatePrivate(u, c)
    PROVE  RowsInv'
<1>1. PICK o \in tab[u].op :
         role' = [role EXCEPT ![c] = [x \in Users |-> IF x \in {u, o.who} THEN "member" ELSE "none"]]
    BY DEF CreatePrivate
<1>2. [x \in Users |-> IF x \in {u, o.who} THEN "member" ELSE "none"] \in [Users -> Roles]
    BY DEF Roles
<1> QED
    BY <1>1, <1>2 DEF CreatePrivate, RowsInv

(* A commit, taken apart: the operation and what it writes. *)
LEMMA CommitWrites ==
    ASSUME RolesInv, NEW u \in Users, Commit(u)
    PROVE  \E c \in Chats, o \in Operation :
              /\ type[c] # "none"
              /\ o.name # "private" /\ (o.name = "setRole" => o.to # "none")
              /\ role' = [role EXCEPT ![c][o.who] = Granted(c, o)]
              /\ current' = [current EXCEPT ![c] = IF Rotates(c, o) THEN @ + 1 ELSE @]
              /\ joinedAt' = [joinedAt EXCEPT ![c][o.who] =
                                IF o.name \in {"remove", "leave"} THEN 0
                                ELSE IF o.name = "add" /\ Rotates(c, o) THEN current[c] + 1 ELSE @]
              /\ UNCHANGED type
<1>1. tab[u].chat \in Chats /\ type[tab[u].chat] # "none" /\ tab[u].op \in SUBSET Operation
    BY DEF RolesInv, TabInv, Commit, Screen
<1>2. \A o \in tab[u].op : o.name # "private" /\ (o.name = "setRole" => o.to # "none")
    BY DEF RolesInv, TabInv, Commit
<1> QED
    BY <1>1, <1>2 DEF Commit

(* A commit grants a role.                                                                       *)
LEMMA GrantedIsRole ==
    ASSUME RowsInv, NEW c \in Chats, NEW o \in Operation, o.name # "private"
    PROVE  Granted(c, o) \in Roles
<1>1. o.name \in {"leave", "remove", "setRole", "add"} /\ o.who \in Users /\ o.to \in Roles
    BY DEF Operation, Names
<1>2. role[c][o.who] \in Roles
    BY <1>1 DEF RowsInv
<1>3. CASE o.name \in {"leave", "remove"}
    BY <1>3 DEF Granted, Roles
<1>4. CASE o.name = "add"
    BY <1>2, <1>4 DEF Granted, Roles
<1>5. CASE o.name = "setRole"
    BY <1>1, <1>2, <1>5 DEF Granted, Roles
<1> QED
    BY <1>1, <1>3, <1>4, <1>5

(* A commit keeps the rows consistent, whatever has changed since its check.                     *)
LEMMA CommitKeepsRows ==
    ASSUME RolesInv, NEW u \in Users, Commit(u)
    PROVE  RowsInv'
<1>1. PICK c \in Chats, o \in Operation :
              /\ type[c] # "none"
              /\ o.name # "private" /\ (o.name = "setRole" => o.to # "none")
              /\ role' = [role EXCEPT ![c][o.who] = Granted(c, o)]
              /\ current' = [current EXCEPT ![c] = IF Rotates(c, o) THEN @ + 1 ELSE @]
              /\ joinedAt' = [joinedAt EXCEPT ![c][o.who] =
                                IF o.name \in {"remove", "leave"} THEN 0
                                ELSE IF o.name = "add" /\ Rotates(c, o) THEN current[c] + 1 ELSE @]
              /\ UNCHANGED type
    BY CommitWrites
<1>2. o.who \in Users /\ Granted(c, o) \in Roles
    BY <1>1, GrantedIsRole DEF RolesInv, Operation
<1>3. (IF Rotates(c, o) THEN current[c] + 1 ELSE current[c]) \in Nat
    BY DEF RolesInv, RowsInv
<1>4. /\ role' \in [Chats -> [Users -> Roles]]
      /\ current' \in [Chats -> Nat]
      /\ joinedAt' \in [Chats -> [Users -> Nat]]
    BY <1>1, <1>2, <1>3 DEF RolesInv, RowsInv
<1>5. ASSUME NEW b \in Chats, type'[b] = "none"
      PROVE  role'[b] = NoRoles /\ current'[b] = 0 /\ b \notin Encrypted
    BY <1>1, <1>5 DEF RolesInv, RowsInv
<1>6. ASSUME NEW b \in Chats, current'[b] = 0
      PROVE  b \notin Encrypted /\ \A v \in Users : joinedAt'[b][v] = 0
    <2>1. current[b] = 0
        BY <1>1, <1>3, <1>6 DEF RolesInv, RowsInv
    <2>2. b = c => ~Rotates(c, o)
        BY <2>1 DEF Rotates
    <2> QED
        BY <1>1, <1>2, <2>1, <2>2 DEF RolesInv, RowsInv
<1> QED
    BY <1>1, <1>4, <1>5, <1>6 DEF RolesInv, RowsInv

(* Every action keeps the rows consistent. *)
LEMMA RowsStep ==
    ASSUME RolesInv, [Next]_vars
    PROVE  RowsInv'
<1>1. CASE UNCHANGED vars
    BY <1>1 DEF RolesInv, RowsInv, vars
<1>2. ASSUME NEW u \in Users, NEW c \in Chats, Enable(u, c) PROVE RowsInv'
    BY <1>2 DEF RolesInv, RowsInv, Enable, MayEnable, NoRoles
<1>3. ASSUME NEW u \in Users, NEW c \in Chats, NEW S \in SUBSET (Users \ {u}),
             CreateGroup(u, c, S) \/ CreateChannel(u, c, S)
      PROVE  RowsInv'
    BY <1>3, FoundKeepsRows DEF RolesInv, CreateGroup, CreateChannel
<1>4. ASSUME NEW u \in Users, NEW c \in Chats, CreatePrivate(u, c) PROVE RowsInv'
    BY <1>4, PrivateKeepsRows DEF RolesInv
<1>5. ASSUME NEW u \in Users, Commit(u) PROVE RowsInv'
    BY <1>5, CommitKeepsRows
<1>6. ASSUME NEW u \in Users,
             \/ \E c \in Chats : OpenInfo(u, c)
             \/ \E v \in Users : StartPrivate(u, v)
             \/ EnableRefused(u) \/ Search(u) \/ Submit(u) \/ Back(u) \/ Check(u) \/ Reload(u)
      PROVE  RowsInv'
    BY <1>6 DEF RolesInv, RowsInv, rows, OpenInfo, StartPrivate, EnableRefused, Search, Submit, Back,
                Check, Reload
<1> QED
    BY <1>1, <1>2, <1>3, <1>4, <1>5, <1>6 DEF Next

(* The chats there are stay. *)
LEMMA ChatsStay ==
    ASSUME RolesInv, [Next]_vars
    PROVE  \A c \in Chats : type[c] # "none" => type'[c] # "none"
<1> USE DEF RolesInv, RowsInv
<1>1. ASSUME NEW u \in Users, NEW b \in Chats, NEW S \in SUBSET (Users \ {u}),
             CreateGroup(u, b, S) \/ CreateChannel(u, b, S)
      PROVE  \A c \in Chats : type[c] # "none" => type'[c] # "none"
    BY <1>1 DEF CreateGroup, CreateChannel, Found
<1>2. ASSUME NEW u \in Users, NEW b \in Chats, CreatePrivate(u, b)
      PROVE  \A c \in Chats : type[c] # "none" => type'[c] # "none"
    BY <1>2 DEF CreatePrivate
<1>3. CASE UNCHANGED type
    BY <1>3
<1> QED
    BY <1>1, <1>2, <1>3 DEF Next, vars, rows, Enable, EnableRefused, StartPrivate, Search, OpenInfo,
                            Submit, Back, Check, Commit, Reload

(* What a screen may show, given the chats there are. *)
Shows(s, kinds) ==
    /\ s \in Screen
    /\ s.pc \in {"info", "sent", "passed", "reload"} => s.chat \in Chats /\ kinds[s.chat] # "none"
    /\ s.pc \in {"sent", "passed"} =>
          \A o \in s.op : o.name # "private" /\ (o.name = "setRole" => o.to # "none")

(* A step that changes one screen to one that may be shown keeps the invariant.                  *)
LEMMA ScreenChanges ==
    ASSUME RolesInv, [Next]_vars, NEW u \in Users, NEW s, Shows(s, type'), tab' = [tab EXCEPT ![u] = s]
    PROVE  TabInv'
<1>1. \A c \in Chats : type[c] # "none" => type'[c] # "none"
    BY ChatsStay
<1>2. tab' \in [Users -> Screen] /\ tab'[u] = s /\ \A v \in Users \ {u} : tab'[v] = tab[v]
    BY DEF RolesInv, TabInv, Shows
<1> QED
    BY <1>1, <1>2 DEF RolesInv, TabInv, Shows

(* Every action leaves the screens such.                                                         *)
LEMMA TabStep ==
    ASSUME RolesInv, [Next]_vars
    PROVE  TabInv'
<1>1. \A c \in Chats : type[c] # "none" => type'[c] # "none"
    BY ChatsStay
<1>2. Shows(AtList, type')
    BY DEF AtList, Screen, NoRoles, Roles, Shows
<1>3. CASE UNCHANGED tab
    BY <1>1, <1>3 DEF RolesInv, TabInv
<1>4. ASSUME NEW u \in Users, ToList(u) PROVE TabInv'
    BY <1>2, <1>4, ScreenChanges DEF ToList
<1>5. ASSUME NEW u \in Users, NEW c \in Chats, NEW S \in SUBSET (Users \ {u}), CreateGroup(u, c, S)
      PROVE  TabInv'
    <2> DEFINE s == [tab[u] EXCEPT !.pc = "enable", !.chat = c]
    <2>1. Shows(s, type')
        BY DEF RolesInv, TabInv, Screen, Shows
    <2>2. tab' = [tab EXCEPT ![u] = s]
        BY <1>5 DEF CreateGroup
    <2> QED
        BY <2>1, <2>2, ScreenChanges
<1>6. ASSUME NEW u \in Users, NEW c \in Chats, OpenInfo(u, c) PROVE TabInv'
    <2> DEFINE s == [pc |-> "info", chat |-> c, seen |-> role[c], op |-> {}]
    <2>1. type[c] # "none" /\ role[c] \in [Users -> Roles]
        BY <1>6 DEF OpenInfo, RolesInv, RowsInv, NoRoles
    <2>2. Shows(s, type')
        BY <1>1, <2>1 DEF Screen, Shows
    <2> QED
        BY <1>6, <2>2, ScreenChanges DEF OpenInfo
<1>7. ASSUME NEW u \in Users, NEW v \in Users, StartPrivate(u, v) PROVE TabInv'
    <2> DEFINE s == [tab[u] EXCEPT !.pc = "search", !.op = {Op("private", v, "none")}]
    <2>1. Op("private", v, "none") \in Operation
        BY DEF Op, Operation, Names, Roles
    <2>2. Shows(s, type')
        BY <2>1 DEF RolesInv, TabInv, Screen, Shows
    <2>3. tab' = [tab EXCEPT ![u] = s]
        BY <1>7 DEF StartPrivate
    <2> QED
        BY <2>2, <2>3, ScreenChanges
<1>8. ASSUME NEW u \in Users, Submit(u) PROVE TabInv'
    <2>1. PICK o \in Offered(u) : tab' = [tab EXCEPT ![u].pc = "sent", ![u].op = {o}]
        BY <1>8 DEF Submit
    <2>2. o \in Operation /\ o.name # "private" /\ (o.name = "setRole" => o.to # "none")
        BY DEF Offered, Op, Operation, Names, Roles
    <2> DEFINE s == [tab[u] EXCEPT !.pc = "sent", !.op = {o}]
    <2>3. tab[u].pc = "info"
        BY <1>8 DEF Submit
    <2>4. Shows(s, type')
        BY <1>1, <2>2, <2>3 DEF RolesInv, TabInv, Screen, Shows
    <2>5. tab' = [tab EXCEPT ![u] = s]
        BY <2>1
    <2> QED
        BY <2>4, <2>5, ScreenChanges
<1>9. ASSUME NEW u \in Users, Check(u) PROVE TabInv'
    <2> DEFINE passed == [tab[u] EXCEPT !.pc = "passed"]
               refused == [tab[u] EXCEPT !.pc = "info", !.op = {}]
    <2>1. tab[u].pc = "sent"
        BY <1>9 DEF Check
    <2>2. Shows(passed, type')
        BY <1>1, <2>1 DEF RolesInv, TabInv, Screen, Shows
    <2>3. Shows(refused, type')
        BY <1>1, <2>1 DEF RolesInv, TabInv, Screen, Shows
    <2>4. tab' = [tab EXCEPT ![u] = passed] \/ tab' = [tab EXCEPT ![u] = refused]
        BY <1>9 DEF Check, Goto
    <2> QED
        BY <2>2, <2>3, <2>4, ScreenChanges
<1>10. ASSUME NEW u \in Users, Commit(u) PROVE TabInv'
    <2> DEFINE s == [tab[u] EXCEPT !.pc = "reload", !.op = {}]
    <2>1. tab[u].pc = "passed"
        BY <1>10 DEF Commit
    <2>2. Shows(s, type')
        BY <1>1, <2>1 DEF RolesInv, TabInv, Screen, Shows
    <2>3. tab' = [tab EXCEPT ![u].pc = "reload", ![u].op = {}] \/ ToList(u)
        BY <1>10, Zenon DEF Commit
    <2>4. tab' = [tab EXCEPT ![u] = s] \/ ToList(u)
        BY <2>3
    <2> QED
        BY <1>4, <2>2, <2>4, ScreenChanges
<1>11. ASSUME NEW u \in Users, Reload(u) PROVE TabInv'
    <2> DEFINE c == tab[u].chat
               s == [tab[u] EXCEPT !.pc = "info", !.seen = IF role[c][u] = "none" THEN @ ELSE role[c]]
    <2>1. tab[u].pc = "reload"
        BY <1>11 DEF Reload
    <2>2. c \in Chats /\ type[c] # "none"
        BY <2>1 DEF RolesInv, TabInv
    <2>3. role[c] \in [Users -> Roles]
        BY <2>2 DEF RolesInv, RowsInv
    <2>4. Shows(s, type')
        BY <1>1, <2>1, <2>2, <2>3 DEF RolesInv, TabInv, Screen, Shows
    <2>5. tab' = [tab EXCEPT ![u] = s]
        BY <1>11 DEF Reload
    <2> QED
        BY <2>4, <2>5, ScreenChanges
<1>12. ASSUME NEW u \in Users, Search(u) PROVE TabInv'
    <2> DEFINE s == [tab[u] EXCEPT !.pc = "create"]
    <2>1. Shows(s, type')
        BY <1>1 DEF RolesInv, TabInv, Screen, Shows
    <2>2. tab' = [tab EXCEPT ![u] = s] \/ ToList(u)
        BY <1>12 DEF Search, Goto
    <2> QED
        BY <1>4, <2>1, <2>2, ScreenChanges
<1> QED
    BY <1>3, <1>4, <1>5, <1>6, <1>7, <1>8, <1>9, <1>10, <1>11, <1>12
       DEF Next, vars, CreateChannel, Enable, EnableRefused, CreatePrivate, Back

----------------------------------------------------------------------------
(* A commit of the endpoints is a step of the ledger, or changes no membership. *)
LEMMA CommitRefinesLedger ==
    ASSUME RolesInv, NEW u \in Users, Commit(u)
    PROVE  Ledger!Next \/ UNCHANGED Ledger!vars
<1>1. PICK c \in Chats, o \in Operation :
              /\ type[c] # "none"
              /\ o.name # "private" /\ (o.name = "setRole" => o.to # "none")
              /\ role' = [role EXCEPT ![c][o.who] = Granted(c, o)]
              /\ current' = [current EXCEPT ![c] = IF Rotates(c, o) THEN @ + 1 ELSE @]
              /\ joinedAt' = [joinedAt EXCEPT ![c][o.who] =
                                IF o.name \in {"remove", "leave"} THEN 0
                                ELSE IF o.name = "add" /\ Rotates(c, o) THEN current[c] + 1 ELSE @]
              /\ UNCHANGED type
    BY CommitWrites
<1> DEFINE R == IF Rotates(c, o) THEN {c} ELSE {}
<1>2. o.who \in Users /\ o.name \in {"leave", "remove", "setRole", "add"}
    BY <1>1 DEF Operation, Names
<1>3. /\ role \in [Chats -> [Users -> Roles]] /\ current \in [Chats -> Nat]
      /\ joinedAt \in [Chats -> [Users -> Nat]]
    BY DEF RolesInv, RowsInv
<1>4. Ledger!Advance(R) /\ R \in {{}, {c}}
    BY <1>1, <1>3 DEF Ledger!Advance
<1>5. o.name # "setRole" /\ c \in Encrypted => R = {c}
    BY <1>3 DEF RolesInv, RowsInv, Rotates
<1>6. CASE o.name \in {"remove", "leave"}
    <2>1. [b \in Chats |-> Members(b)]' = [[b \in Chats |-> Members(b)] EXCEPT ![c] = @ \ {o.who}]
        BY <1>1, <1>2, <1>3, <1>6 DEF Members, Granted
    <2>2. Ledger!Stamp(c, {o.who}, 0)
        BY <1>1, <1>2, <1>3, <1>6 DEF Ledger!Stamp
    <2>3. Ledger!RemoveMembers(c, {o.who})
        BY <1>4, <1>5, <1>6, <2>1, <2>2 DEF Ledger!RemoveMembers
    <2> QED
        BY <1>2, <2>3 DEF Ledger!Next
<1>7. CASE o.name = "add"
    <2>1. [b \in Chats |-> Members(b)]' = [[b \in Chats |-> Members(b)] EXCEPT ![c] = @ \cup {o.who}]
        BY <1>1, <1>2, <1>3, <1>7 DEF Members, Granted
    <2>2. Rotates(c, o) <=> R # {}
        OBVIOUS
    <2>3. ~Rotates(c, o) => joinedAt[c][o.who] = 0
        BY <1>2, <1>3, <1>7 DEF Rotates, RolesInv, RowsInv
    <2>4. Ledger!Stamp(c, {o.who}, IF R = {} THEN 0 ELSE current[c] + 1)
        BY <1>1, <1>2, <1>3, <1>7, <2>2, <2>3 DEF Ledger!Stamp
    <2>5. Ledger!AddMembers(c, {o.who})
        BY <1>4, <1>5, <1>7, <2>1, <2>4 DEF Ledger!AddMembers
    <2> QED
        BY <1>2, <2>5 DEF Ledger!Next
<1>8. CASE o.name = "setRole"
    <2>1. [b \in Chats |-> Members(b)]' = [b \in Chats |-> Members(b)]
        BY <1>1, <1>2, <1>3, <1>8 DEF Members, Granted
    <2>2. UNCHANGED <<joinedAt, current>>
        BY <1>1, <1>2, <1>3, <1>8 DEF Rotates
    <2> QED
        BY <2>1, <2>2 DEF Ledger!vars
<1> QED
    BY <1>2, <1>6, <1>7, <1>8

(* Founding a chat is an addition to a chat of nobody. *)
LEMMA FoundRefinesLedger ==
    ASSUME RolesInv, NEW u \in Users, NEW c \in Chats, NEW S \in SUBSET (Users \ {u}),
           NEW kind \in {"group", "channel"}, Found(u, c, S, kind)
    PROVE  Ledger!AddMembers(c, S \cup {u})
<1>1. /\ role \in [Chats -> [Users -> Roles]] /\ current \in [Chats -> Nat]
      /\ joinedAt \in [Chats -> [Users -> Nat]]
      /\ role[c] = NoRoles /\ current[c] = 0 /\ c \notin Encrypted
      /\ \A v \in Users : joinedAt[c][v] = 0
    BY DEF RolesInv, RowsInv, Found
<1>2. [b \in Chats |-> Members(b)]' = [[b \in Chats |-> Members(b)] EXCEPT ![c] = @ \cup (S \cup {u})]
    BY <1>1 DEF Found, Members, Founded, NoRoles
<1>3. Ledger!Advance({}) /\ Ledger!Stamp(c, S \cup {u}, 0)
    BY <1>1 DEF Found, Ledger!Advance, Ledger!Stamp
<1> QED
    BY <1>1, <1>2, <1>3 DEF Ledger!AddMembers

(* So is the creation of a private chat.                                                         *)
LEMMA PrivateRefinesLedger ==
    ASSUME RolesInv, NEW u \in Users, NEW c \in Chats, CreatePrivate(u, c)
    PROVE  \E v \in Users : Ledger!AddMembers(c, {u, v})
<1>1. PICK o \in tab[u].op :
         role' = [role EXCEPT ![c] = [x \in Users |-> IF x \in {u, o.who} THEN "member" ELSE "none"]]
    BY DEF CreatePrivate
<1>2. o.who \in Users
    BY <1>1 DEF RolesInv, TabInv, Screen, Operation
<1>3. /\ role \in [Chats -> [Users -> Roles]] /\ current \in [Chats -> Nat]
      /\ joinedAt \in [Chats -> [Users -> Nat]]
      /\ role[c] = NoRoles /\ current[c] = 0 /\ c \notin Encrypted
      /\ \A v \in Users : joinedAt[c][v] = 0
    BY DEF RolesInv, RowsInv, CreatePrivate
<1>4. [b \in Chats |-> Members(b)]' = [[b \in Chats |-> Members(b)] EXCEPT ![c] = @ \cup {u, o.who}]
    BY <1>1, <1>2, <1>3 DEF Members, NoRoles
<1>5. Ledger!Advance({}) /\ Ledger!Stamp(c, {u, o.who}, 0)
    BY <1>3 DEF CreatePrivate, Ledger!Advance, Ledger!Stamp
<1> QED
    BY <1>2, <1>3, <1>4, <1>5 DEF Ledger!AddMembers

(* Enabling encryption opens the first epoch.                                                    *)
LEMMA EnableRefinesLedger ==
    ASSUME RolesInv, NEW u \in Users, NEW c \in Chats, Enable(u, c)
    PROVE  Ledger!Rotate({c})
<1>1. current \in [Chats -> Nat] /\ current[c] = 0
    BY DEF RolesInv, RowsInv, Enable, MayEnable
<1>2. current' = [current EXCEPT ![c] = 1]
    BY DEF Enable
<1>3. current' = [b \in Chats |-> IF b \in {c} THEN current[b] + 1 ELSE current[b]]
    <2>1. \A b \in Chats : current'[b] = IF b \in {c} THEN current[b] + 1 ELSE current[b]
        BY <1>1, <1>2
    <2>2. current' \in [Chats -> Nat]
        BY <1>1, <1>2
    <2> QED
        BY <2>1, <2>2
<1>4. Ledger!Advance({c})
    BY <1>3 DEF Ledger!Advance
<1>5. UNCHANGED [b \in Chats |-> Members(b)]
    BY DEF Enable, Members
<1> QED
    BY <1>4, <1>5 DEF Enable, Ledger!Rotate

(* Every step of the endpoints and their screens is a step of the ledger or leaves it alone. *)
LEMMA StepRefinesLedger ==
    ASSUME RolesInv, [Next]_vars
    PROVE  [Ledger!Next]_(Ledger!vars)
<1>1. CASE UNCHANGED <<role, joinedAt, current>>
    BY <1>1 DEF Ledger!vars, Members
<1>2. ASSUME NEW u \in Users, NEW c \in Chats, NEW S \in SUBSET (Users \ {u}),
             CreateGroup(u, c, S) \/ CreateChannel(u, c, S)
      PROVE  Ledger!Next
    <2>1. Ledger!AddMembers(c, S \cup {u})
        BY <1>2, FoundRefinesLedger DEF CreateGroup, CreateChannel
    <2> QED
        BY <2>1 DEF Ledger!Next
<1>3. ASSUME NEW u \in Users, NEW c \in Chats, CreatePrivate(u, c) PROVE Ledger!Next
    <2>1. PICK v \in Users : Ledger!AddMembers(c, {u, v})
        BY <1>3, PrivateRefinesLedger
    <2> QED
        BY <2>1 DEF Ledger!Next
<1>4. ASSUME NEW u \in Users, NEW c \in Chats, Enable(u, c) PROVE Ledger!Next
    <2>1. Ledger!Rotate({c})
        BY <1>4, EnableRefinesLedger
    <2> QED
        BY <2>1 DEF Ledger!Next
<1>5. ASSUME NEW u \in Users, Commit(u) PROVE Ledger!Next \/ UNCHANGED Ledger!vars
    BY <1>5, CommitRefinesLedger
<1>6. ASSUME NEW u \in Users,
             \/ \E c \in Chats : OpenInfo(u, c)
             \/ \E v \in Users : StartPrivate(u, v)
             \/ EnableRefused(u) \/ Search(u) \/ Submit(u) \/ Back(u) \/ Check(u) \/ Reload(u)
      PROVE  UNCHANGED <<role, joinedAt, current>>
    BY <1>6 DEF rows, OpenInfo, StartPrivate, EnableRefused, Search, Submit, Back, Check, Reload
<1>7. CASE UNCHANGED vars
    BY <1>1, <1>7 DEF vars
<1> QED
    BY <1>1, <1>2, <1>3, <1>4, <1>5, <1>6, <1>7 DEF Next

(* The first states are the ledger's.                                                            *)
LEMMA InitRefinesLedger == Init => Ledger!Init
<1> SUFFICES ASSUME Init PROVE Ledger!Init
    OBVIOUS
<1>1. [c \in Chats |-> Members(c)] \in [Chats -> SUBSET Users]
    BY DEF Members
<1> QED
    BY <1>1 DEF Init, Ledger!Init

(* Whatever stale screens submit and however the requests interleave, the endpoints change the  *)
(* membership of one chat at a time and move an encrypted chat to its next epoch in the same    *)
(* step: ChatRoles implements EpochLedger (chat_services.py:335-404).                           *)
THEOREM RolesImplementLedger == Spec => ImplementsLedger
<1>1. Init => RolesInv
    BY RolesInit
<1>2. RolesInv /\ [Next]_vars => RolesInv'
    BY RowsStep, TabStep DEF RolesInv
<1>3. RolesInv /\ [Next]_vars => [Ledger!Next]_(Ledger!vars)
    BY StepRefinesLedger
<1>4. Init => Ledger!Init
    BY InitRefinesLedger
<1> QED
    BY <1>1, <1>2, <1>3, <1>4, PTL DEF Spec, ImplementsLedger, Ledger!Spec

----------------------------------------------------------------------------
(* Who owns a chat never changes: what a tab waits for leaves the owner and private chats alone. *)
Fits(u) ==
    /\ tab[u].pc \in {"search", "create"} => \E o : tab[u].op = {o} /\ o.who # u
    /\ tab[u].pc = "sent" => \E o : tab[u].op = {o} /\ (o.name = "leave" => o.who = u)
    /\ tab[u].pc = "passed" =>
          \A o \in tab[u].op : /\ type[tab[u].chat] # "private"
                               /\ o.name # "add" => role[tab[u].chat][o.who] # "owner"
                               /\ o.name = "setRole" => o.to # "owner"

OneOwner(c) == \E x \in Users : \A y \in Users : role[c][y] = "owner" <=> y = x
Pair(c) == \E x, y \in Users : x # y /\ role[c] = [v \in Users |-> IF v \in {x, y} THEN "member" ELSE "none"]

OwnersInv ==
    /\ \A c \in Chats : (type[c] \in {"group", "channel"} => OneOwner(c)) /\ (type[c] = "private" => Pair(c))
    /\ \A u \in Users : Fits(u)

(* A chat that exists keeps its kind, and no step makes or unmakes an owner or touches a private *)
(* chat.                                                                                         *)
OwnersStay ==
    \A c \in Chats : type[c] # "none" =>
       /\ type'[c] = type[c]
       /\ \A x \in Users : role'[c][x] = "owner" <=> role[c][x] = "owner"
       /\ type[c] = "private" => role'[c] = role[c]

(* The encrypted groups of the first state have one owner.                                       *)
LEMMA OwnersInit == Init => OwnersInv
<1> SUFFICES ASSUME Init PROVE OwnersInv
    OBVIOUS
<1>1. \A u \in Users : Fits(u)
    BY DEF Init, Fits, AtList
<1>2. ASSUME NEW c \in Encrypted PROVE OneOwner(c)
    <2>1. PICK f \in [Encrypted -> [Users -> Roles]] :
             Cardinality({u \in Users : f[c][u] = "owner"}) = 1 /\ role[c] = f[c]
        BY <1>2, ChatRolesAssumption DEF Init
    <2>2. IsFiniteSet({u \in Users : f[c][u] = "owner"})
        BY ChatRolesAssumption, FS_Subset
    <2>3. PICK x : {u \in Users : f[c][u] = "owner"} = {x}
        BY <2>1, <2>2, FS_Singleton
    <2> QED
        BY <2>1, <2>3 DEF OneOwner
<1> QED
    BY <1>1, <1>2 DEF Init, OwnersInv

(* What a request commits, it was allowed to do by a check that still holds. *)
LEMMA CommitKeepsOwners ==
    ASSUME RolesInv, OwnersInv, NEW u \in Users, Commit(u)
    PROVE  OwnersStay
<1> DEFINE c == tab[u].chat
<1>1. c \in Chats /\ tab[u].op \in SUBSET Operation
    BY DEF RolesInv, TabInv, Screen, Commit
<1>2. PICK o \in tab[u].op : role' = [role EXCEPT ![c][o.who] = Granted(c, o)]
    BY DEF Commit
<1>3. /\ type[c] # "private" /\ o.name # "private"
      /\ o.name # "add" => role[c][o.who] # "owner"
      /\ o.name = "setRole" => o.to # "owner"
    BY <1>2 DEF OwnersInv, Fits, RolesInv, TabInv, Commit
<1>4. o.who \in Users /\ o.name \in {"leave", "remove", "setRole", "add"}
    BY <1>1, <1>2, <1>3 DEF Operation, Names
<1>5. Granted(c, o) = "owner" <=> role[c][o.who] = "owner"
    <2>1. CASE o.name \in {"remove", "leave"}
        BY <1>3, <2>1 DEF Granted
    <2>2. CASE o.name = "add"
        BY <2>2 DEF Granted
    <2>3. CASE o.name = "setRole"
        BY <1>3, <2>3 DEF Granted
    <2> QED
        BY <1>4, <2>1, <2>2, <2>3
<1> QED
    BY <1>1, <1>2, <1>3, <1>4, <1>5 DEF OwnersStay, RolesInv, RowsInv, Commit

(* No other step touches an owner or a private chat either.                                      *)
LEMMA NextKeepsOwners ==
    ASSUME RolesInv, OwnersInv, [Next]_vars
    PROVE  OwnersStay
<1>1. ASSUME NEW u \in Users, NEW c \in Chats, NEW S \in SUBSET (Users \ {u}),
             CreateGroup(u, c, S) \/ CreateChannel(u, c, S)
      PROVE  OwnersStay
    BY <1>1 DEF CreateGroup, CreateChannel, Found, OwnersStay, RolesInv, RowsInv
<1>2. ASSUME NEW u \in Users, NEW c \in Chats, CreatePrivate(u, c) PROVE OwnersStay
    BY <1>2 DEF CreatePrivate, OwnersStay, RolesInv, RowsInv
<1>3. ASSUME NEW u \in Users, Commit(u) PROVE OwnersStay
    BY <1>3, CommitKeepsOwners
<1>4. CASE UNCHANGED <<type, role>>
    BY <1>4 DEF OwnersStay
<1> QED
    BY <1>1, <1>2, <1>3, <1>4
       DEF Next, vars, rows, Enable, EnableRefused, StartPrivate, Search, OpenInfo, Submit, Back, Check, Reload

(* A new chat has its creator for its owner, or two plain members. *)
LEMMA NewChats ==
    ASSUME RolesInv, OwnersInv, [Next]_vars, NEW c \in Chats, type[c] = "none", type'[c] # "none"
    PROVE  (type'[c] \in {"group", "channel"} => OneOwner(c)') /\ (type'[c] = "private" => Pair(c)')
<1>1. ASSUME NEW u \in Users, NEW b \in Chats, NEW S \in SUBSET (Users \ {u}), NEW kind \in {"group", "channel"},
             Found(u, b, S, kind)
      PROVE  type'[c] \in {"group", "channel"} /\ OneOwner(c)'
    <2>1. b = c /\ type'[c] = kind /\ role'[c] = Founded(u, S)
        BY <1>1 DEF Found, RolesInv, RowsInv
    <2> QED
        BY <2>1 DEF OneOwner, Founded
<1>2. ASSUME NEW u \in Users, NEW b \in Chats, CreatePrivate(u, b)
      PROVE  type'[c] = "private" /\ Pair(c)'
    <2>1. b = c /\ type'[c] = "private"
        BY <1>2 DEF CreatePrivate, RolesInv, RowsInv
    <2>2. PICK o \in tab[u].op :
             role' = [role EXCEPT ![b] = [x \in Users |-> IF x \in {u, o.who} THEN "member" ELSE "none"]]
        BY <1>2 DEF CreatePrivate
    <2>3. o.who \in Users /\ o.who # u
        BY <1>2, <2>2 DEF RolesInv, TabInv, Screen, Operation, OwnersInv, Fits, CreatePrivate
    <2>4. role'[c] = [x \in Users |-> IF x \in {u, o.who} THEN "member" ELSE "none"]
        BY <2>1, <2>2 DEF RolesInv, RowsInv
    <2> QED
        BY <2>1, <2>3, <2>4 DEF Pair
<1>3. ASSUME NEW u \in Users, NEW b \in Chats, NEW S \in SUBSET (Users \ {u}),
             CreateGroup(u, b, S) \/ CreateChannel(u, b, S)
      PROVE  type'[c] \in {"group", "channel"} /\ OneOwner(c)'
    BY <1>1, <1>3 DEF CreateGroup, CreateChannel
<1>4. type' # type
    OBVIOUS
<1> QED
    BY <1>2, <1>3, <1>4
       DEF Next, vars, rows, Enable, EnableRefused, StartPrivate, Search, OpenInfo, Submit, Back, Check, Commit,
           Reload

(* A tab that did not move still fits, whatever the others committed. *)
LEMMA StillFits ==
    ASSUME RolesInv, OwnersInv, OwnersStay, NEW v \in Users, tab'[v] = tab[v]
    PROVE  Fits(v)'
<1>1. CASE tab[v].pc = "passed"
    <2> DEFINE c == tab[v].chat
    <2>1. c \in Chats /\ type[c] # "none" /\ tab[v].op \in SUBSET Operation
        BY <1>1 DEF RolesInv, TabInv, Screen
    <2>2. \A o \in tab[v].op : o.who \in Users
        BY <2>1 DEF Operation
    <2> QED
        BY <1>1, <2>1, <2>2 DEF OwnersInv, OwnersStay, Fits
<1>2. CASE tab[v].pc # "passed"
    BY <1>2 DEF OwnersInv, Fits
<1> QED
    BY <1>1, <1>2

(* What a check allows, fits. *)
LEMMA CheckFits ==
    ASSUME RolesInv, OwnersInv, NEW u \in Users, Check(u)
    PROVE  Fits(u)'
<1> DEFINE c == tab[u].chat
<1>1. PICK o : tab[u].op = {o} /\ (o.name = "leave" => o.who = u)
    BY DEF OwnersInv, Fits, Check
<1>2. /\ c \in Chats /\ type[c] # "none" /\ o \in Operation
      /\ o.name \in {"leave", "remove", "setRole", "add"} /\ o.who \in Users
    BY <1>1 DEF RolesInv, TabInv, Screen, Operation, Names, Check
<1>3. tab \in [Users -> Screen]
    BY DEF RolesInv, TabInv
<1>4. CASE ~Allowed(u, c, o)
    <2>1. tab' = [tab EXCEPT ![u].pc = "info", ![u].op = {}]
        BY <1>1, <1>4 DEF Check
    <2>2. tab'[u].pc = "info"
        BY <1>3, <2>1 DEF Screen
    <2> QED
        BY <2>2 DEF Fits
<1>5. CASE Allowed(u, c, o)
    <2>1. tab' = [tab EXCEPT ![u].pc = "passed"] /\ UNCHANGED <<type, role>>
        BY <1>1, <1>5 DEF Check, Goto, rows
    <2>2. tab'[u].pc = "passed" /\ tab'[u].op = {o} /\ tab'[u].chat = c
        BY <1>1, <1>3, <2>1 DEF Screen
    <2>3. role[c] \in [Users -> Roles]
        BY <1>2 DEF RolesInv, RowsInv
    <2>4. ASSUME type[c] = "private" PROVE \A x \in Users : role[c][x] \in {"none", "member"}
        <3>1. Pair(c)
            BY <1>2, <2>4 DEF OwnersInv
        <3>2. PICK x, y \in Users : role[c] = [v \in Users |-> IF v \in {x, y} THEN "member" ELSE "none"]
            BY <3>1 DEF Pair
        <3> QED
            BY <3>2
    <2>5. o.name \in {"remove", "add", "leave"} => type[c] # "private"
        BY <1>5 DEF Allowed, MayLeave
    <2>6. o.name = "setRole" => type[c] # "private" /\ o.to # "owner" /\ role[c][o.who] # "owner"
        <3> SUFFICES ASSUME o.name = "setRole"
                     PROVE  type[c] # "private" /\ o.to # "owner" /\ role[c][o.who] # "owner"
            OBVIOUS
        <3>1. role[c][u] = "owner" /\ o.to # "owner" /\ o.who # u
            BY <1>5 DEF Allowed
        <3>2. type[c] # "private"
            BY <2>4, <3>1
        <3>3. OneOwner(c)
            BY <1>2, <3>2 DEF OwnersInv, RolesInv, RowsInv
        <3> QED
            BY <1>2, <3>1, <3>2, <3>3 DEF OneOwner
    <2>7. o.name = "leave" => role[c][o.who] # "owner"
        BY <1>1, <1>5 DEF Allowed, MayLeave
    <2>8. o.name = "remove" => role[c][o.who] # "owner"
        BY <1>2, <1>5, <2>3 DEF Allowed, Rank, Roles
    <2> QED
        BY <1>2, <2>1, <2>2, <2>5, <2>6, <2>7, <2>8 DEF Fits
<1> QED
    BY <1>4, <1>5

(* Every tab fits after every step. *)
LEMMA FitsStep ==
    ASSUME RolesInv, OwnersInv, [Next]_vars
    PROVE  \A v \in Users : Fits(v)'
<1>1. tab \in [Users -> Screen]
    BY DEF RolesInv, TabInv
<1>2. \A v \in Users : tab'[v] = tab[v] => Fits(v)'
    BY StillFits, NextKeepsOwners
<1>3. \A v \in Users : tab'[v].pc \notin {"search", "create", "sent", "passed"} => Fits(v)'
    BY DEF Fits
<1>4. CASE UNCHANGED tab
    BY <1>2, <1>4
<1>5. ASSUME NEW u \in Users, ToList(u) PROVE \A v \in Users : Fits(v)'
    BY <1>1, <1>2, <1>3, <1>5 DEF ToList, AtList
<1>6. ASSUME NEW u \in Users, NEW c \in Chats, NEW S \in SUBSET (Users \ {u}), CreateGroup(u, c, S)
      PROVE  \A v \in Users : Fits(v)'
    <2>1. tab'[u].pc = "enable" /\ \A v \in Users \ {u} : tab'[v] = tab[v]
        BY <1>1, <1>6 DEF CreateGroup, Screen
    <2> QED
        BY <1>2, <1>3, <2>1
<1>7. ASSUME NEW u \in Users, NEW c \in Chats, OpenInfo(u, c) PROVE \A v \in Users : Fits(v)'
    <2>1. tab'[u].pc = "info" /\ \A v \in Users \ {u} : tab'[v] = tab[v]
        BY <1>1, <1>7 DEF OpenInfo
    <2> QED
        BY <1>2, <1>3, <2>1
<1>8. ASSUME NEW u \in Users, NEW w \in Users, StartPrivate(u, w) PROVE \A v \in Users : Fits(v)'
    <2>1. /\ tab'[u].pc = "search" /\ tab'[u].op = {Op("private", w, "none")}
          /\ \A v \in Users \ {u} : tab'[v] = tab[v]
        BY <1>1, <1>8 DEF StartPrivate, Screen
    <2>2. u # w /\ \A o \in tab'[u].op : o.who = w
        <3>1. Op("private", w, "none").who = w
            BY DEF Op
        <3>2. u # w
            BY <1>8 DEF StartPrivate
        <3> QED
            BY <2>1, <3>1, <3>2
    <2>3. Fits(u)'
        BY <2>1, <2>2 DEF Fits
    <2> QED
        BY <1>2, <2>1, <2>3
<1>9. ASSUME NEW u \in Users, Submit(u) PROVE \A v \in Users : Fits(v)'
    <2>1. PICK o \in Offered(u) : tab' = [tab EXCEPT ![u].pc = "sent", ![u].op = {o}]
        BY <1>9 DEF Submit
    <2>2. /\ tab'[u].pc = "sent" /\ tab'[u].op = {o}
          /\ \A v \in Users \ {u} : tab'[v] = tab[v]
        BY <1>1, <2>1 DEF Screen
    <2>3. o.name = "leave" => o.who = u
        BY DEF Offered, Op
    <2>4. Fits(u)'
        BY <2>2, <2>3 DEF Fits
    <2> QED
        BY <1>2, <2>2, <2>4
<1>10. ASSUME NEW u \in Users, Check(u) PROVE \A v \in Users : Fits(v)'
    <2>1. \A v \in Users \ {u} : tab'[v] = tab[v]
        BY <1>1, <1>10 DEF Check, Goto
    <2> QED
        BY <1>2, <1>10, <2>1, CheckFits
<1>11. ASSUME NEW u \in Users, Commit(u) PROVE \A v \in Users : Fits(v)'
    <2>1. tab' = [tab EXCEPT ![u].pc = "reload", ![u].op = {}] \/ ToList(u)
        BY <1>11, Zenon DEF Commit
    <2>2. CASE tab' = [tab EXCEPT ![u].pc = "reload", ![u].op = {}]
        <3>1. tab'[u].pc = "reload" /\ \A v \in Users \ {u} : tab'[v] = tab[v]
            BY <1>1, <2>2 DEF Screen
        <3> QED
            BY <1>2, <1>3, <3>1
    <2> QED
        BY <1>5, <2>1, <2>2
<1>12. ASSUME NEW u \in Users, Reload(u) PROVE \A v \in Users : Fits(v)'
    <2>1. tab'[u].pc = "info" /\ \A v \in Users \ {u} : tab'[v] = tab[v]
        BY <1>1, <1>12 DEF Reload, Screen
    <2> QED
        BY <1>2, <1>3, <2>1
<1>13. ASSUME NEW u \in Users, Search(u) PROVE \A v \in Users : Fits(v)'
    <2>1. Goto(u, "create") \/ ToList(u)
        BY <1>13 DEF Search
    <2>2. CASE Goto(u, "create")
        <3>1. /\ tab'[u].pc = "create" /\ tab'[u].op = tab[u].op
              /\ \A v \in Users \ {u} : tab'[v] = tab[v]
            BY <1>1, <2>2 DEF Goto, Screen
        <3>2. Fits(u)'
            BY <1>13, <3>1 DEF Search, OwnersInv, Fits
        <3> QED
            BY <1>2, <3>1, <3>2
    <2> QED
        BY <1>5, <2>1, <2>2
<1> QED
    BY <1>4, <1>5, <1>6, <1>7, <1>8, <1>9, <1>10, <1>11, <1>12, <1>13
       DEF Next, vars, CreateChannel, Enable, EnableRefused, CreatePrivate, Back

(* The invariant of the owners is kept.                                                          *)
LEMMA OwnersStep ==
    ASSUME RolesInv, OwnersInv, [Next]_vars
    PROVE  OwnersInv'
<1>1. OwnersStay
    BY NextKeepsOwners
<1>2. ASSUME NEW c \in Chats
      PROVE  (type'[c] \in {"group", "channel"} => OneOwner(c)') /\ (type'[c] = "private" => Pair(c)')
    <2>1. CASE type[c] # "none"
        BY <1>1, <2>1 DEF OwnersInv, OwnersStay, OneOwner, Pair
    <2>2. CASE type[c] = "none"
        BY <2>2, NewChats
    <2> QED
        BY <2>1, <2>2
<1> QED
    BY <1>2, FitsStep DEF OwnersInv

(* An owner is one, and two members are two. *)
LEMMA OwnersCounted ==
    ASSUME OwnersInv
    PROVE  Hierarchy
<1>1. ASSUME NEW c \in Chats, type[c] \in {"group", "channel"}
      PROVE  Cardinality({u \in Users : role[c][u] = "owner"}) = 1
    <2>1. PICK x \in Users : \A y \in Users : role[c][y] = "owner" <=> y = x
        BY <1>1 DEF OwnersInv, OneOwner
    <2>2. {u \in Users : role[c][u] = "owner"} = {x}
        BY <2>1
    <2> QED
        BY <2>2, FS_Singleton
<1>2. ASSUME NEW c \in Chats, type[c] = "private"
      PROVE  Cardinality(Members(c)) = 2 /\ \A u \in Members(c) : role[c][u] = "member"
    <2>1. PICK x, y \in Users :
             x # y /\ role[c] = [v \in Users |-> IF v \in {x, y} THEN "member" ELSE "none"]
        BY <1>2 DEF OwnersInv, Pair
    <2>2. Members(c) = {x} \cup {y}
        BY <2>1 DEF Members
    <2>3. IsFiniteSet({x}) /\ Cardinality({x}) = 1 /\ y \notin {x}
        BY <2>1, FS_Singleton
    <2>5. Cardinality({x} \cup {y}) = Cardinality({x}) + 1
        BY ONLY <2>3, FS_AddElement
    <2>6. Cardinality({x} \cup {y}) = 2
        BY <2>3, <2>5
    <2>4. \A u \in Members(c) : role[c][u] = "member"
        BY <2>1, <2>2
    <2> QED
        BY <2>2, <2>4, <2>6
<1> QED
    BY <1>1, <1>2 DEF Hierarchy

(* A group or a channel has exactly one owner and a private chat its two plain members at all   *)
(* times, for any number of users whose screens and checks are stale (chat_routes.py:145-282).  *)
THEOREM HierarchyHolds == Spec => []Hierarchy
<1>1. Init => RolesInv /\ OwnersInv
    BY RolesInit, OwnersInit
<1>2. RolesInv /\ OwnersInv /\ [Next]_vars => (RolesInv /\ OwnersInv)'
    BY RowsStep, TabStep, OwnersStep DEF RolesInv
<1>3. OwnersInv => Hierarchy
    BY OwnersCounted
<1> QED
    BY <1>1, <1>2, <1>3, PTL DEF Spec

----------------------------------------------------------------------------
(* Unless two creations overlapped, whoever is about to create a private chat has none yet. *)
MeetInv ==
    overlapped \/
       /\ \A u, v \in Users : \A c, d \in Between(u, v) : c = d
       /\ \A u \in Users : tab[u].pc = "create" => \A o \in tab[u].op : Between(u, o.who) = {}

(* A private chat that joins the chats of two people is a new one. *)
LEMMA BetweenIsNew ==
    ASSUME RolesInv, OwnersInv, [Next]_vars, NEW u \in Users, NEW v \in Users,
           NEW c \in Chats, c \in Between(u, v)', c \notin Between(u, v)
    PROVE  type[c] = "none" /\ type'[c] = "private"
<1>1. type[c] # "none" => type'[c] = type[c] /\ (type[c] = "private" => role'[c] = role[c])
    BY NextKeepsOwners DEF OwnersStay
<1> QED
    BY <1>1 DEF Between, Members

(* A step that creates no private chat and completes no search. *)
LEMMA MeetKept ==
    ASSUME RolesInv, OwnersInv, MeetInv, [Next]_vars,
           \A c \in Chats : type[c] = "none" => type'[c] # "private",
           \A u \in Users : tab'[u].pc = "create" => tab'[u] = tab[u],
           UNCHANGED overlapped
    PROVE  MeetInv'
<1>1. \A u, v \in Users : Between(u, v)' \subseteq Between(u, v)
    BY BetweenIsNew DEF Between
<1>2. \A u \in Users : tab'[u].pc = "create" => \A o \in tab'[u].op : o.who \in Users
    BY DEF RolesInv, TabInv, Screen, Operation
<1> QED
    BY <1>1, <1>2 DEF MeetInv

(* A search that finds nothing may go on to create; one that finds a chat may not.               *)
LEMMA SearchMeets ==
    ASSUME RolesInv, OwnersInv, MeetInv, NEW u \in Users, Search(u)
    PROVE  MeetInv'
<1>1. PICK o : tab[u].op = {o}
    BY DEF OwnersInv, Fits, Search
<1>2. UNCHANGED <<type, role, overlapped>>
    BY DEF Search, rows
<1>3. \A x, y : Between(x, y)' = Between(x, y)
    BY <1>2 DEF Between, Members
<1>4. tab \in [Users -> Screen]
    BY DEF RolesInv, TabInv
<1>5. CASE Met(u, o.who) = {}
    <2>1. Goto(u, "create")
        BY <1>1, <1>5 DEF Search
    <2>2. tab'[u].op = {o} /\ \A x \in Users \ {u} : tab'[x] = tab[x]
        BY <1>1, <1>4, <2>1 DEF Goto, Screen
    <2> QED
        BY <1>2, <1>3, <1>5, <2>2 DEF MeetInv, Met
<1>6. CASE Met(u, o.who) # {}
    <2>1. ToList(u)
        BY <1>1, <1>6 DEF Search
    <2>2. tab'[u].pc = "list" /\ \A x \in Users \ {u} : tab'[x] = tab[x]
        BY <1>4, <2>1 DEF ToList, AtList
    <2> QED
        BY <1>2, <1>3, <2>2 DEF MeetInv
<1> QED
    BY <1>5, <1>6

(* A second chat of the pair is only created while the other one is creating too.                *)
LEMMA CreateMeets ==
    ASSUME RolesInv, OwnersInv, MeetInv, [Next]_vars, NEW u \in Users, NEW b \in Chats, CreatePrivate(u, b)
    PROVE  MeetInv'
<1>1. PICK o \in tab[u].op :
         /\ role' = [role EXCEPT ![b] = [x \in Users |-> IF x \in {u, o.who} THEN "member" ELSE "none"]]
         /\ overlapped' = (overlapped \/ \E p \in tab[o.who].op : tab[o.who].pc = "create" /\ p.who = u)
    BY DEF CreatePrivate
<1>2. o.who \in Users /\ o.who # u /\ tab[u].pc = "create" /\ type[b] = "none"
    BY <1>1 DEF RolesInv, TabInv, Screen, Operation, OwnersInv, Fits, CreatePrivate
<1>3. tab'[u].pc = "list" /\ \A x \in Users \ {u} : tab'[x] = tab[x]
    BY DEF CreatePrivate, ToList, AtList, RolesInv, TabInv
<1> SUFFICES ASSUME ~overlapped'
             PROVE  /\ \A x, y \in Users : \A c, d \in Between(x, y)' : c = d
                    /\ \A x \in Users : tab'[x].pc = "create" => \A p \in tab'[x].op : Between(x, p.who)' = {}
    BY DEF MeetInv
<1>4. ~overlapped /\ ~\E p \in tab[o.who].op : tab[o.who].pc = "create" /\ p.who = u
    BY <1>1, Zenon
<1>5. Members(b)' = {u, o.who}
    BY <1>1, <1>2 DEF Members, RolesInv, RowsInv
<1>6. ASSUME NEW x \in Users, NEW y \in Users, NEW c \in Between(x, y)', c \notin Between(x, y)
      PROVE  c = b /\ {x, y} = {u, o.who} /\ Between(x, y) = Between(u, o.who)
    <2>1. c \in Chats /\ Members(c)' = {x, y}
        BY <1>6 DEF Between
    <2>2. type[c] = "none" /\ type'[c] = "private"
        BY <1>6, <2>1, BetweenIsNew
    <2>3. c = b
        BY <2>2 DEF CreatePrivate, RolesInv, RowsInv
    <2> QED
        BY <1>5, <2>1, <2>3 DEF Between
<1>7. Between(u, o.who) = {}
    BY <1>1, <1>2, <1>4 DEF MeetInv
<1>8. \A x, y \in Users : \A c, d \in Between(x, y)' : c = d
    <2> SUFFICES ASSUME NEW x \in Users, NEW y \in Users,
                        NEW c \in Between(x, y)', NEW d \in Between(x, y)'
                 PROVE  c = d
        OBVIOUS
    <2>1. c \in Between(x, y) /\ d \in Between(x, y) => c = d
        BY <1>4 DEF MeetInv
    <2> QED
        BY <1>6, <1>7, <2>1
<1>9. ASSUME NEW x \in Users, tab'[x].pc = "create", NEW p \in tab'[x].op
      PROVE  Between(x, p.who)' = {}
    <2>1. x # u /\ tab'[x] = tab[x]
        BY <1>3, <1>9
    <2>2. p.who \in Users
        BY <1>9, <2>1 DEF RolesInv, TabInv, Screen, Operation
    <2>3. Between(x, p.who) = {}
        BY <1>4, <1>9, <2>1 DEF MeetInv
    <2>4. {x, p.who} # {u, o.who}
        BY <1>2, <1>4, <1>9, <2>1
    <2> QED
        BY <1>6, <2>2, <2>3, <2>4
<1> QED
    BY <1>8, <1>9

(* No other step brings two people a second chat.                                                *)
LEMMA MeetStep ==
    ASSUME RolesInv, OwnersInv, MeetInv, [Next]_vars
    PROVE  MeetInv'
<1>1. tab \in [Users -> Screen]
    BY DEF RolesInv, TabInv
<1>2. ASSUME NEW u \in Users, Search(u) PROVE MeetInv'
    BY <1>2, SearchMeets
<1>3. ASSUME NEW u \in Users, NEW b \in Chats, CreatePrivate(u, b) PROVE MeetInv'
    BY <1>3, CreateMeets
<1>4. ASSUME NEW u \in Users, NEW c \in Chats, NEW S \in SUBSET (Users \ {u}),
             CreateGroup(u, c, S) \/ CreateChannel(u, c, S)
      PROVE  MeetInv'
    <2>1. \A b \in Chats : type[b] = "none" => type'[b] # "private"
        BY <1>4 DEF CreateGroup, CreateChannel, Found, RolesInv, RowsInv
    <2>2. UNCHANGED overlapped
        BY <1>4 DEF CreateGroup, CreateChannel, Found
    <2>3. \A x \in Users : tab'[x].pc = "create" => tab'[x] = tab[x]
        BY <1>1, <1>4 DEF CreateGroup, CreateChannel, Screen
    <2> QED
        BY <2>1, <2>2, <2>3, MeetKept
<1>5. CASE UNCHANGED vars
    BY <1>5, MeetKept DEF vars
<1>6. ASSUME UNCHANGED type, UNCHANGED overlapped,
             \A x \in Users : tab'[x].pc = "create" => tab'[x] = tab[x]
      PROVE  MeetInv'
    <2>1. \A c \in Chats : type[c] = "none" => type'[c] # "private"
        BY <1>6
    <2> QED
        BY <1>6, <2>1, MeetKept
<1>7. ASSUME NEW u \in Users, ToList(u), UNCHANGED type, UNCHANGED overlapped PROVE MeetInv'
    <2>1. \A x \in Users : tab'[x].pc = "create" => tab'[x] = tab[x]
        BY <1>1, <1>7 DEF ToList, AtList
    <2> QED
        BY <1>6, <1>7, <2>1
<1>8. ASSUME NEW u \in Users, (\E c \in Chats : Enable(u, c)) \/ EnableRefused(u) \/ Back(u) PROVE MeetInv'
    BY <1>7, <1>8 DEF Enable, EnableRefused, Back, rows
<1>9. ASSUME NEW u \in Users, NEW c \in Chats, OpenInfo(u, c) PROVE MeetInv'
    <2>1. tab'[u].pc = "info" /\ \A x \in Users \ {u} : tab'[x] = tab[x]
        BY <1>1, <1>9 DEF OpenInfo
    <2> QED
        BY <1>6, <1>9, <2>1 DEF OpenInfo, rows
<1>10. ASSUME NEW u \in Users, NEW w \in Users, StartPrivate(u, w) PROVE MeetInv'
    <2>1. tab'[u].pc = "search" /\ \A x \in Users \ {u} : tab'[x] = tab[x]
        BY <1>1, <1>10 DEF StartPrivate, Screen
    <2> QED
        BY <1>6, <1>10, <2>1 DEF StartPrivate, rows
<1>11. ASSUME NEW u \in Users, Submit(u) PROVE MeetInv'
    <2>1. tab'[u].pc = "sent" /\ \A x \in Users \ {u} : tab'[x] = tab[x]
        BY <1>1, <1>11 DEF Submit, Screen
    <2> QED
        BY <1>6, <1>11, <2>1 DEF Submit, rows
<1>12. ASSUME NEW u \in Users, Check(u) PROVE MeetInv'
    <2>1. tab' = [tab EXCEPT ![u].pc = "passed"] \/ tab' = [tab EXCEPT ![u].pc = "info", ![u].op = {}]
        BY <1>12 DEF Check, Goto
    <2>2. tab'[u].pc # "create" /\ \A x \in Users \ {u} : tab'[x] = tab[x]
        BY <1>1, <2>1 DEF Screen
    <2> QED
        BY <1>6, <1>12, <2>2 DEF Check, rows
<1>13. ASSUME NEW u \in Users, Commit(u) PROVE MeetInv'
    <2>1. tab' = [tab EXCEPT ![u].pc = "reload", ![u].op = {}] \/ ToList(u)
        BY <1>13, Zenon DEF Commit
    <2>2. UNCHANGED type /\ UNCHANGED overlapped
        BY <1>13 DEF Commit
    <2>3. CASE tab' = [tab EXCEPT ![u].pc = "reload", ![u].op = {}]
        <3>1. tab'[u].pc = "reload" /\ \A x \in Users \ {u} : tab'[x] = tab[x]
            BY <1>1, <2>3 DEF Screen
        <3> QED
            BY <1>6, <2>2, <3>1
    <2> QED
        BY <1>7, <2>1, <2>2, <2>3
<1>14. ASSUME NEW u \in Users, Reload(u) PROVE MeetInv'
    <2>1. tab'[u].pc = "info" /\ \A x \in Users \ {u} : tab'[x] = tab[x]
        BY <1>1, <1>14 DEF Reload, Screen
    <2> QED
        BY <1>6, <1>14, <2>1 DEF Reload, rows
<1> QED
    BY <1>2, <1>3, <1>4, <1>5, <1>8, <1>9, <1>10, <1>11, <1>12, <1>13, <1>14 DEF Next

(* More than one chat are two different ones. *)
LEMMA ManyAreTwo ==
    ASSUME NEW S, \A c, d \in S : c = d
    PROVE  ~(Cardinality(S) > 1)
<1>1. CASE S = {}
    BY <1>1, FS_EmptySet
<1>2. CASE S # {}
    <2>1. PICK c : S = {c}
        BY <1>2
    <2> QED
        BY <2>1, FS_Singleton
<1> QED
    BY <1>1, <1>2

(* Two people who did not both create their chat at the same moment have one, however often and *)
(* in whichever order they start it (chat_services.py:18-68).                                   *)
THEOREM PrivateChatsAreOne == Spec => []PrivateChatOnce
<1>1. Init => RolesInv /\ OwnersInv /\ MeetInv
    <2>1. Init => MeetInv
        BY DEF Init, MeetInv, Between, AtList
    <2> QED
        BY <2>1, RolesInit, OwnersInit
<1>2. RolesInv /\ OwnersInv /\ MeetInv /\ [Next]_vars => (RolesInv /\ OwnersInv /\ MeetInv)'
    BY RowsStep, TabStep, OwnersStep, MeetStep DEF RolesInv
<1>3. MeetInv => PrivateChatOnce
    BY ManyAreTwo DEF MeetInv, PrivateChatOnce
<1> QED
    BY <1>1, <1>2, <1>3, PTL DEF Spec
----------------------------------------------------------------------------
(* Type correctness.                                                       *)

(* A screen that asks for something asks for one thing, the others for nothing. *)
AsksOne(s) ==
    IF s.pc \in {"search", "create", "sent", "passed"} THEN \E o : s.op = {o} ELSE s.op = {}

AskInv ==
    /\ requests \in 0..MaxRequests /\ overlapped \in BOOLEAN
    /\ \A u \in Users : AsksOne(tab[u])

(* A step that changes one screen leaves the others to their requests. *)
LEMMA OneScreenAsks ==
    ASSUME RolesInv, AskInv, NEW u \in Users, NEW s, AsksOne(s), tab' = [tab EXCEPT ![u] = s],
           requests' \in 0..MaxRequests, overlapped' \in BOOLEAN
    PROVE  AskInv'
<1>1. tab'[u] = s /\ \A v \in Users \ {u} : tab'[v] = tab[v]
    BY DEF RolesInv, TabInv
<1>2. \A v \in Users : AsksOne(tab'[v])
    BY <1>1 DEF AskInv
<1> QED
    BY <1>2 DEF AskInv

(* Whether creations overlapped is a truth value. *)
LEMMA OverlapIsBoolean ==
    ASSUME AskInv, NEW u \in Users, NEW c \in Chats, CreatePrivate(u, c)
    PROVE  overlapped' \in BOOLEAN
<1>1. PICK o \in tab[u].op :
         overlapped' = (overlapped \/ \E p \in tab[o.who].op : tab[o.who].pc = "create" /\ p.who = u)
    BY Zenon DEF CreatePrivate
<1> QED
    BY <1>1, Zenon

(* Every action leaves a screen with one request, or none. *)
LEMMA AskStep ==
    ASSUME RolesInv, AskInv, [Next]_vars
    PROVE  AskInv'
<1> MaxRequests \in Nat
    BY ChatRolesAssumption
<1>1. requests \in 0..MaxRequests /\ overlapped \in BOOLEAN /\ \A u \in Users : AsksOne(tab[u]) /\ tab[u] \in Screen
    BY DEF AskInv, RolesInv, TabInv
<1>2. AsksOne(AtList)
    BY DEF AsksOne, AtList
<1>3. requests' \in 0..MaxRequests \/ ~Requested
    BY <1>1 DEF Requested
<1>4. CASE UNCHANGED <<tab, requests, overlapped>>
    BY <1>4 DEF AskInv
<1>5. ASSUME NEW u \in Users, ToList(u), UNCHANGED requests, overlapped' \in BOOLEAN PROVE AskInv'
    BY <1>1, <1>2, <1>5, OneScreenAsks DEF ToList
<1>6. ASSUME NEW u \in Users, NEW c \in Chats, NEW S \in SUBSET (Users \ {u}), CreateGroup(u, c, S)
      PROVE  AskInv'
    <2> DEFINE s == [tab[u] EXCEPT !.pc = "enable", !.chat = c]
    <2>1. tab[u].pc = "list" /\ Requested /\ overlapped' = overlapped /\ tab' = [tab EXCEPT ![u] = s]
        BY <1>6 DEF CreateGroup, Found
    <2>2. AsksOne(s)
        BY <1>1, <2>1 DEF AsksOne, Screen
    <2> HIDE DEF s
    <2> QED
        BY <1>1, <1>3, <2>1, <2>2, OneScreenAsks
<1>7. ASSUME NEW u \in Users, NEW c \in Chats, NEW S \in SUBSET (Users \ {u}), CreateChannel(u, c, S)
      PROVE  AskInv'
    <2>1. Requested /\ overlapped' = overlapped /\ tab' = tab
        BY <1>7 DEF CreateChannel, Found
    <2> QED
        BY <1>1, <1>3, <2>1 DEF AskInv
<1>8. ASSUME NEW u \in Users, NEW c \in Chats, OpenInfo(u, c) PROVE AskInv'
    <2> DEFINE s == [pc |-> "info", chat |-> c, seen |-> role[c], op |-> {}]
    <2>1. AsksOne(s)
        BY DEF AsksOne
    <2>2. Requested /\ overlapped' = overlapped /\ tab' = [tab EXCEPT ![u] = s]
        BY <1>8 DEF OpenInfo
    <2> HIDE DEF s
    <2> QED
        BY <1>1, <1>3, <2>1, <2>2, OneScreenAsks
<1>9. ASSUME NEW u \in Users, NEW v \in Users, StartPrivate(u, v) PROVE AskInv'
    <2> DEFINE s == [tab[u] EXCEPT !.pc = "search", !.op = {Op("private", v, "none")}]
    <2>1. AsksOne(s)
        BY <1>1 DEF AsksOne, Screen
    <2>2. Requested /\ overlapped' = overlapped /\ tab' = [tab EXCEPT ![u] = s]
        BY <1>9 DEF StartPrivate
    <2> HIDE DEF s
    <2> QED
        BY <1>1, <1>3, <2>1, <2>2, OneScreenAsks
<1>10. ASSUME NEW u \in Users, Submit(u) PROVE AskInv'
    <2>1. PICK o \in Offered(u) : tab' = [tab EXCEPT ![u].pc = "sent", ![u].op = {o}]
        BY <1>10 DEF Submit
    <2> DEFINE s == [tab[u] EXCEPT !.pc = "sent", !.op = {o}]
    <2>2. AsksOne(s)
        BY <1>1 DEF AsksOne, Screen
    <2>3. Requested /\ overlapped' = overlapped /\ tab' = [tab EXCEPT ![u] = s]
        BY <1>10, <2>1 DEF Submit
    <2> HIDE DEF s
    <2> QED
        BY <1>1, <1>3, <2>2, <2>3, OneScreenAsks
<1>11. ASSUME NEW u \in Users, Search(u) PROVE AskInv'
    <2> DEFINE s == [tab[u] EXCEPT !.pc = "create"]
    <2>1. tab[u].pc = "search" /\ UNCHANGED <<requests, overlapped>>
        BY <1>11 DEF Search
    <2>2. AsksOne(s)
        BY <1>1, <2>1 DEF AsksOne, Screen
    <2>3. tab' = [tab EXCEPT ![u] = s] \/ ToList(u)
        BY <1>11 DEF Search, Goto
    <2> HIDE DEF s
    <2> QED
        BY <1>1, <1>5, <2>1, <2>2, <2>3, OneScreenAsks
<1>12. ASSUME NEW u \in Users, Check(u) PROVE AskInv'
    <2> DEFINE passed == [tab[u] EXCEPT !.pc = "passed"]
               refused == [tab[u] EXCEPT !.pc = "info", !.op = {}]
    <2>1. tab[u].pc = "sent" /\ UNCHANGED <<requests, overlapped>>
        BY <1>12 DEF Check
    <2>2. AsksOne(passed) /\ AsksOne(refused)
        BY <1>1, <2>1 DEF AsksOne, Screen
    <2>3. tab' = [tab EXCEPT ![u] = passed] \/ tab' = [tab EXCEPT ![u] = refused]
        BY <1>12 DEF Check, Goto
    <2> HIDE DEF passed, refused
    <2> QED
        BY <1>1, <2>1, <2>2, <2>3, OneScreenAsks
<1>13. ASSUME NEW u \in Users, Commit(u) PROVE AskInv'
    <2> DEFINE s == [tab[u] EXCEPT !.pc = "reload", !.op = {}]
    <2>1. UNCHANGED <<requests, overlapped>>
        BY <1>13 DEF Commit
    <2>2. AsksOne(s)
        BY <1>1 DEF AsksOne, Screen
    <2>3. tab' = [tab EXCEPT ![u].pc = "reload", ![u].op = {}] \/ ToList(u)
        BY <1>13, Zenon DEF Commit
    <2>4. tab' = [tab EXCEPT ![u] = s] \/ ToList(u)
        BY <2>3
    <2> HIDE DEF s
    <2> QED
        BY <1>1, <1>5, <2>1, <2>2, <2>4, OneScreenAsks
<1>14. ASSUME NEW u \in Users, Reload(u) PROVE AskInv'
    <2> DEFINE c == tab[u].chat
               s == [tab[u] EXCEPT !.pc = "info", !.seen = IF role[c][u] = "none" THEN @ ELSE role[c]]
    <2>1. tab[u].pc = "reload" /\ UNCHANGED <<requests, overlapped>> /\ tab' = [tab EXCEPT ![u] = s]
        BY <1>14 DEF Reload
    <2>2. AsksOne(s)
        BY <1>1, <2>1 DEF AsksOne, Screen
    <2> HIDE DEF s
    <2> QED
        BY <1>1, <2>1, <2>2, OneScreenAsks
<1>15. ASSUME NEW u \in Users, NEW c \in Chats, CreatePrivate(u, c) PROVE AskInv'
    BY <1>1, <1>5, <1>15, OverlapIsBoolean DEF CreatePrivate
<1>16. ASSUME NEW u \in Users, \/ \E c \in Chats : Enable(u, c)
                               \/ EnableRefused(u) \/ Back(u)
       PROVE  AskInv'
    BY <1>1, <1>5, <1>16 DEF Enable, EnableRefused, Back
<1> QED
    BY <1>4, <1>6, <1>7, <1>8, <1>9, <1>10, <1>11, <1>12, <1>13, <1>14, <1>15, <1>16 DEF Next, vars

(* A screen that asks for one thing has one operation, which is what the type says. *)
LEMMA AsksAreCounted == RolesInv /\ AskInv => TypeOK
<1> SUFFICES ASSUME RolesInv, AskInv PROVE TypeOK
    OBVIOUS
<1>1. ASSUME NEW s, AsksOne(s)
      PROVE  Cardinality(s.op) = (IF s.pc \in {"search", "create", "sent", "passed"} THEN 1 ELSE 0)
    BY <1>1, FS_EmptySet, FS_Singleton DEF AsksOne
<1>2. \A u \in Users : tab[u] \in Screen /\ AsksOne(tab[u])
    BY DEF RolesInv, TabInv, AskInv
<1>3. \A u \in Users :
          Cardinality(tab[u].op) = (IF tab[u].pc \in {"search", "create", "sent", "passed"} THEN 1 ELSE 0)
    BY <1>1, <1>2
<1> QED
    BY <1>2, <1>3 DEF TypeOK, RolesInv, RowsInv, AskInv, Screen

(* RolesWellTyped: every reachable state is well typed, and a screen waits for at most the one   *)
(* operation its user submitted, whatever the endpoints answer.                                  *)
THEOREM RolesWellTyped == Spec => []TypeOK
<1>1. Init => RolesInv /\ AskInv
    <2>1. Init => AskInv
        <3> SUFFICES ASSUME Init PROVE AskInv
            OBVIOUS
        <3>1. requests \in 0..MaxRequests
            BY ChatRolesAssumption DEF Init
        <3>2. overlapped \in BOOLEAN
            BY Zenon DEF Init
        <3>3. \A u \in Users : tab[u] = AtList
            BY DEF Init
        <3>4. AsksOne(AtList)
            BY DEF AsksOne, AtList
        <3> QED
            BY <3>1, <3>3, <3>4, <3>2 DEF AskInv
    <2> QED
        BY <2>1, RolesInit
<1>2. RolesInv /\ AskInv /\ [Next]_vars => (RolesInv /\ AskInv)'
    BY RowsStep, TabStep, AskStep DEF RolesInv
<1> QED
    BY <1>1, <1>2, AsksAreCounted, PTL DEF Spec
==============================================================================
