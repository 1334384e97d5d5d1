--------------------------- MODULE AccountsProofs ---------------------------
(***************************************************************************)
(* Proofs about Accounts, for any number of tabs, devices and passwords    *)
(* and for any bounds.                                                     *)
(***************************************************************************)
EXTENDS AccountsProps, FiniteSetTheorems, TLAPS

Publishing == {"publish", "insert"}

(* A key pair is in one row or on its way into one.  The rows of a device are numbered from 1   *)
(* without gaps, and only the newest is active.                                                 *)
Apart(K) ==
    /\ \A k, l \in K : k.pair = l.pair => k = l
    /\ \A k, l \in K : k.device = l.device /\ k.version = l.version => k = l

Numbered(K) ==
    \A k \in K :
        /\ \A v \in 1..k.version : \E l \in K : l.device = k.device /\ l.version = v
        /\ k.active => \A l \in K : l.device = k.device => l.version <= k.version

PairsOnce ==
    /\ \A k \in keys : k.pair <= pairs
    /\ \A t, u \in Tabs :
         tab[t].pc \in Publishing /\ tab[u].pc \in Publishing /\ tab[t].pair = tab[u].pair => t = u

(* Rows are never deleted: what an operation has read is superseded at most.  And a row that is *)
(* read under the password in force, and stored before the change, holds its own pair.          *)
SeenByInsert(t, seen) == \A s \in seen :
    s.device = browser[t] /\ \E k \in keys : k.device = s.device /\ k.version = s.version

SeenByChange(seen) == \A s \in seen :
    /\ \E k \in keys : k.device = s.device /\ k.pair = s.pair
    /\ s.pair \notin astray => s.bundle.pair = s.pair
    /\ \A r \in seen : r.device = s.device => r = s

(* What rewrap_private_bundles has selected: of the keys listed before, those still active; and *)
(* rows of the devices sent.                                                                    *)
Selected(r) ==
    /\ \A k \in keys : k.active /\ (\E s \in r.seen : s.pair = k.pair) => k.pair \in r.rows
    /\ \A p \in r.rows : \E k \in keys : k.pair = p /\ \E s \in r.seen : s.device = k.device

(* What an operation that has come to its pc goes by. *)
Fits(t, r) ==
    /\ r.pc \in Publishing =>
         stage # "none" /\ r.pair \in 1..pairs /\ \A k \in keys : k.pair # r.pair
    /\ r.pc = "insert" => SeenByInsert(t, r.seen)
    /\ r.pc \in {"change", "write", "rewrap"} => SeenByChange(r.seen)
    /\ r.pc = "rewrap" => Selected(r)
    /\ r.pc \in {"register", "list", "fetch", "publish", "insert"} => r.typed \in Passwords
    /\ r.pc \in {"relist", "change", "write", "rewrap"} => r.next \in Passwords
    /\ r.pc \in {"otp", "burn", "reset"} => r.code \in 1..minted

TabsFit == \A t \in Tabs : Fits(t, tab[t])

CodesOnce ==
    /\ \A kind \in Kinds : codes[kind] <= minted
    /\ spent \subseteq 1..minted
    /\ codes["reset"] \notin spent

KeysInv ==
    /\ TypeOK
    /\ Apart(keys) /\ Numbered(keys) /\ PairsOnce
    /\ stage = "none" => keys = {}
    /\ TabsFit /\ CodesOnce
    /\ PasswordOpensTheKeys

----------------------------------------------------------------------------
(* Rows of keys.                                                           *)

(* An update in place that reactivates nothing keeps the history of a device. *)
LEMMA MappedRows ==
    ASSUME NEW K, NEW M, NEW f, Apart(K), Numbered(K),
           \A k \in K : /\ f[k] \in M
                        /\ f[k].device = k.device /\ f[k].version = k.version /\ f[k].pair = k.pair
                        /\ f[k].active => k.active,
           \A m \in M : \E k \in K : m = f[k]
    PROVE  Apart(M) /\ Numbered(M)
<1>1. Apart(M)
  <2>1. ASSUME NEW k \in K, NEW l \in K,
               f[k].pair = f[l].pair \/ (f[k].device = f[l].device /\ f[k].version = f[l].version)
        PROVE  f[k] = f[l]
    BY <2>1 DEF Apart
  <2> QED BY <2>1 DEF Apart
<1>2. Numbered(M)
  <2>1. ASSUME NEW k \in K, NEW v \in 1..f[k].version
        PROVE  \E m \in M : m.device = f[k].device /\ m.version = v
    <3>1. PICK l \in K : l.device = k.device /\ l.version = v
      BY <2>1 DEF Numbered
    <3>2. f[l] \in M
      OBVIOUS
    <3> QED BY <3>1, <3>2
  <2>2. ASSUME NEW k \in K, f[k].active, NEW l \in K, f[l].device = f[k].device
        PROVE  f[l].version <= f[k].version
    BY <2>2 DEF Numbered
  <2> QED BY <2>1, <2>2 DEF Numbered
<1> QED BY <1>1, <1>2

(* The row that comes next on its device keeps it too. *)
LEMMA NextRow ==
    ASSUME NEW K, NEW n, Apart(K), Numbered(K), n.version \in Nat \ {0},
           \A k \in K : k.version \in Nat \ {0} /\ k.pair # n.pair,
           \A k \in K : k.device = n.device => k.version # n.version /\ ~k.active,
           n.version = 1 \/ \E k \in K : k.device = n.device /\ k.version = n.version - 1
    PROVE  Apart(K \cup {n}) /\ Numbered(K \cup {n})
<1>1. Apart(K \cup {n})
  BY DEF Apart
<1>2. \A k \in K : k.device = n.device => k.version < n.version
  <2> SUFFICES ASSUME NEW k \in K, k.device = n.device, k.version > n.version PROVE FALSE
    OBVIOUS
  <2>1. n.version \in 1..k.version
    OBVIOUS
  <2> QED BY <2>1 DEF Numbered
<1>3. ASSUME NEW v \in 1..n.version
      PROVE  \E l \in K \cup {n} : l.device = n.device /\ l.version = v
  <2>1. CASE v = n.version
    BY <2>1
  <2>2. CASE v # n.version
    <3>1. PICK k \in K : k.device = n.device /\ k.version = n.version - 1
      BY <2>2
    <3>2. v \in 1..k.version
      BY <2>2, <3>1
    <3> QED BY <3>1, <3>2 DEF Numbered
  <2> QED BY <2>1, <2>2
<1>4. Numbered(K \cup {n})
  BY <1>2, <1>3 DEF Numbered
<1> QED BY <1>1, <1>4

(* The numbers of finitely many rows of one device are those from 1 to their count. *)
LEMMA CountedRows ==
    ASSUME NEW S, IsFiniteSet(S), \A k \in S : k.version \in Nat \ {0},
           \A k, l \in S : k.version = l.version => k = l,
           \A k \in S : \A v \in 1..k.version : \E l \in S : l.version = v
    PROVE  {k.version : k \in S} = 1..Cardinality(S)
<1> DEFINE V == {k.version : k \in S}
           n == Cardinality(S)
           f == [k \in S |-> k.version]
<1>1. n \in Nat
  BY FS_CardinalityType
<1>2. f \in Bijection(S, V)
  <2>1. f \in [S -> V] /\ \A k, l \in S : f[k] = f[l] => k = l
    OBVIOUS
  <2>2. \A v \in V : \E k \in S : f[k] = v
    OBVIOUS
  <2> QED BY <2>1, <2>2 DEF Bijection, Injection, IsInjective, Surjection
<1>3. IsFiniteSet(V) /\ Cardinality(V) = n
  BY <1>2, FS_Bijection DEF ExistsBijection
<1>4. IsFiniteSet(1..n) /\ Cardinality(1..n) = n
  <2>1. 1 \in Int /\ n \in Int /\ (1 > n => n = 0)
    BY <1>1
  <2> QED BY <1>1, <2>1, FS_Interval
<1>5. \A v \in V : 1..v \subseteq V
  OBVIOUS
<1>6. V \subseteq 1..n
  <2> SUFFICES ASSUME NEW v \in V, v > n PROVE FALSE
    BY <1>1
  <2>1. v \in Nat
    OBVIOUS
  <2>2. 1..(n + 1) \subseteq V
    BY <1>1, <1>5, <2>1
  <2>3. IsFiniteSet(1..(n + 1)) /\ Cardinality(1..(n + 1)) = n + 1
    <3>1. 1 \in Int /\ n + 1 \in Int /\ ~(1 > n + 1) /\ (n + 1) - 1 + 1 = n + 1
      BY <1>1
    <3> QED BY <3>1, FS_Interval
  <2>4. Cardinality(1..(n + 1)) <= Cardinality(V)
    BY <1>3, <2>2, FS_Subset
  <2> QED BY <1>1, <1>3, <2>3, <2>4
<1>7. V = 1..n
  BY <1>3, <1>4, <1>6, FS_Subset
<1> QED BY <1>7

(* Pairs bound the rows. *)
LEMMA FiniteRows ==
    ASSUME NEW S, NEW B, IsFiniteSet(B), \A k \in S : k.pair \in B,
           \A k, l \in S : k.pair = l.pair => k = l
    PROVE  IsFiniteSet(S) /\ Cardinality(S) <= Cardinality(B)
<1> DEFINE f == [k \in S |-> k.pair]
<1>1. f \in Injection(S, B)
  BY DEF Injection, IsInjective
<1> QED BY <1>1, FS_Injection

(* So the keys of a device are numbered without gaps or repeats, with the active one last. *)
LEMMA HistoryNumbered == KeysInv => IdentityHistory
<1> SUFFICES ASSUME KeysInv, NEW d \in Devices
             PROVE  /\ {k.version : k \in On(d, keys)} = 1..Cardinality(On(d, keys))
                    /\ \A k \in On(d, ActiveKeys) : k.version = Cardinality(On(d, keys))
  BY DEF IdentityHistory
<1> DEFINE S == On(d, keys)
           n == Cardinality(S)
<1>1. \A k \in S : /\ k \in keys /\ k.device = d
                   /\ k.version \in Nat \ {0} /\ k.pair \in 1..MaxPairs
  BY DEF On, KeysInv, TypeOK, KeyRow
<1>2. IsFiniteSet(1..MaxPairs)
  BY AccountsAssumption, FS_Interval
<1>3. IsFiniteSet(S)
  <2>1. \A k, l \in S : k.pair = l.pair => k = l
    BY <1>1 DEF KeysInv, Apart
  <2> QED BY <1>1, <1>2, <2>1, FiniteRows
<1>4. {k.version : k \in S} = 1..n
  <2>1. \A k, l \in S : k.version = l.version => k = l
    BY <1>1 DEF KeysInv, Apart
  <2>2. \A k \in S : \A v \in 1..k.version : \E l \in S : l.version = v
    BY <1>1 DEF KeysInv, Numbered, On
  <2> QED BY <1>1, <1>3, <2>1, <2>2, CountedRows
<1>5. n \in Nat
  BY <1>3, FS_CardinalityType
<1>6. ASSUME NEW k \in On(d, ActiveKeys) PROVE k.version = n
  <2>1. k \in S /\ k.active
    BY <1>6 DEF On, ActiveKeys
  <2>2. k.version \in 1..n
    BY <1>4, <2>1
  <2>3. n \in 1..n
    BY <1>5, <2>2
  <2>4. PICK l \in S : l.version = n
    BY <1>4, <2>3
  <2>5. l.version <= k.version
    BY <1>1, <2>1, <2>4 DEF KeysInv, Numbered
  <2> QED BY <1>5, <2>2, <2>4, <2>5
<1> QED BY <1>4, <1>6

----------------------------------------------------------------------------
(* Steps of a tab that leave the server alone.                             *)

(* A tab at rest is a tab. *)
LEMMA IdleType == Idle \in Tab /\ Idle.pc = "idle"
BY AccountsAssumption DEF Idle, Tab

(* Setting one field of a tab to a value of its type leaves a tab. *)
LEMMA TabFields ==
    ASSUME NEW r \in Tab
    PROVE  /\ \A x \in BOOLEAN : [r EXCEPT !.user = x] \in Tab
           /\ \A x \in 0..MaxPairs : [r EXCEPT !.key = x] \in Tab
           /\ \A x \in {"idle", "list", "relist", "change"} : [r EXCEPT !.pc = x] \in Tab
           /\ \A x \in Passwords : [r EXCEPT !.typed = x] \in Tab
           /\ \A x \in Passwords : [r EXCEPT !.next = x] \in Tab
BY DEF Tab

(* So does ending its operation. *)
LEMMA OverType ==
    ASSUME TypeOK, NEW t \in Tabs
    PROVE  /\ Over(t) \in Tab /\ Over(t).pc = "idle"
           /\ \A x \in 0..MaxPairs : [Over(t) EXCEPT !.key = x] \in Tab
           /\ \A x : [Over(t) EXCEPT !.key = x].pc = "idle"
<1>1. tab[t] \in Tab
  BY DEF TypeOK
<1> QED BY <1>1, IdleType DEF Over, Idle, Tab

(* A tab at rest goes by nothing. *)
LEMMA IdleFits == ASSUME NEW t, NEW r, r.pc = "idle" PROVE Fits(t, r)
BY DEF Fits, Publishing

(* A step of a tab that changes neither the rows nor the users keeps the invariant if the tab   *)
(* still fits what it goes by.                                                                  *)
LEMMA TabStep ==
    ASSUME KeysInv, NEW t \in Tabs, NEW r \in Tab, Become(t, r), Fits(t, r),
           r.pc \in Publishing => tab[t].pc \in Publishing /\ r.pair = tab[t].pair,
           UNCHANGED <<server, pairs, browser, spent, astray>>
    PROVE  KeysInv'
<1>1. /\ UNCHANGED <<stage, password, codes, minted, devices, keys, pairs, browser, spent, astray>>
      /\ tab' = [tab EXCEPT ![t] = r] /\ tab' \in [Tabs -> Tab]
  BY DEF server, Become, KeysInv, TypeOK
<1>2. TypeOK'
  BY <1>1 DEF KeysInv, TypeOK
<1>3. Apart(keys)' /\ Numbered(keys)' /\ PasswordOpensTheKeys' /\ CodesOnce' /\ (stage = "none" => keys = {})'
  BY <1>1 DEF KeysInv, Apart, Numbered, PasswordOpensTheKeys, ActiveKeys, CodesOnce
<1>4. tab'[t] = r /\ \A u \in Tabs : u # t => tab'[u] = tab[u]
  BY <1>1 DEF KeysInv, TypeOK
<1>5. PairsOnce'
  BY <1>1, <1>4 DEF KeysInv, PairsOnce
<1>6. TabsFit'
  <2>1. \A u \in Tabs : Fits(u, tab'[u])
    BY <1>4 DEF KeysInv, TabsFit
  <2> QED BY <1>1, <2>1 DEF TabsFit, Fits, SeenByInsert, SeenByChange, Selected
<1> QED BY <1>2, <1>3, <1>5, <1>6 DEF KeysInv

(* In particular one that ends its operation. *)
LEMMA TabRests ==
    ASSUME KeysInv, NEW t \in Tabs, NEW r \in Tab, r.pc = "idle", Become(t, r),
           UNCHANGED <<server, pairs, browser, spent, astray>>
    PROVE  KeysInv'
<1>1. Fits(t, r) /\ r.pc \notin Publishing
  BY IdleFits DEF Publishing
<1> QED BY <1>1, TabStep

(* Submitting a form: what the operation starts with fits. *)
LEMMA FormStep ==
    ASSUME KeysInv, NEW t \in Tabs, NEW p \in Passwords, Register(t, p) \/ Login(t, p) \/ Unlock(t, p)
    PROVE  KeysInv'
<1>1. tab[t] \in Tab /\ Fits(t, tab[t]) /\ TypeOK
  BY DEF KeysInv, TypeOK, TabsFit
<1>2. UNCHANGED <<server, pairs, browser, spent, astray>>
  BY DEF Register, Login, Unlock
<1>3. CASE Register(t, p)
  <2> DEFINE r == [Idle EXCEPT !.pc = "register", !.typed = p]
  <2>1. r \in Tab /\ r.pc = "register" /\ r.typed = p
    BY IdleType DEF Idle, Tab
  <2>2. Fits(t, r) /\ r.pc \notin Publishing
    BY <2>1 DEF Fits, Publishing
  <2> QED BY <1>2, <1>3, <2>1, <2>2, TabStep DEF Register
<1>4. CASE Login(t, p)
  <2>1. \A x \in BOOLEAN : [Idle EXCEPT !.user = x] \in Tab /\ [Idle EXCEPT !.user = x].pc = "idle"
    BY IdleType DEF Idle, Tab
  <2>2. \E x \in BOOLEAN : Become(t, [Idle EXCEPT !.user = x])
    BY <1>4 DEF Login
  <2> QED BY <1>2, <2>1, <2>2, TabRests
<1>5. CASE Unlock(t, p)
  <2> DEFINE r == [[Over(t) EXCEPT !.pc = "list"] EXCEPT !.typed = p]
  <2>1. r \in Tab
    BY <1>1, OverType, TabFields
  <2>2. r.pc = "list" /\ r.typed = p /\ r = [Over(t) EXCEPT !.pc = "list", !.typed = p]
    BY <1>1, OverType DEF Tab
  <2>3. Fits(t, r) /\ r.pc \notin Publishing
    BY <2>2 DEF Fits, Publishing
  <2> QED BY <1>2, <1>5, <2>1, <2>2, <2>3, TabStep DEF Unlock
<1> QED BY <1>3, <1>4, <1>5

(* The same for the password form of a signed-in user. *)
LEMMA ChangeFormStep ==
    ASSUME KeysInv, NEW t \in Tabs, NEW p \in Passwords, NEW q \in Passwords, StartChange(t, p, q)
    PROVE  KeysInv'
<1>1. tab[t] \in Tab /\ Fits(t, tab[t]) /\ TypeOK
  BY DEF KeysInv, TypeOK, TabsFit
<1>2. UNCHANGED <<server, pairs, browser, spent, astray>>
  BY DEF StartChange
<1> DEFINE r == [[[Over(t) EXCEPT !.pc = "relist"] EXCEPT !.typed = p] EXCEPT !.next = q]
<1>3. r \in Tab
  BY <1>1, OverType, TabFields
<1>4. /\ r.pc = "relist" /\ r.next = q
      /\ r = [Over(t) EXCEPT !.pc = "relist", !.typed = p, !.next = q]
  BY <1>1, OverType DEF Tab
<1>5. Fits(t, r) /\ r.pc \notin Publishing
  BY <1>4 DEF Fits, Publishing
<1> QED BY <1>2, <1>3, <1>4, <1>5, TabStep DEF StartChange

(* The same for the reset form, whose code the tab carries along. *)
LEMMA ResetFormStep ==
    ASSUME KeysInv, NEW t \in Tabs, NEW c \in 1..minted, NEW p \in Passwords, StartReset(t, c, p)
    PROVE  KeysInv'
<1>1. tab[t] \in Tab /\ Fits(t, tab[t]) /\ TypeOK
  BY DEF KeysInv, TypeOK, TabsFit
<1>2. UNCHANGED <<server, pairs, browser, spent, astray>>
  BY DEF StartReset
<1> DEFINE r == [Idle EXCEPT !.pc = "otp", !.code = c, !.next = p]
<1>3. c \in 0..MaxCodes
  BY <1>1, AccountsAssumption DEF TypeOK
<1>4. r \in Tab /\ r.pc = "otp" /\ r.code = c
  BY <1>3, IdleType DEF Idle, Tab
<1>5. Fits(t, r) /\ r.pc \notin Publishing
  BY <1>4 DEF Fits, Publishing
<1> QED BY <1>2, <1>4, <1>5, TabStep DEF StartReset

(* Signing out, reloading and failing: the operation is gone with what it held. *)
LEMMA LeaveSteps ==
    ASSUME KeysInv, NEW t \in Tabs, SignOut(t) \/ Reload(t) \/ Fails(t)
    PROVE  KeysInv'
<1>1. tab[t] \in Tab /\ Fits(t, tab[t]) /\ TypeOK
  BY DEF KeysInv, TypeOK, TabsFit
<1>2. UNCHANGED <<server, pairs, browser, spent, astray>>
  BY DEF SignOut, Reload, Fails
<1>3. CASE SignOut(t)
  <2> DEFINE r == [[tab[t] EXCEPT !.user = FALSE] EXCEPT !.key = 0]
  <2>1. r \in Tab
    <3>1. [tab[t] EXCEPT !.user = FALSE] \in Tab
      BY <1>1, TabFields
    <3>2. 0 \in 0..MaxPairs
      BY AccountsAssumption
    <3> QED BY <3>1, <3>2, TabFields
  <2>2. /\ r.pc = tab[t].pc /\ r.pair = tab[t].pair /\ r.seen = tab[t].seen
        /\ r.typed = tab[t].typed /\ r.next = tab[t].next /\ r.code = tab[t].code
        /\ r.rows = tab[t].rows
        /\ r = [tab[t] EXCEPT !.user = FALSE, !.key = 0]
    BY <1>1 DEF Tab
  <2>3. Fits(t, r)
    BY <1>1, <2>2 DEF Fits, Selected
  <2> QED BY <1>2, <1>3, <2>1, <2>2, <2>3, TabStep DEF SignOut
<1>4. CASE Reload(t)
  <2>1. \A x \in BOOLEAN : [Idle EXCEPT !.user = x] \in Tab /\ [Idle EXCEPT !.user = x].pc = "idle"
    BY IdleType DEF Idle, Tab
  <2>2. \E x \in BOOLEAN : Become(t, [Idle EXCEPT !.user = x])
    BY <1>4 DEF Reload
  <2> QED BY <1>2, <2>1, <2>2, TabRests
<1>5. CASE Fails(t)
  BY <1>1, <1>2, <1>5, OverType, TabRests DEF Fails, Finish
<1> QED BY <1>3, <1>4, <1>5

(* What Fetch takes from a bundle, and PublishRead and Rewrap from the rows. *)
LEMMA ReadSteps ==
    ASSUME KeysInv, NEW t \in Tabs,
           \/ Fetch(t) \/ PublishRead(t) \/ Published(t) \/ Rewrap(t) \/ VerifyOld(t) \/ CheckCode(t)
           \/ SelectBundles(t) \/ ResetKeys(t) \/ ResetDevices(t)
    PROVE  KeysInv'
<1>1. /\ tab[t] \in Tab /\ Fits(t, tab[t]) /\ TypeOK
      /\ keys \subseteq KeyRow /\ browser[t] \in Devices
  BY DEF KeysInv, TypeOK, TabsFit
<1>2. UNCHANGED <<server, pairs, browser, spent, astray>>
  BY DEF Fetch, PublishRead, Published, Rewrap, VerifyOld, CheckCode, SelectBundles, ResetKeys, ResetDevices
<1>3. ASSUME Finish(t) PROVE KeysInv'
  BY <1>1, <1>2, <1>3, OverType, TabRests DEF Finish
<1>4. ASSUME NEW x \in 0..MaxPairs, Become(t, [Over(t) EXCEPT !.key = x]) PROVE KeysInv'
  BY <1>1, <1>2, <1>4, OverType, TabRests
<1>5. CASE Fetch(t)
  <2>1. \A k \in ActiveKeys : k.bundle.pair \in 0..MaxPairs
    BY <1>1 DEF ActiveKeys, KeyRow, Bundle
  <2>2. \/ Finish(t)
        \/ \E k \in ActiveKeys : Become(t, [Over(t) EXCEPT !.key = k.bundle.pair])
    BY <1>5 DEF Fetch, On
  <2> QED BY <1>3, <1>4, <2>1, <2>2
<1>6. CASE PublishRead(t)
  <2> DEFINE r == [tab[t] EXCEPT !.pc = "insert", !.absent = devices[browser[t]] = "absent",
                                 !.seen = On(browser[t], ActiveKeys)]
  <2>1. On(browser[t], ActiveKeys) \in SUBSET KeyRow
    BY <1>1 DEF On, ActiveKeys
  <2>2. (devices[browser[t]] = "absent") \in BOOLEAN
    OBVIOUS
  <2>3. r \in Tab
    BY <1>1, <2>1, <2>2 DEF Tab
  <2>4. /\ r.pc = "insert" /\ r.pair = tab[t].pair /\ r.typed = tab[t].typed
        /\ r.seen = On(browser[t], ActiveKeys)
    BY <1>1 DEF Tab
  <2>5. tab[t].pc = "publish"
    BY <1>6 DEF PublishRead, At
  <2>6. Fits(t, r)
    <3>1. SeenByInsert(t, r.seen)
      BY <2>4 DEF SeenByInsert, On, ActiveKeys
    <3> QED BY <1>1, <2>4, <2>5, <3>1 DEF Fits, Publishing
  <2> QED BY <1>2, <1>6, <2>3, <2>4, <2>5, <2>6, TabStep DEF PublishRead, Publishing
<1>7. CASE Published(t)
  <2>1. tab[t].pair \in 0..MaxPairs
    BY <1>1 DEF Tab
  <2> QED BY <1>4, <1>7, <2>1 DEF Published
<1>8. CASE Rewrap(t)
  <2> DEFINE r == [tab[t] EXCEPT !.pc = "change", !.seen = ActiveKeys]
  <2>1. ActiveKeys \in SUBSET KeyRow
    BY <1>1 DEF ActiveKeys
  <2>2. r \in Tab /\ r.pc = "change" /\ r.next = tab[t].next /\ r.seen = ActiveKeys
    BY <1>1, <2>1 DEF Tab
  <2>3. SeenByChange(ActiveKeys)
    <3> SUFFICES ASSUME NEW s \in ActiveKeys
                 PROVE  /\ \E k \in keys : k.device = s.device /\ k.pair = s.pair
                        /\ s.pair \notin astray => s.bundle.pair = s.pair
                        /\ \A r1 \in ActiveKeys : r1.device = s.device => r1 = s
      BY DEF SeenByChange
    <3>1. s \in keys /\ s.active
      BY DEF ActiveKeys
    <3>2. s.pair \notin astray => s.bundle = [pair |-> s.pair, sealed |-> password]
      BY DEF KeysInv, PasswordOpensTheKeys
    <3>3. ASSUME NEW l \in ActiveKeys, l.device = s.device PROVE l = s
      <4>1. l \in keys /\ l.active
        BY DEF ActiveKeys
      <4>2. l.version <= s.version /\ s.version <= l.version
        BY <3>1, <3>3, <4>1 DEF KeysInv, Numbered
      <4>3. l.version = s.version
        BY <1>1, <3>1, <4>1, <4>2 DEF KeyRow
      <4> QED BY <3>1, <3>3, <4>1, <4>3 DEF KeysInv, Apart
    <3> QED BY <3>1, <3>2, <3>3
  <2>4. tab[t].pc = "relist"
    BY <1>8 DEF Rewrap, At
  <2>5. Fits(t, r) /\ r.pc \notin Publishing
    BY <1>1, <2>2, <2>3, <2>4 DEF Fits, Publishing
  <2> QED BY <1>2, <1>3, <1>8, <2>2, <2>5, TabStep DEF Rewrap
<1>9. CASE VerifyOld(t)
  <2> DEFINE r == [tab[t] EXCEPT !.pc = "write"]
  <2>1. /\ r \in Tab /\ r.pc = "write" /\ r.next = tab[t].next /\ r.seen = tab[t].seen
        /\ tab[t].pc = "change"
    BY <1>1, <1>9 DEF Tab, VerifyOld, At
  <2>2. Fits(t, r) /\ r.pc \notin Publishing
    BY <1>1, <2>1 DEF Fits, Publishing
  <2> QED BY <1>2, <1>3, <1>9, <2>1, <2>2, TabStep DEF VerifyOld
<1>10. CASE CheckCode(t)
  <2> DEFINE r == [tab[t] EXCEPT !.pc = "burn"]
  <2>1. r \in Tab /\ r.pc = "burn" /\ r.code = tab[t].code /\ tab[t].pc = "otp"
    BY <1>1, <1>10 DEF Tab, CheckCode, At
  <2>2. Fits(t, r) /\ r.pc \notin Publishing
    BY <1>1, <2>1 DEF Fits, Publishing
  <2> QED BY <1>2, <1>3, <1>10, <2>1, <2>2, TabStep DEF CheckCode
<1>11. CASE SelectBundles(t)
  <2> DEFINE r == [tab[t] EXCEPT !.pc = "rewrap",
                     !.rows = PairsOf({k \in ActiveKeys : k.device \in SentDevices(t)})]
  <2>1. PairsOf({k \in ActiveKeys : k.device \in SentDevices(t)}) \in SUBSET (1..MaxPairs)
    BY <1>1 DEF PairsOf, ActiveKeys, KeyRow
  <2>2. /\ r \in Tab /\ r.pc = "rewrap" /\ r.next = tab[t].next /\ r.seen = tab[t].seen
        /\ r.rows = PairsOf({k \in ActiveKeys : k.device \in SentDevices(t)})
        /\ tab[t].pc = "write" /\ SeenByChange(tab[t].seen)
    BY <1>1, <1>11, <2>1 DEF Tab, SelectBundles, At, Fits
  <2>3. Selected(r)
    <3>1. ASSUME NEW k \in keys, k.active, NEW s \in r.seen, s.pair = k.pair PROVE k.pair \in r.rows
      <4>1. s.device = k.device
        BY <2>2, <3>1 DEF SeenByChange, KeysInv, Apart
      <4> QED BY <2>2, <3>1, <4>1 DEF PairsOf, ActiveKeys, SentDevices
    <3>2. ASSUME NEW p \in r.rows PROVE \E k \in keys : k.pair = p /\ \E s \in r.seen : s.device = k.device
      BY <2>2, <3>2 DEF PairsOf, ActiveKeys, SentDevices
    <3> QED BY <3>1, <3>2 DEF Selected
  <2>4. Fits(t, r) /\ r.pc \notin Publishing
    BY <1>1, <2>2, <2>3 DEF Fits, Publishing
  <2> QED BY <1>2, <1>3, <1>11, <2>2, <2>4, TabStep DEF SelectBundles
<1>12. CASE ResetKeys(t)
  <2> DEFINE r == [tab[t] EXCEPT !.pc = "revoke", !.rows = PairsOf(ActiveKeys)]
  <2>1. PairsOf(ActiveKeys) \in SUBSET (1..MaxPairs)
    BY <1>1 DEF PairsOf, ActiveKeys, KeyRow
  <2>2. r \in Tab /\ r.pc = "revoke"
    BY <1>1, <2>1 DEF Tab
  <2>3. Fits(t, r) /\ r.pc \notin Publishing
    BY <2>2 DEF Fits, Publishing
  <2> QED BY <1>2, <1>12, <2>2, <2>3, TabStep DEF ResetKeys
<1>13. CASE ResetDevices(t)
  <2> DEFINE r == [tab[t] EXCEPT !.pc = "end", !.revoked = {d \in Devices : devices[d] = "active"}]
  <2>1. r \in Tab /\ r.pc = "end"
    BY <1>1 DEF Tab
  <2>2. Fits(t, r) /\ r.pc \notin Publishing
    BY <2>1 DEF Fits, Publishing
  <2> QED BY <1>2, <1>13, <2>1, <2>2, TabStep DEF ResetDevices
<1> QED BY <1>5, <1>6, <1>7, <1>8, <1>9, <1>10, <1>11, <1>12, <1>13

----------------------------------------------------------------------------
(* Steps of the server.                                                    *)

(* The rows that were there are still there, with their numbers and pairs, and none comes back   *)
(* to life; what tab t publishes is the only pair that may join them.                           *)
RowsKept(t) ==
    /\ \A k \in keys : \E l \in keys' :
          l.device = k.device /\ l.version = k.version /\ l.pair = k.pair
    /\ \A l \in keys' : \/ \E k \in keys : k.pair = l.pair /\ (l.active => k.active)
                        \/ tab[t].pc \in Publishing /\ l.pair = tab[t].pair

ServerMoves ==
    /\ stage' = "none" => stage = "none"
    /\ pairs' \in Nat /\ pairs <= pairs'
    /\ minted' \in Nat /\ minted <= minted'
    /\ astray \subseteq astray'
    /\ browser' = browser

(* What another tab goes by survives a step that adds rows and rewrites none it has read. *)
LEMMA OthersFit ==
    ASSUME KeysInv, NEW t \in Tabs, RowsKept(t), ServerMoves,
           NEW u \in Tabs, u # t, tab'[u] = tab[u]
    PROVE  Fits(u, tab[u])'
<1> DEFINE r == tab[u]
<1>1. Fits(u, r) /\ TypeOK /\ r \in Tab
  BY DEF KeysInv, TabsFit, TypeOK
<1>2. pairs \in Nat /\ minted \in Nat
  BY <1>1, AccountsAssumption DEF TypeOK
<1>3. ASSUME r.pc \in Publishing
      PROVE  stage' # "none" /\ r.pair \in 1..pairs' /\ \A l \in keys' : l.pair # r.pair
  <2>1. stage # "none" /\ r.pair \in 1..pairs /\ \A k \in keys : k.pair # r.pair
    BY <1>1, <1>3 DEF Fits
  <2>2. r.pair \in 1..pairs' /\ stage' # "none"
    BY <1>2, <2>1 DEF ServerMoves
  <2>3. tab[t].pc \in Publishing => tab[t].pair # r.pair
    BY <1>3 DEF KeysInv, PairsOnce
  <2> QED BY <2>1, <2>2, <2>3 DEF RowsKept
<1>4. ASSUME r.pc = "insert", NEW s \in r.seen
      PROVE  s.device = browser'[u] /\ \E k \in keys' : k.device = s.device /\ k.version = s.version
  BY <1>1, <1>4 DEF Fits, SeenByInsert, RowsKept, ServerMoves
<1>5. ASSUME r.pc \in {"change", "write", "rewrap"}, NEW s \in r.seen
      PROVE  /\ \E k \in keys' : k.device = s.device /\ k.pair = s.pair
             /\ s.pair \notin astray' => s.bundle.pair = s.pair
             /\ \A x \in r.seen : x.device = s.device => x = s
  BY <1>1, <1>5 DEF Fits, SeenByChange, RowsKept, ServerMoves
<1>6. r.pc \in {"otp", "burn", "reset"} => r.code \in 1..minted'
  BY <1>1, <1>2 DEF Fits, ServerMoves
<1>7. ASSUME r.pc = "rewrap" PROVE Selected(r)'
  <2>1. Selected(r) /\ SeenByChange(r.seen)
    BY <1>1, <1>7 DEF Fits
  <2>2. ASSUME NEW l \in keys', l.active, NEW s \in r.seen, s.pair = l.pair PROVE l.pair \in r.rows
    <3>1. \E k \in keys : k.pair = l.pair
      BY <2>1, <2>2 DEF SeenByChange
    <3>2. tab[t].pc \in Publishing => l.pair # tab[t].pair
      BY <3>1 DEF KeysInv, TabsFit, Fits
    <3>3. PICK k \in keys : k.pair = l.pair /\ k.active
      BY <2>2, <3>2 DEF RowsKept
    <3> QED BY <2>1, <2>2, <3>3 DEF Selected
  <2>3. ASSUME NEW p \in r.rows
        PROVE  \E l \in keys' : l.pair = p /\ \E s \in r.seen : s.device = l.device
    <3>1. PICK k \in keys : k.pair = p /\ \E s \in r.seen : s.device = k.device
      BY <2>1, <2>3 DEF Selected
    <3>2. PICK l \in keys' : l.device = k.device /\ l.pair = k.pair
      BY DEF RowsKept
    <3> QED BY <3>1, <3>2
  <2> QED BY <2>2, <2>3 DEF Selected
<1> QED BY <1>1, <1>3, <1>4, <1>5, <1>6, <1>7 DEF Fits, SeenByInsert, SeenByChange

(* All tabs fit if the one that moves comes to rest. *)
LEMMA TabsFitAfter ==
    ASSUME KeysInv, NEW t \in Tabs, RowsKept(t), ServerMoves, NEW r, tab' = [tab EXCEPT ![t] = r],
           r.pc \notin Publishing, Fits(t, tab[t])'
    PROVE  TabsFit' /\ \A u, v \in Tabs :
             tab'[u].pc \in Publishing /\ tab'[v].pc \in Publishing /\ tab'[u].pair = tab'[v].pair => u = v
<1>1. tab'[t] = r /\ \A u \in Tabs : u # t => tab'[u] = tab[u]
  BY DEF KeysInv, TypeOK
<1>2. \A u \in Tabs : Fits(u, tab[u])'
  BY <1>1, OthersFit
<1>3. TabsFit'
  BY <1>2 DEF TabsFit
<1> QED BY <1>1, <1>3 DEF KeysInv, PairsOnce

(* A step that leaves the rows alone keeps those a tab has read. *)
LEMMA RowsKeptAlone == ASSUME UNCHANGED keys, NEW t PROVE RowsKept(t)
BY DEF RowsKept

(* One-time codes come and go. *)
LEMMA CodeSteps ==
    ASSUME KeysInv, (\E k \in Kinds : ExpireCode(k)) \/ ResendCode \/ ForgotPassword
    PROVE  KeysInv'
<1>1. UNCHANGED <<stage, password, devices, keys, pairs, browser, tab, spent, astray>>
  BY DEF ExpireCode, ResendCode, ForgotPassword
<1>2. /\ minted \in 0..MaxCodes /\ codes \in [Kinds -> 0..MaxCodes] /\ MaxCodes \in Nat
      /\ CodesOnce
  BY AccountsAssumption DEF KeysInv, TypeOK
<1> DEFINE CodesGood ==
              /\ minted' \in 0..MaxCodes /\ minted <= minted'
              /\ codes' \in [Kinds -> 0..MaxCodes]
              /\ \A k \in Kinds : codes'[k] <= minted'
              /\ codes'["reset"] \notin spent
<1>3. CodesGood
  <2>1. ASSUME NEW k \in Kinds, ExpireCode(k) PROVE CodesGood
    <3>1. codes' = [codes EXCEPT ![k] = 0] /\ minted' = minted
      BY <2>1 DEF ExpireCode
    <3>2. 0 \notin spent
      BY <1>2 DEF CodesOnce
    <3> QED BY <1>2, <3>1, <3>2 DEF CodesOnce, Kinds
  <2>2. ASSUME NEW k \in Kinds, Mint(k) PROVE CodesGood
    <3>1. codes' = [codes EXCEPT ![k] = minted + 1] /\ minted' = minted + 1 /\ minted < MaxCodes
      BY <2>2 DEF Mint
    <3>2. minted + 1 \notin spent
      BY <1>2 DEF CodesOnce
    <3> QED BY <1>2, <3>1, <3>2 DEF CodesOnce, Kinds
  <2>3. ResendCode => Mint("verify")
    BY DEF ResendCode
  <2>4. ForgotPassword => Mint("reset")
    BY DEF ForgotPassword
  <2> QED BY <2>1, <2>2, <2>3, <2>4 DEF Kinds
<1>4. TypeOK'
  BY <1>1, <1>3 DEF KeysInv, TypeOK
<1>5. CodesOnce'
  BY <1>1, <1>2, <1>3 DEF CodesOnce
<1>6. TabsFit'
  <2>1. \A t \in Tabs : tab[t].pc \in {"otp", "burn", "reset"} => tab[t].code \in 1..minted'
    BY <1>2, <1>3 DEF KeysInv, TabsFit, Fits
  <2> QED BY <1>1, <2>1 DEF KeysInv, TabsFit, Fits, SeenByInsert, SeenByChange, Selected
<1>7. Apart(keys)' /\ Numbered(keys)' /\ PairsOnce' /\ PasswordOpensTheKeys' /\ (stage = "none" => keys = {})'
  BY <1>1 DEF KeysInv, Apart, Numbered, PairsOnce, PasswordOpensTheKeys, ActiveKeys
<1> QED BY <1>4, <1>5, <1>6, <1>7 DEF KeysInv

(* create_user: the first password, and a code to verify the address. *)
LEMMA CreateUserStep ==
    ASSUME KeysInv, NEW t \in Tabs, CreateUser(t)
    PROVE  KeysInv'
<1>1. UNCHANGED <<devices, keys, pairs, browser, spent, astray>> /\ Finish(t) /\ tab[t].pc = "register"
  BY DEF CreateUser, At
<1>2. CASE stage # "none"
  <2>1. UNCHANGED <<server, pairs, browser, spent, astray>>
    BY <1>1, <1>2 DEF CreateUser, server
  <2> QED BY <1>1, <2>1, OverType, TabRests DEF KeysInv, Finish
<1>3. CASE stage = "none"
  <2>1. stage' = "unverified" /\ password' = tab[t].typed /\ Mint("verify")
    BY <1>3 DEF CreateUser
  <2>2. tab[t].typed \in Passwords /\ keys = {}
    BY <1>1, <1>3 DEF KeysInv, TabsFit, Fits
  <2>3. /\ minted \in 0..MaxCodes /\ codes \in [Kinds -> 0..MaxCodes] /\ MaxCodes \in Nat
        /\ pairs \in 0..MaxPairs /\ MaxPairs \in Nat
        /\ CodesOnce
    BY AccountsAssumption DEF KeysInv, TypeOK
  <2>4. codes' = [codes EXCEPT !["verify"] = minted + 1] /\ minted' = minted + 1 /\ minted < MaxCodes
    BY <2>1 DEF Mint
  <2>5. /\ minted' \in 0..MaxCodes /\ codes' \in [Kinds -> 0..MaxCodes]
        /\ tab' = [tab EXCEPT ![t] = Over(t)]
    <3>1. minted + 1 \in 0..MaxCodes
      BY <2>3, <2>4
    <3> QED BY <1>1, <2>3, <2>4, <3>1 DEF Finish, Become
  <2>6. TypeOK'
    BY <1>1, <2>1, <2>2, <2>5, OverType DEF KeysInv, TypeOK
  <2>7. CodesOnce'
    <3>1. spent' \subseteq 1..minted'
      BY <1>1, <2>3, <2>4 DEF CodesOnce
    <3>2. \A k \in Kinds : codes'[k] <= minted'
      BY <2>3, <2>4 DEF CodesOnce
    <3>3. codes'["reset"] = codes["reset"]
      BY <2>3, <2>4
    <3> QED BY <1>1, <2>3, <3>1, <3>2, <3>3 DEF CodesOnce
  <2>8. ServerMoves /\ RowsKept(t)
    BY <1>1, <2>1, <2>3, <2>4, RowsKeptAlone DEF ServerMoves
  <2>9. Over(t).pc = "idle" /\ Over(t).pc \notin Publishing
    BY OverType DEF KeysInv, Publishing
  <2>10. Fits(t, tab[t])'
    BY <2>5, <2>9 DEF Fits, Publishing, KeysInv, TypeOK
  <2>11. TabsFit' /\ PairsOnce'
    BY <1>1, <2>5, <2>8, <2>9, <2>10, TabsFitAfter DEF KeysInv, PairsOnce
  <2>12. Apart(keys)' /\ Numbered(keys)' /\ PasswordOpensTheKeys' /\ (stage = "none" => keys = {})'
    BY <1>1, <2>2 DEF Apart, Numbered, PasswordOpensTheKeys, ActiveKeys
  <2> QED BY <2>6, <2>7, <2>11, <2>12 DEF KeysInv
<1> QED BY <1>2, <1>3

(* verify_email uses up the code it is given. *)
LEMMA VerifyEmailStep ==
    ASSUME KeysInv, NEW t \in Tabs, VerifyEmail(t)
    PROVE  KeysInv'
<1> DEFINE r == [Idle EXCEPT !.user = TRUE]
<1>1. /\ UNCHANGED <<password, minted, devices, keys, pairs, browser, spent, astray>>
      /\ stage' = "verified" /\ codes' = [codes EXCEPT !["verify"] = 0]
      /\ tab' = [tab EXCEPT ![t] = r]
  BY DEF VerifyEmail, Become
<1>2. r \in Tab /\ r.pc = "idle" /\ r.pc \notin Publishing
  BY IdleType DEF Idle, Tab, Publishing
<1>3. /\ minted \in 0..MaxCodes /\ codes \in [Kinds -> 0..MaxCodes] /\ MaxCodes \in Nat
      /\ pairs \in 0..MaxPairs /\ MaxPairs \in Nat
      /\ CodesOnce
  BY AccountsAssumption DEF KeysInv, TypeOK
<1>4. TypeOK' /\ CodesOnce'
  <2>1. codes' \in [Kinds -> 0..MaxCodes] /\ codes'["reset"] = codes["reset"]
        /\ \A k \in Kinds : codes'[k] <= minted
    BY <1>1, <1>3 DEF CodesOnce, Kinds
  <2> QED BY <1>1, <1>2, <1>3, <2>1 DEF KeysInv, TypeOK, CodesOnce
<1>5. ServerMoves /\ RowsKept(t)
  BY <1>1, <1>3, RowsKeptAlone DEF ServerMoves
<1>6. Fits(t, tab[t])'
  BY <1>1, <1>2 DEF Fits, Publishing, KeysInv, TypeOK
<1>7. TabsFit' /\ PairsOnce'
  BY <1>1, <1>2, <1>5, <1>6, TabsFitAfter DEF KeysInv, PairsOnce
<1>8. Apart(keys)' /\ Numbered(keys)' /\ PasswordOpensTheKeys' /\ (stage = "none" => keys = {})'
  BY <1>1 DEF KeysInv, Apart, Numbered, PasswordOpensTheKeys, ActiveKeys
<1> QED BY <1>4, <1>7, <1>8 DEF KeysInv

(* The code that a request deletes is never asked for again: those issued later are others. *)
LEMMA BurnCodeStep ==
    ASSUME KeysInv, NEW t \in Tabs, BurnCode(t)
    PROVE  KeysInv'
<1> DEFINE r == [tab[t] EXCEPT !.pc = "reset"]
<1>1. /\ UNCHANGED <<stage, password, minted, devices, keys, pairs, browser, astray>>
      /\ codes' = [codes EXCEPT !["reset"] = 0] /\ spent' = spent \cup {tab[t].code}
      /\ tab' = [tab EXCEPT ![t] = r] /\ tab[t].pc = "burn"
  BY DEF BurnCode, Become, At
<1>2. tab[t] \in Tab /\ tab[t].code \in 1..minted
  BY <1>1 DEF KeysInv, TypeOK, TabsFit, Fits
<1>3. r \in Tab /\ r.pc = "reset" /\ r.code = tab[t].code /\ r.pc \notin Publishing
  BY <1>2 DEF Tab, Publishing
<1>4. /\ minted \in 0..MaxCodes /\ codes \in [Kinds -> 0..MaxCodes] /\ MaxCodes \in Nat
      /\ pairs \in 0..MaxPairs /\ MaxPairs \in Nat
      /\ CodesOnce
  BY AccountsAssumption DEF KeysInv, TypeOK
<1>5. TypeOK' /\ CodesOnce'
  <2>1. /\ codes' \in [Kinds -> 0..MaxCodes] /\ codes'["reset"] = 0
        /\ \A k \in Kinds : codes'[k] <= minted
    BY <1>1, <1>4 DEF CodesOnce, Kinds
  <2>2. spent' \subseteq 1..minted /\ spent' \subseteq 1..MaxCodes
    BY <1>1, <1>2, <1>4 DEF CodesOnce
  <2>3. CodesOnce'
    BY <1>1, <2>1, <2>2 DEF CodesOnce
  <2> QED BY <1>1, <1>3, <2>1, <2>2, <2>3 DEF KeysInv, TypeOK
<1>6. ServerMoves /\ RowsKept(t)
  BY <1>1, <1>4, RowsKeptAlone DEF ServerMoves
<1>7. Fits(t, tab[t])'
  <2>1. tab'[t] = r
    BY <1>1 DEF KeysInv, TypeOK
  <2> QED BY <1>1, <1>2, <1>3, <2>1 DEF Fits, Publishing
<1>8. TabsFit' /\ PairsOnce'
  BY <1>1, <1>3, <1>6, <1>7, TabsFitAfter DEF KeysInv, PairsOnce
<1>9. Apart(keys)' /\ Numbered(keys)' /\ PasswordOpensTheKeys' /\ (stage = "none" => keys = {})'
  BY <1>1 DEF KeysInv, Apart, Numbered, PasswordOpensTheKeys, ActiveKeys
<1> QED BY <1>5, <1>8, <1>9 DEF KeysInv

(* A new key pair is nobody else's. *)
LEMMA ListStep ==
    ASSUME KeysInv, NEW t \in Tabs, List(t)
    PROVE  KeysInv'
<1>1. /\ tab[t] \in Tab /\ Fits(t, tab[t]) /\ TypeOK /\ PairsOnce
      /\ tab[t].pc = "list" /\ stage = "verified"
      /\ UNCHANGED <<server, browser, spent, astray>>
  BY DEF KeysInv, TypeOK, TabsFit, List, At
<1>2. CASE Become(t, [tab[t] EXCEPT !.pc = "fetch"]) /\ UNCHANGED pairs
  <2> DEFINE r == [tab[t] EXCEPT !.pc = "fetch"]
  <2>1. r \in Tab /\ r.pc = "fetch" /\ r.typed = tab[t].typed
    BY <1>1 DEF Tab
  <2>2. Fits(t, r) /\ r.pc \notin Publishing
    BY <1>1, <2>1 DEF Fits, Publishing
  <2> QED BY <1>1, <1>2, <2>1, <2>2, TabStep
<1>3. CASE /\ pairs < MaxPairs /\ pairs' = pairs + 1
           /\ Become(t, [tab[t] EXCEPT !.pc = "publish", !.pair = pairs + 1])
  <2> DEFINE r == [[tab[t] EXCEPT !.pc = "publish"] EXCEPT !.pair = pairs + 1]
  <2>1. pairs \in Nat /\ minted \in Nat /\ pairs + 1 \in 0..MaxPairs
    BY <1>1, <1>3, AccountsAssumption DEF TypeOK
  <2>2. r \in Tab
    BY <1>1, <2>1 DEF Tab
  <2>3. /\ r.pc = "publish" /\ r.pair = pairs + 1 /\ r.typed = tab[t].typed
        /\ r = [tab[t] EXCEPT !.pc = "publish", !.pair = pairs + 1]
    BY <1>1 DEF Tab
  <2>4. /\ UNCHANGED <<stage, password, codes, minted, devices, keys, browser, spent, astray>>
        /\ tab' = [tab EXCEPT ![t] = r]
    BY <1>1, <1>3, <2>3 DEF server, Become
  <2>5. tab'[t] = r /\ \A u \in Tabs : u # t => tab'[u] = tab[u]
    BY <1>1, <2>4 DEF TypeOK
  <2>6. TypeOK'
    BY <1>1, <1>3, <2>1, <2>2, <2>4 DEF TypeOK
  <2>7. \A k \in keys : k.pair # pairs + 1
    <3>1. \A k \in keys : k.pair \in Nat /\ k.pair <= pairs
      BY <1>1, AccountsAssumption DEF TypeOK, KeyRow, PairsOnce
    <3> QED BY <2>1, <3>1
  <2>8. \A u \in Tabs : u # t /\ tab[u].pc \in Publishing => tab[u].pair # pairs + 1
    <3>1. \A u \in Tabs : tab[u].pc \in Publishing => tab[u].pair \in 1..pairs
      BY DEF KeysInv, TabsFit, Fits
    <3> QED BY <2>1, <3>1
  <2>9. PairsOnce'
    <3>1. \A k \in keys : k.pair <= pairs + 1
      <4>1. \A k \in keys : k.pair \in Nat /\ k.pair <= pairs
        BY <1>1, AccountsAssumption DEF TypeOK, KeyRow, PairsOnce
      <4> QED BY <2>1, <4>1
    <3>2. \A u, v \in Tabs :
            tab'[u].pc \in Publishing /\ tab'[v].pc \in Publishing /\ tab'[u].pair = tab'[v].pair => u = v
      <4>1. \A u, v \in Tabs :
              tab[u].pc \in Publishing /\ tab[v].pc \in Publishing /\ tab[u].pair = tab[v].pair => u = v
        BY <1>1 DEF PairsOnce
      <4>2. \A u \in Tabs : u # t /\ tab[u].pc \in Publishing => tab[u].pair # tab'[t].pair
        BY <2>3, <2>5, <2>8
      <4> QED BY <2>5, <4>1, <4>2
    <3> QED BY <1>3, <2>4, <3>1, <3>2 DEF PairsOnce
  <2>10. ServerMoves /\ RowsKept(t)
    BY <1>3, <2>1, <2>4, RowsKeptAlone DEF ServerMoves
  <2>11. Fits(t, tab[t])'
    <3>1. pairs' = pairs + 1 /\ pairs + 1 \in 1..(pairs + 1)
      BY <1>3, <2>1
    <3> QED BY <1>1, <2>3, <2>4, <2>5, <2>7, <3>1 DEF Fits, Publishing
  <2>12. TabsFit'
    BY <2>5, <2>10, <2>11, OthersFit DEF TabsFit
  <2>13. /\ Apart(keys)' /\ Numbered(keys)' /\ PasswordOpensTheKeys' /\ (stage = "none" => keys = {})'
         /\ CodesOnce'
    BY <2>4 DEF KeysInv, Apart, Numbered, PasswordOpensTheKeys, ActiveKeys, CodesOnce
  <2> QED BY <2>6, <2>9, <2>12, <2>13 DEF KeysInv
<1> QED BY <1>2, <1>3 DEF List

(* The update of the rows a tab has read, as a function of the row. *)
LEMMA SupersededRows ==
    ASSUME NEW K \in SUBSET KeyRow, NEW seen, Apart(K), Numbered(K)
    PROVE  /\ Superseded(K, seen) \subseteq KeyRow
           /\ Apart(Superseded(K, seen)) /\ Numbered(Superseded(K, seen))
           /\ \A k \in K : \E l \in Superseded(K, seen) :
                l.device = k.device /\ l.version = k.version /\ l.pair = k.pair
           /\ \A l \in Superseded(K, seen) : \E k \in K :
                /\ l.device = k.device /\ l.version = k.version /\ l.pair = k.pair
                /\ l.active => l = k
           /\ \A k \in K : k.active =>
                k \in Superseded(K, seen) \/ \E s \in seen : s.device = k.device /\ s.version = k.version
<1> DEFINE f == [k \in K |-> IF \E s \in seen : s.device = k.device /\ s.version = k.version
                              THEN [k EXCEPT !.active = FALSE] ELSE k]
<1>1. \A k \in K : /\ f[k] \in KeyRow
                   /\ f[k].device = k.device /\ f[k].version = k.version /\ f[k].pair = k.pair
                   /\ f[k].active => f[k] = k
  BY DEF KeyRow
<1>2. Superseded(K, seen) = {f[k] : k \in K}
  BY DEF Superseded
<1>3. \A k \in K : f[k] = k \/ \E s \in seen : s.device = k.device /\ s.version = k.version
  OBVIOUS
<1> HIDE DEF f
<1>4. Apart(Superseded(K, seen)) /\ Numbered(Superseded(K, seen))
  <2>1. /\ \A k \in K : f[k] \in Superseded(K, seen)
        /\ \A m \in Superseded(K, seen) : \E k \in K : m = f[k]
    BY <1>2
  <2> QED BY <1>1, <2>1, MappedRows
<1>5. Superseded(K, seen) \subseteq KeyRow
  BY <1>1, <1>2
<1>6. \A k \in K : \E l \in Superseded(K, seen) :
        l.device = k.device /\ l.version = k.version /\ l.pair = k.pair
  <2>1. \A k \in K : f[k] \in Superseded(K, seen)
    BY <1>2
  <2> QED BY <1>1, <2>1
<1>7. \A l \in Superseded(K, seen) : \E k \in K :
        /\ l.device = k.device /\ l.version = k.version /\ l.pair = k.pair
        /\ l.active => l = k
  <2>1. \A l \in Superseded(K, seen) : \E k \in K : l = f[k]
    BY <1>2
  <2> QED BY <1>1, <2>1
<1>8. \A k \in K : k \in Superseded(K, seen) \/ \E s \in seen : s.device = k.device /\ s.version = k.version
  <2>1. \A k \in K : f[k] \in Superseded(K, seen)
    BY <1>2
  <2> QED BY <1>3, <2>1
<1> QED BY <1>4, <1>5, <1>6, <1>7, <1>8

(* The number of the next key is within the bound: the keys of a device have pairs of their own,*)
(* and the pair being published is another.                                                     *)
LEMMA VersionWithinBound ==
    ASSUME KeysInv, NEW t \in Tabs, tab[t].pc \in Publishing, NEW s \in keys
    PROVE  s.version + 1 \in 1..MaxPairs
<1> DEFINE S == On(s.device, keys)
           n == Cardinality(S)
           B == (1..MaxPairs) \ {tab[t].pair}
<1>1. MaxPairs \in Nat /\ pairs \in 0..MaxPairs /\ keys \subseteq KeyRow
  BY AccountsAssumption DEF KeysInv, TypeOK
<1>2. tab[t].pair \in 1..MaxPairs /\ \A k \in keys : k.pair # tab[t].pair
  <2>1. tab[t].pair \in 1..pairs /\ \A k \in keys : k.pair # tab[t].pair
    BY DEF KeysInv, TabsFit, Fits
  <2> QED BY <1>1, <2>1
<1>3. IsFiniteSet(B) /\ Cardinality(B) = MaxPairs - 1
  <2>1. IsFiniteSet(1..MaxPairs) /\ Cardinality(1..MaxPairs) = MaxPairs
    <3>1. 1 \in Int /\ MaxPairs \in Int /\ ~(1 > MaxPairs) /\ MaxPairs - 1 + 1 = MaxPairs
      BY <1>1, <1>2
    <3> QED BY <3>1, FS_Interval
  <2> QED BY <1>2, <2>1, FS_RemoveElement
<1>4. IsFiniteSet(S) /\ n <= MaxPairs - 1
  <2>1. \A k \in S : k \in keys /\ k.pair \in B
    BY <1>1, <1>2 DEF On, KeyRow
  <2>2. \A k, l \in S : k.pair = l.pair => k = l
    BY <2>1 DEF KeysInv, Apart
  <2> QED BY <1>3, <2>1, <2>2, FiniteRows
<1>5. s.version \in 1..n
  <2>1. {k.version : k \in S} = 1..n
    BY <1>1, HistoryNumbered DEF IdentityHistory, KeyRow
  <2>2. s \in S
    BY DEF On
  <2> QED BY <2>1, <2>2
<1>6. n \in Nat
  BY <1>4, FS_CardinalityType
<1> QED BY <1>1, <1>4, <1>5, <1>6

(* publish_identity: the key it stores is the next of its device, under the password of the     *)
(* form, and whatever it supersedes is older.                                                   *)
LEMMA PublishInsertRows ==
    ASSUME KeysInv, NEW t \in Tabs, tab[t].pc = "insert", ~Conflict(t)
    PROVE  LET K == Superseded(keys, tab[t].seen) \cup {NextKey(t)} IN
           /\ K \subseteq KeyRow /\ Apart(K) /\ Numbered(K)
           /\ \A k \in keys : \E l \in K : l.device = k.device /\ l.version = k.version /\ l.pair = k.pair
           /\ \A l \in K : l = NextKey(t) \/ \E k \in keys : l.pair = k.pair /\ (l.active => l = k)
           /\ \A k \in keys : k.active =>
                k \in K \/ (k.device = browser[t] /\ k.version <= NextKey(t).version)
<1> DEFINE S == Superseded(keys, tab[t].seen)
           n == NextKey(t)
           p == tab[t].pair
<1>1. /\ tab[t] \in Tab /\ tab[t].seen \subseteq KeyRow /\ browser[t] \in Devices
      /\ keys \subseteq KeyRow /\ Apart(keys) /\ Numbered(keys)
      /\ p \in 1..pairs /\ (\A k \in keys : k.pair # p) /\ tab[t].typed \in Passwords
      /\ SeenByInsert(t, tab[t].seen)
  BY DEF KeysInv, TypeOK, TabsFit, Fits, Publishing, Tab
<1>2. p \in 1..MaxPairs
  BY <1>1, AccountsAssumption DEF KeysInv, TypeOK
<1>3. /\ S \subseteq KeyRow /\ Apart(S) /\ Numbered(S)
      /\ \A k \in keys : \E l \in S :
           l.device = k.device /\ l.version = k.version /\ l.pair = k.pair
      /\ \A l \in S : \E k \in keys :
           /\ l.device = k.device /\ l.version = k.version /\ l.pair = k.pair
           /\ l.active => l = k
      /\ \A k \in keys : k.active =>
           k \in S \/ \E s \in tab[t].seen : s.device = k.device /\ s.version = k.version
  BY <1>1, SupersededRows
<1>4. /\ n.device = browser[t] /\ n.pair = p /\ n.active
      /\ n.bundle = [pair |-> p, sealed |-> tab[t].typed]
  BY DEF NextKey
<1>5. /\ n.version \in 1..MaxPairs
      /\ n.version = 1 \/ \E k \in keys : k.device = n.device /\ k.version = n.version - 1
  <2>1. CASE tab[t].seen = {}
    <3>1. n.version = 1
      BY <2>1 DEF NextKey
    <3> QED BY <1>2, <3>1, AccountsAssumption
  <2>2. CASE tab[t].seen # {}
    <3> DEFINE s == CHOOSE k \in tab[t].seen : TRUE
    <3>1. s \in tab[t].seen /\ n.version = s.version + 1
      BY <2>2 DEF NextKey
    <3>2. s.device = browser[t] /\ \E k \in keys : k.device = s.device /\ k.version = s.version
      BY <1>1, <3>1 DEF SeenByInsert
    <3>3. PICK k \in keys : k.device = browser[t] /\ k.version = s.version
      BY <3>2
    <3>4. k.version \in Nat /\ k.version + 1 \in 1..MaxPairs
      BY <1>1, <3>3, VersionWithinBound, AccountsAssumption DEF KeyRow, Publishing
    <3> HIDE DEF s, n
    <3>5. n.version = k.version + 1 /\ k.version = n.version - 1
      BY <3>1, <3>3, <3>4
    <3> QED BY <1>4, <3>3, <3>4, <3>5
  <2> QED BY <2>1, <2>2
<1>6. n \in KeyRow
  <2>1. n.bundle \in Bundle
    BY <1>1, <1>2, <1>4 DEF Bundle
  <2> QED BY <1>1, <1>2, <1>5, <2>1 DEF NextKey, KeyRow
<1>7. \A k \in S : /\ k.version \in Nat \ {0} /\ k.pair # n.pair
                   /\ k.device = n.device => k.version # n.version /\ ~k.active
  <2> TAKE k \in S
  <2>1. k.version \in Nat \ {0} /\ k.pair # n.pair
    BY <1>1, <1>3, <1>4 DEF KeyRow
  <2>2. ASSUME k.device = n.device PROVE k.version # n.version /\ ~k.active
    <3>1. ~k.active
      BY <1>4, <2>2 DEF Conflict, On
    <3>2. \A l \in keys : l.device = browser[t] => l.version # n.version
      BY DEF Conflict, On
    <3> QED BY <1>3, <1>4, <2>2, <3>1, <3>2
  <2> QED BY <2>1, <2>2
<1>8. n.version = 1 \/ \E k \in S : k.device = n.device /\ k.version = n.version - 1
  BY <1>3, <1>5
<1>9. n.version \in Nat \ {0}
  BY <1>5
<1>10. Apart(S \cup {n}) /\ Numbered(S \cup {n})
  BY <1>3, <1>7, <1>8, <1>9, NextRow
<1>11. ASSUME NEW k \in keys, k.active
       PROVE  k \in S \/ (k.device = browser[t] /\ k.version <= n.version)
  <2>1. CASE \E s \in tab[t].seen : s.device = k.device /\ s.version = k.version
    <3>1. k.device = browser[t]
      BY <1>1, <2>1 DEF SeenByInsert
    <3>2. PICK l \in S : l.device = k.device /\ l.version = k.version
      BY <1>3
    <3>3. l.version <= n.version
      BY <1>4, <1>10, <3>1, <3>2 DEF Numbered
    <3> QED BY <3>1, <3>2, <3>3
  <2> QED BY <1>3, <1>11, <2>1
<1> HIDE DEF S, n
<1>12. /\ S \cup {n} \subseteq KeyRow
       /\ \A k \in keys : \E l \in S \cup {n} :
            l.device = k.device /\ l.version = k.version /\ l.pair = k.pair
       /\ \A l \in S \cup {n} : l = n \/ \E k \in keys : l.pair = k.pair /\ (l.active => l = k)
       /\ \A k \in keys : k.active =>
            k \in S \cup {n} \/ (k.device = browser[t] /\ k.version <= n.version)
  BY <1>3, <1>6, <1>11
<1> QED BY <1>10, <1>12 DEF S, n

(* Publishing keeps the whole invariant. *)
LEMMA PublishInsertStep ==
    ASSUME KeysInv, NEW t \in Tabs, PublishInsert(t)
    PROVE  KeysInv'
<1>1. tab[t].pc = "insert" /\ tab[t] \in Tab /\ Fits(t, tab[t]) /\ TypeOK
  BY DEF PublishInsert, At, KeysInv, TypeOK, TabsFit
<1>2. CASE Conflict(t)
  <2>1. Finish(t) /\ UNCHANGED <<server, pairs, browser, spent, astray>>
    BY <1>2 DEF PublishInsert, server
  <2> QED BY <1>1, <2>1, OverType, TabRests DEF Finish
<1>3. CASE ~Conflict(t)
  <2> DEFINE n == NextKey(t)
             r == [tab[t] EXCEPT !.pc = "answer"]
  <2>1. /\ devices' = [devices EXCEPT ![browser[t]] = IF tab[t].absent THEN "active" ELSE @]
        /\ keys' = Superseded(keys, tab[t].seen) \cup {n}
        /\ astray' = IF tab[t].typed = password THEN astray ELSE astray \cup {tab[t].pair}
        /\ tab' = [tab EXCEPT ![t] = r]
        /\ UNCHANGED <<stage, password, codes, minted, pairs, browser, spent>>
    BY <1>3 DEF PublishInsert, Become
  <2>2. /\ keys' \subseteq KeyRow /\ Apart(keys') /\ Numbered(keys')
        /\ \A k \in keys : \E l \in keys' :
             l.device = k.device /\ l.version = k.version /\ l.pair = k.pair
        /\ \A l \in keys' : l = n \/ \E k \in keys : l.pair = k.pair /\ (l.active => l = k)
    BY <1>1, <1>3, <2>1, PublishInsertRows
  <2>3. n.pair = tab[t].pair /\ n.bundle = [pair |-> tab[t].pair, sealed |-> tab[t].typed]
    BY DEF NextKey
  <2>4. r \in Tab /\ r.pc = "answer" /\ r.pc \notin Publishing
    BY <1>1 DEF Tab, Publishing
  <2>5. /\ pairs \in 0..MaxPairs /\ minted \in 0..MaxCodes /\ MaxPairs \in Nat /\ MaxCodes \in Nat
        /\ tab[t].pair \in 1..pairs /\ stage # "none"
    BY <1>1, AccountsAssumption DEF TypeOK, Fits, Publishing
  <2>6. TypeOK'
    <3>1. devices' \in [Devices -> {"absent", "active", "revoked"}]
      BY <1>1, <2>1 DEF TypeOK
    <3>2. tab' \in [Tabs -> Tab]
      BY <1>1, <2>1, <2>4 DEF TypeOK
    <3>3. astray' \subseteq 1..MaxPairs
      <4>1. tab[t].pair \in 1..MaxPairs /\ astray \subseteq 1..MaxPairs
        BY <1>1, <2>5 DEF TypeOK
      <4>2. astray' = astray \/ astray' = astray \cup {tab[t].pair}
        BY <2>1
      <4> QED BY <4>1, <4>2
    <3> QED BY <1>1, <2>1, <2>2, <3>1, <3>2, <3>3 DEF TypeOK
  <2>7. astray \subseteq astray' /\ (tab[t].typed = password \/ tab[t].pair \in astray')
    BY <2>1
  <2>8. ServerMoves
    BY <2>1, <2>5, <2>7 DEF ServerMoves
  <2>9. RowsKept(t)
    BY <1>1, <2>2, <2>3 DEF RowsKept, Publishing
  <2>10. Fits(t, tab[t])'
    <3>1. tab'[t] = r
      BY <1>1, <2>1 DEF TypeOK
    <3> QED BY <2>4, <3>1 DEF Fits
  <2>11. TabsFit' /\ \A u, v \in Tabs :
            tab'[u].pc \in Publishing /\ tab'[v].pc \in Publishing /\ tab'[u].pair = tab'[v].pair => u = v
    BY <2>1, <2>4, <2>8, <2>9, <2>10, TabsFitAfter
  <2>12. PairsOnce'
    <3>1. \A l \in keys' : l.pair <= pairs
      BY <2>2, <2>3, <2>5 DEF KeysInv, PairsOnce
    <3> QED BY <2>1, <2>11, <3>1 DEF PairsOnce
  <2>13. PasswordOpensTheKeys'
    <3>1. ASSUME NEW l \in keys', l.active, l.pair \notin astray'
          PROVE  l.bundle = [pair |-> l.pair, sealed |-> password']
      <4>1. CASE l = n
        BY <2>1, <2>3, <2>7, <3>1, <4>1
      <4>2. CASE l \in keys
        <5>1. l \in ActiveKeys /\ l.pair \notin astray
          BY <2>7, <3>1, <4>2 DEF ActiveKeys
        <5> QED BY <2>1, <5>1 DEF KeysInv, PasswordOpensTheKeys
      <4> QED BY <2>2, <3>1, <4>1, <4>2
    <3> QED BY <3>1 DEF PasswordOpensTheKeys, ActiveKeys
  <2>14. CodesOnce' /\ stage' # "none"
    BY <2>1, <2>5 DEF KeysInv, CodesOnce
  <2> QED BY <2>2, <2>6, <2>11, <2>12, <2>13, <2>14 DEF KeysInv
<1> QED BY <1>2, <1>3

(* rewrap_private_bundles keeps every row and its activity, and gives a device the bundle that  *)
(* was made of what the tab had read.                                                           *)
LEMMA SentBundle ==
    ASSUME NEW t \in Tabs, tab[t] \in Tab, tab[t].next \in Passwords, NEW d \in SentDevices(t)
    PROVE  \E s \in tab[t].seen : /\ s.device = d
                                  /\ Sent(t, d) = [pair |-> s.bundle.pair, sealed |-> tab[t].next]
                                  /\ Sent(t, d) \in Bundle
<1> DEFINE s == CHOOSE k \in On(d, tab[t].seen) : TRUE
<1>1. s \in On(d, tab[t].seen)
  BY DEF SentDevices, On
<1>2. s \in tab[t].seen /\ s.device = d
  BY <1>1 DEF On
<1>3. s.bundle \in Bundle
  BY <1>2 DEF Tab, KeyRow
<1>4. Sent(t, d) = [s.bundle EXCEPT !.sealed = tab[t].next]
  BY DEF Sent
<1> HIDE DEF s
<1>5. Sent(t, d) = [pair |-> s.bundle.pair, sealed |-> tab[t].next] /\ Sent(t, d) \in Bundle
  BY <1>3, <1>4 DEF Bundle
<1> QED BY <1>2, <1>5

(* The rows after rewrap_private_bundles. *)
LEMMA RewrappedRows ==
    ASSUME KeysInv, NEW t \in Tabs, tab[t].pc = "rewrap"
    PROVE  /\ Rewrapped(t) \subseteq KeyRow /\ Apart(Rewrapped(t)) /\ Numbered(Rewrapped(t))
           /\ \A k \in keys : \E l \in Rewrapped(t) :
                /\ l.device = k.device /\ l.version = k.version /\ l.pair = k.pair
                /\ l.active = k.active
           /\ \A l \in Rewrapped(t) : \E k \in keys :
                /\ l.device = k.device /\ l.pair = k.pair /\ l.active = k.active
                /\ k.pair \in tab[t].rows =>
                     k.device \in SentDevices(t) /\ l.bundle = Sent(t, k.device)
<1> DEFINE f == [k \in keys |-> IF k.pair \in tab[t].rows
                                THEN [k EXCEPT !.bundle = Sent(t, k.device)] ELSE k]
<1>1. /\ tab[t] \in Tab /\ tab[t].next \in Passwords
      /\ keys \subseteq KeyRow /\ Apart(keys) /\ Numbered(keys) /\ Selected(tab[t])
  BY DEF KeysInv, TypeOK, TabsFit, Fits
<1>2. \A k \in keys :
        /\ f[k] \in KeyRow
        /\ f[k].device = k.device /\ f[k].version = k.version /\ f[k].pair = k.pair
        /\ f[k].active = k.active
        /\ k.pair \in tab[t].rows =>
             k.device \in SentDevices(t) /\ f[k].bundle = Sent(t, k.device)
  <2> TAKE k \in keys
  <2>1. CASE k.pair \in tab[t].rows
    <3>1. f[k] = [k EXCEPT !.bundle = Sent(t, k.device)] /\ k \in KeyRow
      BY <1>1, <2>1
    <3>2. k.device \in SentDevices(t)
      BY <1>1, <2>1 DEF Selected, Apart, SentDevices
    <3>3. Sent(t, k.device) \in Bundle
      BY <1>1, <3>2, SentBundle
    <3> QED BY <3>1, <3>2, <3>3 DEF KeyRow
  <2>2. CASE k.pair \notin tab[t].rows
    <3>1. f[k] = k /\ k \in KeyRow
      BY <1>1, <2>2
    <3> QED BY <2>2, <3>1
  <2> QED BY <2>1, <2>2
<1>3. Rewrapped(t) = {f[k] : k \in keys}
  BY DEF Rewrapped
<1> HIDE DEF f
<1>4. /\ \A k \in keys : f[k] \in Rewrapped(t)
      /\ \A m \in Rewrapped(t) : \E k \in keys : m = f[k]
  BY <1>3
<1>5. Apart(Rewrapped(t)) /\ Numbered(Rewrapped(t))
  BY <1>1, <1>2, <1>4, MappedRows
<1> QED BY <1>2, <1>4, <1>5

(* change_password sets the password and the rewrapped rows in one transaction. *)
LEMMA ChangePasswordStep ==
    ASSUME KeysInv, NEW t \in Tabs, ChangePassword(t)
    PROVE  KeysInv'
<1> DEFINE seen == tab[t].seen
           missed == PairsOf(ActiveKeys) \ PairsOf(seen)
<1>1. tab[t].pc = "rewrap" /\ tab[t] \in Tab /\ Fits(t, tab[t]) /\ TypeOK
  BY DEF ChangePassword, At, KeysInv, TypeOK, TabsFit
<1>2. password' = tab[t].next /\ keys' = Rewrapped(t) /\ astray' = astray \cup missed
  BY DEF ChangePassword
<1>3. /\ UNCHANGED <<stage, codes, minted, devices, pairs, browser, spent>>
      /\ tab' = [tab EXCEPT ![t] = Over(t)]
  BY DEF ChangePassword, Finish, Become
<1>4. /\ keys' \subseteq KeyRow /\ Apart(keys') /\ Numbered(keys')
      /\ \A k \in keys : \E l \in keys' :
           /\ l.device = k.device /\ l.version = k.version /\ l.pair = k.pair
           /\ l.active = k.active
      /\ \A l \in keys' : \E k \in keys :
           /\ l.device = k.device /\ l.pair = k.pair /\ l.active = k.active
           /\ k.pair \in tab[t].rows =>
                k.device \in SentDevices(t) /\ l.bundle = Sent(t, k.device)
  BY <1>1, <1>2, RewrappedRows
<1>5. tab[t].next \in Passwords /\ SeenByChange(seen)
  BY <1>1 DEF Fits
<1>6. /\ pairs \in 0..MaxPairs /\ minted \in 0..MaxCodes /\ MaxPairs \in Nat /\ MaxCodes \in Nat
      /\ Over(t) \in Tab /\ Over(t).pc = "idle" /\ Over(t).pc \notin Publishing
  BY <1>1, AccountsAssumption, OverType DEF TypeOK, Publishing
<1>7. TypeOK'
  <2>1. missed \subseteq 1..MaxPairs
    BY <1>1 DEF TypeOK, KeyRow, ActiveKeys, PairsOf
  <2>2. tab' \in [Tabs -> Tab]
    BY <1>1, <1>3, <1>6 DEF TypeOK
  <2> QED BY <1>1, <1>2, <1>3, <1>4, <1>5, <2>1, <2>2 DEF TypeOK
<1>8. ServerMoves /\ RowsKept(t)
  <2>1. ServerMoves
    BY <1>2, <1>3, <1>6 DEF ServerMoves
  <2>2. RowsKept(t)
    BY <1>4 DEF RowsKept
  <2> QED BY <2>1, <2>2
<1>9. Fits(t, tab[t])'
  <2>1. tab'[t] = Over(t)
    BY <1>1, <1>3 DEF TypeOK
  <2> QED BY <1>6, <2>1 DEF Fits
<1>10. TabsFit' /\ \A u, v \in Tabs :
          tab'[u].pc \in Publishing /\ tab'[v].pc \in Publishing /\ tab'[u].pair = tab'[v].pair => u = v
  BY <1>3, <1>6, <1>8, <1>9, TabsFitAfter
<1>11. PairsOnce'
  <2>1. \A l \in keys' : l.pair <= pairs
    BY <1>4 DEF KeysInv, PairsOnce
  <2> QED BY <1>3, <1>10, <2>1 DEF PairsOnce
<1>12. PasswordOpensTheKeys'
  <2>1. ASSUME NEW l \in keys', l.active, l.pair \notin astray'
        PROVE  l.bundle = [pair |-> l.pair, sealed |-> password']
    <3>1. PICK k \in keys : /\ l.device = k.device /\ l.pair = k.pair /\ k.active
                            /\ k.pair \in tab[t].rows =>
                                 k.device \in SentDevices(t) /\ l.bundle = Sent(t, k.device)
      BY <1>4, <2>1
    <3>2. k.pair \in PairsOf(ActiveKeys) /\ k.pair \notin astray /\ k.pair \notin missed
      BY <1>2, <2>1, <3>1 DEF ActiveKeys, PairsOf
    <3>3. PICK s \in seen : s.pair = k.pair
      BY <3>2 DEF PairsOf
    <3>4. PICK j \in keys : j.device = s.device /\ j.pair = s.pair
      BY <1>5, <3>3 DEF SeenByChange
    <3>5. j = k
      BY <3>3, <3>4 DEF KeysInv, Apart
    <3>6. /\ k.device \in SentDevices(t) /\ k.device = s.device
          /\ l.bundle = Sent(t, k.device)
      BY <1>1, <3>1, <3>3, <3>4, <3>5 DEF Fits, Selected, SentDevices
    <3>7. PICK x \in seen : /\ x.device = k.device
                            /\ Sent(t, k.device) = [pair |-> x.bundle.pair, sealed |-> tab[t].next]
      BY <1>1, <1>5, <3>6, SentBundle
    <3>8. x = s /\ s.bundle.pair = s.pair
      BY <1>5, <3>2, <3>3, <3>6, <3>7 DEF SeenByChange
    <3> QED BY <1>2, <3>1, <3>3, <3>6, <3>7, <3>8
  <2> QED BY <2>1 DEF PasswordOpensTheKeys, ActiveKeys
<1>13. CodesOnce' /\ (stage' = "none" => keys' = {})
  BY <1>3, <1>4 DEF KeysInv, CodesOnce
<1> QED BY <1>4, <1>7, <1>10, <1>11, <1>12, <1>13 DEF KeysInv

(* What is active after a reset was published since its update of the keys. *)
LEMMA ResetPasswordStep ==
    ASSUME KeysInv, NEW t \in Tabs, ResetPassword(t)
    PROVE  KeysInv'
<1> DEFINE f == [k \in keys |-> IF k.pair \in tab[t].rows THEN [k EXCEPT !.active = FALSE] ELSE k]
           missed == PairsOf(ActiveKeys) \ tab[t].rows
<1>1. /\ tab[t].pc = "end" /\ tab[t] \in Tab /\ TypeOK
      /\ keys \subseteq KeyRow /\ Apart(keys) /\ Numbered(keys)
  BY DEF ResetPassword, At, KeysInv, TypeOK
<1>2. /\ password' = tab[t].next /\ tab' = [tab EXCEPT ![t] = Idle]
      /\ devices' = [d \in Devices |-> IF d \in tab[t].revoked THEN "revoked" ELSE devices[d]]
      /\ keys' = {IF k.pair \in tab[t].rows THEN [k EXCEPT !.active = FALSE] ELSE k : k \in keys}
      /\ astray' = astray \cup missed
      /\ UNCHANGED <<stage, codes, minted, pairs, browser, spent>>
  BY DEF ResetPassword, Become
<1>3. \A k \in keys : /\ f[k] \in KeyRow
                      /\ f[k].active => k.active /\ k.pair \notin tab[t].rows
                      /\ f[k].device = k.device /\ f[k].version = k.version /\ f[k].pair = k.pair
  BY <1>1 DEF KeyRow
<1>4. keys' = {f[k] : k \in keys}
  BY <1>2
<1> HIDE DEF f
<1>5. (\A k \in keys : f[k] \in keys') /\ (\A l \in keys' : \E k \in keys : l = f[k])
  BY <1>4
<1>6. Apart(keys') /\ Numbered(keys')
  BY <1>1, <1>3, <1>5, MappedRows
<1>7. /\ keys' \subseteq KeyRow
      /\ \A l \in keys' : l.active => l.pair \in missed
  BY <1>3, <1>5 DEF ActiveKeys, PairsOf
<1>8. /\ pairs \in 0..MaxPairs /\ minted \in 0..MaxCodes /\ MaxPairs \in Nat /\ MaxCodes \in Nat
      /\ Idle \in Tab /\ Idle.pc = "idle" /\ Idle.pc \notin Publishing
  BY <1>1, AccountsAssumption, IdleType DEF TypeOK, Publishing
<1>9. TypeOK'
  <2>1. password' \in Passwords \cup {NoPassword}
    BY <1>1, <1>2 DEF Tab
  <2>2. devices' \in [Devices -> {"absent", "active", "revoked"}]
    BY <1>1, <1>2 DEF TypeOK
  <2>3. tab' \in [Tabs -> Tab]
    BY <1>1, <1>2, <1>8 DEF TypeOK
  <2>4. missed \subseteq 1..MaxPairs
    BY <1>1 DEF KeyRow, ActiveKeys, PairsOf
  <2> QED BY <1>1, <1>2, <1>7, <2>1, <2>2, <2>3, <2>4 DEF TypeOK
<1>10. ServerMoves
  BY <1>2, <1>8 DEF ServerMoves
<1>11. RowsKept(t)
  BY <1>3, <1>5 DEF RowsKept
<1>12. Fits(t, tab[t])'
  <2>1. tab'[t] = Idle
    BY <1>1, <1>2 DEF TypeOK
  <2> QED BY <1>8, <2>1 DEF Fits
<1>13. TabsFit' /\ \A u, v \in Tabs :
          tab'[u].pc \in Publishing /\ tab'[v].pc \in Publishing /\ tab'[u].pair = tab'[v].pair => u = v
  BY <1>2, <1>8, <1>10, <1>11, <1>12, TabsFitAfter
<1>14. PairsOnce'
  <2>1. \A l \in keys' : l.pair <= pairs
    BY <1>3, <1>5 DEF KeysInv, PairsOnce
  <2> QED BY <1>2, <1>13, <2>1 DEF PairsOnce
<1>15. PasswordOpensTheKeys'
  BY <1>2, <1>7 DEF PasswordOpensTheKeys, ActiveKeys
<1>16. CodesOnce' /\ (stage' = "none" => keys' = {})
  BY <1>2 DEF KeysInv, CodesOnce
<1> QED BY <1>6, <1>9, <1>13, <1>14, <1>15, <1>16 DEF KeysInv

----------------------------------------------------------------------------
(* The empty account satisfies the invariant. *)
LEMMA InitialKeys == Init => KeysInv
<1> SUFFICES ASSUME Init PROVE KeysInv
  OBVIOUS
<1>1. TypeOK
  BY IdleType, AccountsAssumption DEF Init, TypeOK
<1>2. \A t \in Tabs : tab[t].pc = "idle"
  BY IdleType DEF Init
<1>3. TabsFit
  BY <1>2, IdleFits DEF TabsFit
<1>4. PairsOnce
  BY <1>2 DEF Init, PairsOnce, Publishing
<1>5. CodesOnce
  BY DEF Init, CodesOnce, Kinds
<1>6. Apart(keys) /\ Numbered(keys) /\ PasswordOpensTheKeys
  BY DEF Init, Apart, Numbered, PasswordOpensTheKeys, ActiveKeys
<1> QED BY <1>1, <1>3, <1>4, <1>5, <1>6 DEF KeysInv, Init

(* Every step keeps it. *)
LEMMA KeysInvStep == KeysInv /\ [Next]_vars => KeysInv'
<1> SUFFICES ASSUME KeysInv, [Next]_vars PROVE KeysInv'
  OBVIOUS
<1>1. CASE (\E k \in Kinds : ExpireCode(k)) \/ ResendCode \/ ForgotPassword
  BY <1>1, CodeSteps
<1>2. ASSUME NEW t \in Tabs, NEW p \in Passwords, Register(t, p) \/ Login(t, p) \/ Unlock(t, p)
      PROVE  KeysInv'
  BY <1>2, FormStep
<1>3. ASSUME NEW t \in Tabs, NEW p \in Passwords, NEW q \in Passwords, StartChange(t, p, q)
      PROVE  KeysInv'
  BY <1>3, ChangeFormStep
<1>4. ASSUME NEW t \in Tabs, NEW c \in 1..minted, NEW p \in Passwords, StartReset(t, c, p)
      PROVE  KeysInv'
  BY <1>4, ResetFormStep
<1>5. ASSUME NEW t \in Tabs, SignOut(t) \/ Reload(t) \/ Fails(t) PROVE KeysInv'
  BY <1>5, LeaveSteps
<1>6. ASSUME NEW t \in Tabs,
             \/ Fetch(t) \/ PublishRead(t) \/ Published(t) \/ Rewrap(t) \/ VerifyOld(t) \/ CheckCode(t)
             \/ SelectBundles(t) \/ ResetKeys(t) \/ ResetDevices(t)
      PROVE  KeysInv'
  BY <1>6, ReadSteps
<1>7. ASSUME NEW t \in Tabs,
             CreateUser(t) \/ VerifyEmail(t) \/ BurnCode(t) \/ List(t)
      PROVE  KeysInv'
  BY <1>7, CreateUserStep, VerifyEmailStep, BurnCodeStep, ListStep
<1>8. ASSUME NEW t \in Tabs, PublishInsert(t) \/ ChangePassword(t) \/ ResetPassword(t)
      PROVE  KeysInv'
  BY <1>8, PublishInsertStep, ChangePasswordStep, ResetPasswordStep
<1>9. CASE UNCHANGED vars
  <2>1. UNCHANGED <<stage, password, codes, minted, devices, keys, pairs, browser, tab, spent, astray>>
    BY <1>9 DEF vars, server
  <2> QED BY <2>1 DEF KeysInv, TypeOK, Apart, Numbered, PairsOnce, TabsFit, Fits, SeenByInsert,
                      SeenByChange, Selected, CodesOnce, PasswordOpensTheKeys, ActiveKeys
<1> QED BY <1>1, <1>2, <1>3, <1>4, <1>5, <1>6, <1>7, <1>8, <1>9 DEF Next

(* What the account rests on in every reachable state: rows that are numbered, superseded and   *)
(* never deleted, pairs that are published once, and operations that hold what they have read.  *)
THEOREM KeysInvariant == Spec => []KeysInv
BY InitialKeys, KeysInvStep, PTL DEF Spec

(* Every reachable state is well typed. *)
THEOREM AccountsWellTyped == Spec => []TypeOK
<1>1. KeysInv => TypeOK
  BY DEF KeysInv
<1> QED BY KeysInvariant, <1>1, PTL

(* publish_identity numbers the keys of a device without gaps or repeats, and leaves none but   *)
(* the newest active, however publications and resets overlap.                                  *)
THEOREM HistoriesHold == Spec => []IdentityHistory
BY KeysInvariant, HistoryNumbered, PTL

(* The password in force opens every active key, whatever changes, resets and publications      *)
(* overlap between their statements, fail or lose their answers; but for the pairs in `astray`, *)
(* which were published behind its back.                                                        *)
THEOREM PasswordOpens == Spec => []PasswordOpensTheKeys
<1>1. KeysInv => PasswordOpensTheKeys
  BY DEF KeysInv
<1> QED BY KeysInvariant, <1>1, PTL

(* The active key of a device goes with a reset or with a newer key, and in no other way. *)
LEMMA SurvivingStep ==
    ASSUME KeysInv, [Next]_vars, NEW k \in ActiveKeys
    PROVE  \/ \E n \in keys' : n.active /\ n.device = k.device /\ n.version >= k.version
           \/ \E t \in Tabs : ResetPassword(t)
<1>1. k \in keys /\ k.active /\ k.version \in Nat
  BY DEF ActiveKeys, KeysInv, TypeOK, KeyRow
<1>2. CASE UNCHANGED keys
  BY <1>1, <1>2
<1>3. ASSUME NEW t \in Tabs, PublishInsert(t)
      PROVE  \E n \in keys' : n.active /\ n.device = k.device /\ n.version >= k.version
  <2>1. CASE Conflict(t)
    BY <1>1, <1>3, <2>1 DEF PublishInsert
  <2>2. CASE ~Conflict(t)
    <3>1. keys' = Superseded(keys, tab[t].seen) \cup {NextKey(t)} /\ tab[t].pc = "insert"
      BY <1>3, <2>2 DEF PublishInsert, At
    <3>2. k \in keys' \/ (k.device = browser[t] /\ k.version <= NextKey(t).version)
      BY <1>1, <2>2, <3>1, PublishInsertRows
    <3>3. /\ NextKey(t) \in keys' /\ NextKey(t).active /\ NextKey(t).device = browser[t]
          /\ NextKey(t).version \in Nat
      <4>1. NextKey(t) \in KeyRow
        BY <2>2, <3>1, PublishInsertRows
      <4> QED BY <3>1, <4>1 DEF NextKey, KeyRow
    <3> QED BY <1>1, <3>2, <3>3
  <2> QED BY <2>1, <2>2
<1>4. ASSUME NEW t \in Tabs, ChangePassword(t)
      PROVE  \E n \in keys' : n.active /\ n.device = k.device /\ n.version >= k.version
  <2>1. keys' = Rewrapped(t) /\ tab[t].pc = "rewrap"
    BY <1>4 DEF ChangePassword, At
  <2> QED BY <1>1, <2>1, RewrappedRows
<1>5. ASSUME NEW t \in Tabs,
             \/ CreateUser(t) \/ VerifyEmail(t) \/ BurnCode(t) \/ List(t)
             \/ Fetch(t) \/ PublishRead(t) \/ Published(t) \/ Rewrap(t) \/ VerifyOld(t) \/ CheckCode(t)
             \/ SelectBundles(t) \/ ResetKeys(t) \/ ResetDevices(t) \/ SignOut(t) \/ Reload(t) \/ Fails(t)
             \/ \E p \in Passwords : Register(t, p) \/ Login(t, p) \/ Unlock(t, p)
             \/ \E p, q \in Passwords : StartChange(t, p, q)
             \/ \E c \in 1..minted, p \in Passwords : StartReset(t, c, p)
      PROVE  UNCHANGED keys
  BY <1>5 DEF CreateUser, VerifyEmail, BurnCode, List, Fetch, PublishRead, Published, Rewrap, VerifyOld,
              CheckCode, SelectBundles, ResetKeys, ResetDevices, SignOut, Reload, Fails, Register, Login, Unlock, StartChange, StartReset, server
<1>6. CASE (\E c \in Kinds : ExpireCode(c)) \/ ResendCode \/ ForgotPassword \/ UNCHANGED vars
  <2>1. UNCHANGED keys
    BY <1>6 DEF ExpireCode, ResendCode, ForgotPassword, vars, server
  <2> QED BY <1>2, <2>1
<1> QED BY <1>2, <1>3, <1>4, <1>5, <1>6 DEF Next

(* A key that is active stays so until a reset, or until a newer key of its device is: changing  *)
(* the password rewraps every active key and ends none.                                         *)
THEOREM IdentitiesSurvive == Spec => IdentitySurvivesAChange
<1>1. KeysInv /\ [Next]_vars =>
        [\A k \in ActiveKeys :
           \/ \E n \in keys' : n.active /\ n.device = k.device /\ n.version >= k.version
           \/ \E t \in Tabs : ResetPassword(t)]_vars
  BY SurvivingStep
<1> QED BY KeysInvariant, <1>1, PTL DEF Spec, IdentitySurvivesAChange

(* Only check_otp lets a request past the code, and only with the code that Redis holds. *)
LEMMA CodeStep ==
    ASSUME KeysInv, [Next]_vars, NEW t \in Tabs, At(t, "otp"), tab'[t].pc = "burn"
    PROVE  tab[t].code \notin spent
<1>1. tab \in [Tabs -> Tab] /\ tab[t].pc = "otp" /\ codes["reset"] \notin spent
  BY DEF KeysInv, TypeOK, At, CodesOnce
<1>2. ASSUME NEW u \in Tabs, u # t, NEW r, Become(u, r) PROVE FALSE
  BY <1>1, <1>2 DEF Become
<1>3. ASSUME NEW r, Become(t, r), r.pc # "burn" PROVE FALSE
  BY <1>1, <1>3 DEF Become
<1>4. \A u \in Tabs : Over(u).pc = "idle" /\ Idle.pc = "idle"
  BY OverType, IdleType DEF KeysInv
<1>5. ~UNCHANGED tab
  BY <1>1
<1>6. ASSUME NEW u \in Tabs, CheckCode(u) PROVE tab[t].code \notin spent
  <2>1. u = t
    BY <1>2, <1>6 DEF CheckCode, Finish
  <2>2. CASE codes["reset"] = tab[t].code
    BY <1>1, <2>2
  <2> QED BY <1>3, <1>4, <1>6, <2>1, <2>2 DEF CheckCode, Finish
<1>7. ASSUME NEW u \in Tabs, u = t PROVE
        /\ ~(\E p \in Passwords : Register(u, p) \/ Login(u, p) \/ Unlock(u, p))
        /\ ~(\E p, q \in Passwords : StartChange(u, p, q))
        /\ ~(\E c \in 1..minted, p \in Passwords : StartReset(u, c, p))
        /\ ~(CreateUser(u) \/ VerifyEmail(u) \/ Reload(u) \/ List(u) \/ Fetch(u) \/ PublishRead(u))
        /\ ~(PublishInsert(u) \/ Published(u) \/ Rewrap(u) \/ VerifyOld(u) \/ ChangePassword(u))
        /\ ~(SelectBundles(u) \/ BurnCode(u) \/ ResetKeys(u) \/ ResetDevices(u) \/ ResetPassword(u))
  BY <1>1, <1>7 DEF Register, Login, Unlock, StartChange, StartReset, CreateUser, VerifyEmail, Reload,
     List, Fetch, PublishRead, PublishInsert, Published, Rewrap, VerifyOld, ChangePassword, BurnCode,
     SelectBundles, ResetKeys, ResetDevices, ResetPassword, At
<1>8. ~Fails(t) /\ ~SignOut(t)
  <2>1. ~Fails(t)
    BY <1>3, <1>4 DEF Fails, Finish
  <2>2. [tab[t] EXCEPT !.user = FALSE, !.key = 0].pc = "otp"
    BY <1>1 DEF Tab
  <2> QED BY <1>3, <2>1, <2>2 DEF SignOut
<1>9. ASSUME NEW u \in Tabs, u # t PROVE
        /\ ~(\E p \in Passwords : Register(u, p) \/ Login(u, p) \/ Unlock(u, p))
        /\ ~(\E p, q \in Passwords : StartChange(u, p, q))
        /\ ~(\E c \in 1..minted, p \in Passwords : StartReset(u, c, p))
        /\ ~(CreateUser(u) \/ VerifyEmail(u) \/ Reload(u) \/ List(u) \/ Fetch(u) \/ PublishRead(u))
        /\ ~(PublishInsert(u) \/ Published(u) \/ Rewrap(u) \/ VerifyOld(u) \/ ChangePassword(u))
        /\ ~(SelectBundles(u) \/ BurnCode(u) \/ ResetKeys(u) \/ ResetDevices(u) \/ ResetPassword(u))
        /\ ~(Fails(u) \/ SignOut(u))
  BY <1>2, <1>9 DEF Register, Login, Unlock, StartChange, StartReset, CreateUser, VerifyEmail, Reload,
     List, Fetch, PublishRead, PublishInsert, Published, Rewrap, VerifyOld, ChangePassword, BurnCode,
     SelectBundles, ResetKeys, ResetDevices, ResetPassword, Fails, SignOut, Finish
<1>10. ~(\E k \in Kinds : ExpireCode(k)) /\ ~ResendCode /\ ~ForgotPassword /\ ~UNCHANGED vars
  BY <1>5 DEF ExpireCode, ResendCode, ForgotPassword, vars
<1> QED BY <1>6, <1>7, <1>8, <1>9, <1>10 DEF Next

(* A code that a request has deleted on use lets no other request in. *)
THEOREM CodesStaySpent == Spec => SpentCodesStaySpent
<1>1. KeysInv /\ [Next]_vars =>
        [\A t \in Tabs : At(t, "otp") /\ tab'[t].pc = "burn" => tab[t].code \notin spent]_vars
  BY CodeStep
<1> QED BY KeysInvariant, <1>1, PTL DEF Spec, SpentCodesStaySpent
=============================================================================
