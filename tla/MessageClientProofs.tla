------------------------ MODULE MessageClientProofs ------------------------
(***************************************************************************)
(* Proofs about MessageClient and the Ratchet it reads with, for any       *)
(* number of functions in progress and for any page size, skip limit,      *)
(* number of retries and bounds.                                           *)
(***************************************************************************)
EXTENDS MessageClientProps, FiniteSetTheorems, WellFoundedInduction, TLAPS

----------------------------------------------------------------------------
(* The ratchet: asking a receiver chain for a key takes that key and no    *)
(* other, in any order and for every skip limit.                           *)

(* A chain retains keys of the past only: a fresh chain does, and messageKeyFor keeps it so. *)
RetainsThePast(chain) == \A i \in chain.skipped : i < chain.index

(* messageKeyFor leaves a well-formed chain that retains only keys it has stepped over. *)
THEOREM AfterKeyRetainsThePast ==
    ASSUME NEW chain \in ReceiverChain, NEW i \in Nat, RetainsThePast(chain), Answers(chain, i)
    PROVE  AfterKey(chain, i) \in ReceiverChain /\ RetainsThePast(AfterKey(chain, i))
<1> USE DEF RetainsThePast, ReceiverChain
<1>1. CASE i \in chain.skipped
    BY <1>1 DEF AfterKey
<1>2. CASE i \notin chain.skipped
    <2>1. i >= chain.index
        BY <1>2 DEF Answers, CanDerive
    <2>2. chain.index .. (i - 1) \in SUBSET Nat /\ \A j \in chain.index .. (i - 1) : j < i + 1
        OBVIOUS
    <2> QED
        BY <1>2, <2>1, <2>2 DEF AfterKey
<1> QED
    BY <1>1, <1>2

(* messageKeyFor(i) uses up the key of index i and of no other index: a message opens once, and *)
(* every other one can still be opened, in whatever order they come (crypto-spec-v1 section 3). *)
THEOREM AfterKeyTakesOneKey ==
    ASSUME NEW chain \in ReceiverChain, NEW i \in Nat, RetainsThePast(chain), Answers(chain, i)
    PROVE  \A j \in Nat : CanDerive(AfterKey(chain, i), j) <=> CanDerive(chain, j) /\ j # i
<1> USE DEF RetainsThePast, ReceiverChain
<1> TAKE j \in Nat
<1>1. CASE i \in chain.skipped
    BY <1>1 DEF AfterKey, CanDerive
<1>2. CASE i \notin chain.skipped
    <2>1. i >= chain.index
        BY <1>2 DEF Answers, CanDerive
    <2>2. j \in chain.index .. (i - 1) <=> j >= chain.index /\ j < i
        OBVIOUS
    <2>3. AfterKey(chain, i).index = i + 1
          /\ AfterKey(chain, i).skipped = chain.skipped \cup (chain.index .. (i - 1))
        BY <1>2 DEF AfterKey
    <2> QED
        BY <1>2, <2>1, <2>2, <2>3 DEF CanDerive
<1> QED
    BY <1>1, <1>2

(* The keys one request makes a chain retain lie within MaxSkip of where the chain stood. *)
THEOREM OneRequestIsBounded ==
    ASSUME NEW chain \in ReceiverChain, NEW i \in Nat, Answers(chain, i)
    PROVE  \A j \in AfterKey(chain, i).skipped \ chain.skipped :
              chain.index <= j /\ j < chain.index + MaxSkip
<1>1. CASE i \in chain.skipped
    BY <1>1 DEF AfterKey, ReceiverChain
<1>2. CASE i \notin chain.skipped
    <2>1. i - chain.index <= MaxSkip
        BY <1>2 DEF Answers
    <2>2. AfterKey(chain, i).skipped = chain.skipped \cup (chain.index .. (i - 1))
        BY <1>2 DEF AfterKey
    <2> QED
        BY <2>1, <2>2, RatchetAssumption DEF ReceiverChain
<1> QED
    BY <1>1, <1>2

----------------------------------------------------------------------------
(* What the client relies on.                                              *)

(* The peer has drawn the key of index n from its chain s. *)
Issued(s, n) == s < sender.skid \/ (s = sender.skid /\ n < sender.next)

(* Somewhere the client holds or will be told that the message i was sealed as env. *)
Heard(i, env) ==
    \/ i \in DOMAIN stored /\ stored[i] = env
    \/ \E k \in DOMAIN events : events[k].id = i /\ events[k].env = env
    \/ raw[i] = env
    \/ \E t \in Tasks : \E k \in DOMAIN task[t].todo :
          task[t].todo[k].id = i /\ task[t].todo[k].env = env

(* A key seals one message: what is heard of a message is what is stored of it, or the message  *)
(* has been edited since, and no two messages are ever heard of under one key.                  *)
KeysSealOnce ==
    /\ \A e \in flying : Issued(e.skid, e.idx)
    /\ \A i \in Ids, env \in Envelope : Heard(i, env) =>
          /\ i \in DOMAIN stored /\ (stored[i] = env \/ stored[i].edited)
          /\ Issued(env.skid, env.idx)
          /\ \A e \in flying : ~(e.skid = env.skid /\ e.idx = env.idx)
    /\ \A i, j \in Ids, d, e \in Envelope :
          Heard(i, d) /\ Heard(j, e) /\ d.skid = e.skid /\ d.idx = e.idx => i = j
    /\ \A k \in DOMAIN events : events[k].kind = "edited" => stored[events[k].id].edited

(* A chain has used up no key but those of envelopes that were posted. *)
ChainsBehind ==
    \A s \in Skids : chains[s] # NoChain =>
       /\ RetainsThePast(chains[s])
       /\ \A n \in Nat : ~CanDerive(chains[s], n) =>
             Issued(s, n) /\ \A e \in flying : ~(e.skid = s /\ e.idx = n)

(* A function has as many results as it has got through messages. *)
Working == {"next", "opening"}

InStep(r) ==
    /\ Len(r.done) <= Len(r.todo)
    /\ r.pc = "opening" => Len(r.done) < Len(r.todo)
    /\ r.pc \notin Working => r.todo = <<>> /\ r.done = <<>>
    /\ r.pc \in {"keys", "unwrap", "page"} => r.kind \in {"open", "older", "retry"}
    /\ r.pc \in Working /\ r.kind \in {"incoming", "edited"} => Len(r.todo) = 1

ClientInv ==
    /\ TypeOK
    /\ Len(stored) <= MaxMessages
    /\ sender.skid = 0 => sender.next = MaxSeals
    /\ KeysSealOnce
    /\ ChainsBehind
    /\ \A t \in Tasks : InStep(task[t])
    /\ PlaintextKept

----------------------------------------------------------------------------
(* Sets of numbers in ascending order.                                     *)

Less == {p \in Nat \X Nat : p[1] < p[2]}

(* The order of the numbers as a relation, which the library's theorems are about. *)
LEMMA LessIsWellFounded == IsWellFoundedOn(Less, Nat)
BY NatLessThanWellFounded, Zenon DEF OpToRel, Less

(* A set of numbers has a least one. *)
LEMMA LeastNumber ==
    ASSUME NEW S \in SUBSET Nat, S # {}
    PROVE  \E x \in S : \A y \in S : x <= y
<1>1. PICK x \in S : \A y \in S : ~(<<y, x>> \in Less)
  BY LessIsWellFounded, WFMin
<1>2. \A y \in S : ~(y < x)
  BY <1>1 DEF Less
<1> QED BY <1>2

(* Induction, over a set of numbers rather than over a predicate. *)
LEMMA NumbersByInduction ==
    ASSUME NEW S \in SUBSET Nat, 0 \in S, \A n \in S : n + 1 \in S
    PROVE  S = Nat
<1> SUFFICES ASSUME Nat \ S # {} PROVE FALSE
  OBVIOUS
<1>1. PICK x \in Nat \ S : \A y \in Nat \ S : x <= y
  BY LeastNumber
<1>2. x # 0 /\ x - 1 \in Nat /\ (x - 1) + 1 = x
  BY <1>1
<1>3. x - 1 \in S
  BY <1>1, <1>2
<1> QED BY <1>1, <1>2, <1>3

Sorted(f, S) ==
    /\ f \in [1..Cardinality(S) -> S]
    /\ \A j, k \in 1..Cardinality(S) : j < k => f[j] < f[k]

(* A finite set of numbers can be put in ascending order. *)
LEMMA AscendingExists ==
    ASSUME NEW S \in SUBSET Nat, IsFiniteSet(S)
    PROVE  \E f : Sorted(f, S)
<1> DEFINE P == {n \in Nat : \A U \in SUBSET Nat :
                   IsFiniteSet(U) /\ Cardinality(U) = n => \E f : Sorted(f, U)}
<1>1. 0 \in P
  <2> SUFFICES ASSUME NEW U \in SUBSET Nat, IsFiniteSet(U), Cardinality(U) = 0
               PROVE  \E f : Sorted(f, U)
    OBVIOUS
  <2>1. 1..Cardinality(U) = {}
    OBVIOUS
  <2>2. [x \in {} |-> 0] \in [{} -> U]
    OBVIOUS
  <2>3. Sorted([x \in {} |-> 0], U)
    BY <2>1, <2>2 DEF Sorted
  <2> QED BY <2>3
<1>2. ASSUME NEW n \in P PROVE n + 1 \in P
  <2> SUFFICES ASSUME NEW U \in SUBSET Nat, IsFiniteSet(U), Cardinality(U) = n + 1
               PROVE  \E f : Sorted(f, U)
    BY <1>2
  <2>1. n \in Nat /\ U # {}
    BY <1>2, FS_EmptySet
  <2>2. PICK m \in U : \A y \in U : m <= y
    BY <2>1, LeastNumber
  <2> DEFINE V == U \ {m}
  <2>3. V \in SUBSET Nat /\ IsFiniteSet(V) /\ Cardinality(V) = n
    BY <2>1, <2>2, FS_RemoveElement
  <2>4. PICK g : Sorted(g, V)
    BY <1>2, <2>3
  <2> DEFINE f == [k \in 1..(n + 1) |-> IF k = 1 THEN m ELSE g[k - 1]]
  <2>5. g \in [1..n -> V] /\ \A j, k \in 1..n : j < k => g[j] < g[k]
    BY <2>3, <2>4 DEF Sorted
  <2>6. \A k \in 1..(n + 1) : k # 1 => k - 1 \in 1..n
    BY <2>1
  <2>7. f \in [1..(n + 1) -> U]
    BY <2>2, <2>5, <2>6
  <2>8. ASSUME NEW j \in 1..(n + 1), NEW k \in 1..(n + 1), j < k PROVE f[j] < f[k]
    <3>1. k # 1 /\ f[k] = g[k - 1] /\ g[k - 1] \in V
      BY <2>1, <2>5, <2>6, <2>8
    <3>2. CASE j = 1
      <4>1. f[j] = m
        BY <3>2
      <4>2. g[k - 1] \in U /\ g[k - 1] # m /\ m <= g[k - 1]
        BY <2>2, <3>1
      <4>3. g[k - 1] \in Nat /\ m \in Nat
        BY <2>2, <4>2
      <4> HIDE DEF f
      <4> QED BY <3>1, <4>1, <4>2, <4>3
    <3>3. CASE j # 1
      <4>1. j - 1 \in 1..n /\ k - 1 \in 1..n /\ j - 1 < k - 1
        BY <2>6, <2>8, <3>1, <3>3
      <4>2. f[j] = g[j - 1]
        BY <3>3
      <4> QED BY <2>5, <3>1, <4>1, <4>2
    <3> QED BY <3>2, <3>3
  <2>9. Sorted(f, U)
    BY <2>7, <2>8 DEF Sorted
  <2> QED BY <2>9
<1>3. P = Nat
  <2> HIDE DEF P
  <2>1. P \in SUBSET Nat
    BY DEF P
  <2> QED BY <1>1, <1>2, <2>1, NumbersByInduction
<1>4. Cardinality(S) \in P
  BY <1>3, FS_CardinalityType
<1> QED BY <1>4

(* So Ascending enumerates the set, and Least is in it. *)
LEMMA AscendingSorts ==
    ASSUME NEW S \in SUBSET Nat, IsFiniteSet(S)
    PROVE  Sorted(Ascending(S), S) /\ Cardinality(S) \in Nat
<1>1. \E f \in [1..Cardinality(S) -> S] : \A j, k \in 1..Cardinality(S) : j < k => f[j] < f[k]
  BY AscendingExists DEF Sorted
<1> QED BY <1>1, FS_CardinalityType DEF Ascending, Sorted

(* Least is the least of a set. *)
LEMMA LeastIsLeast ==
    ASSUME NEW S \in SUBSET Nat, S # {}
    PROVE  Least(S) \in S /\ \A y \in S : Least(S) <= y
BY LeastNumber DEF Least

(* The remainder of a place is the row it stands for. *)
LEMMA PlaceOfRow ==
    ASSUME NEW w \in Nat, NEW k \in Nat, k < w
    PROVE  \A a \in Nat : (a * w + k) % w = k
<1> DEFINE P == {a \in Nat : (a * w + k) % w = k}
<1>1. 0 \in P
  OBVIOUS
<1>2. ASSUME NEW a \in P PROVE a + 1 \in P
  <2>1. (a + 1) * w + k = (a * w + k) + w
    OBVIOUS
  <2> QED BY <1>2, <2>1
<1> QED
  <2> HIDE DEF P
  <2>1. P = Nat
    <3>1. P \in SUBSET Nat
      BY DEF P
    <3> QED BY <1>1, <1>2, <3>1, NumbersByInduction
  <2> QED BY <2>1 DEF P

----------------------------------------------------------------------------
(* Types of the records.                                                   *)

(* A function that is not in progress holds nothing. *)
LEMMA IdleIsTask == Idle \in Task /\ Idle.pc = "idle" /\ Idle.todo = <<>> /\ Idle.done = <<>> /\ InStep(Idle)
<1>1. Idle \in Task
  <2>1. <<>> \in Seq(Item) /\ <<>> \in Seq(Row) /\ 0 \in 0..Retries /\ 0 \in 0..(MaxMessages + 1) /\ 0 \in 0..MaxChains
    BY ClientAssumption
  <2> QED BY <2>1 DEF Idle, Task, Kinds
<1> QED BY <1>1 DEF Idle, InStep, Working

(* Setting one field of a task to a value of its type leaves a task. *)
LEMMA TaskFields ==
    ASSUME NEW r \in Task
    PROVE  /\ \A x \in Kinds : [r EXCEPT !.kind = x] \in Task
           /\ \A x \in {"idle", "keys", "unwrap", "page", "next", "opening"} : [r EXCEPT !.pc = x] \in Task
           /\ \A x \in 0..Retries : [r EXCEPT !.attempt = x] \in Task
           /\ \A x \in 0..(MaxMessages + 1) : [r EXCEPT !.before = x] \in Task
           /\ \A x \in SUBSET Skids : [r EXCEPT !.grants = x] \in Task
           /\ \A x \in 0..MaxChains : [r EXCEPT !.skid = x] \in Task
           /\ \A x \in Seq(Item) : [r EXCEPT !.todo = x] \in Task
           /\ \A x \in Seq(Row) : [r EXCEPT !.done = x] \in Task
BY DEF Task

(* The message a function is at. *)
LEMMA CurrentIsHeard ==
    ASSUME ClientInv, NEW t \in Tasks, ToDo(t)
    PROVE  /\ Current(t) \in Item
           /\ Heard(Current(t).id, Current(t).env)
           /\ Current(t).id \in DOMAIN stored
           /\ stored[Current(t).id] = Current(t).env \/ stored[Current(t).id].edited
           /\ task[t] \in Task /\ task[t].todo \in Seq(Item) /\ task[t].done \in Seq(Row)
<1>1. task[t] \in Task
  BY DEF ClientInv, TypeOK
<1>2. task[t].todo \in Seq(Item) /\ task[t].done \in Seq(Row)
  BY <1>1 DEF Task
<1>3. Len(task[t].done) + 1 \in DOMAIN task[t].todo
  BY <1>2 DEF ToDo
<1>4. Current(t) \in Item
  BY <1>2, <1>3 DEF Current
<1>5. Heard(Current(t).id, Current(t).env)
  BY <1>3 DEF Heard, Current
<1>6. Current(t).id \in Ids /\ Current(t).env \in Envelope
  BY <1>4 DEF Item
<1> QED BY <1>1, <1>2, <1>4, <1>5, <1>6 DEF ClientInv, KeysSealOnce

(* What is stored is heard. *)
LEMMA StoredIsHeard ==
    ASSUME ClientInv, NEW i \in DOMAIN stored
    PROVE  i \in Ids /\ stored[i] \in Envelope /\ Heard(i, stored[i])
<1>1. stored \in Seq(Envelope) /\ Len(stored) <= MaxMessages
  BY DEF ClientInv, TypeOK
<1> QED BY <1>1, ClientAssumption DEF Heard, Ids

----------------------------------------------------------------------------
(* Steps of the reader hear of nothing new.                                *)

NothingNew ==
    /\ \A k \in DOMAIN events' : \E j \in DOMAIN events : events'[k] = events[j]
    /\ \A i \in Ids : raw'[i] = NoEnvelope \/ Heard(i, raw'[i])
    /\ \A u \in Tasks : \A k \in DOMAIN task'[u].todo : Heard(task'[u].todo[k].id, task'[u].todo[k].env)

(* After such a step nothing is heard that was not heard before. *)
LEMMA NothingNewHeard ==
    ASSUME UNCHANGED stored, NothingNew, NEW i \in Ids, NEW env \in Envelope, Heard(i, env)'
    PROVE  Heard(i, env)
<1>1. env # NoEnvelope
  BY DEF Envelope, NoEnvelope, Skids
<1>2. CASE i \in DOMAIN stored' /\ stored'[i] = env
  BY <1>2 DEF Heard
<1>3. CASE \E k \in DOMAIN events' : events'[k].id = i /\ events'[k].env = env
  BY <1>3 DEF Heard, NothingNew
<1>4. CASE raw'[i] = env
  BY <1>1, <1>4 DEF NothingNew
<1>5. CASE \E t \in Tasks : \E k \in DOMAIN task'[t].todo :
             task'[t].todo[k].id = i /\ task'[t].todo[k].env = env
  BY <1>5 DEF NothingNew
<1> QED BY <1>2, <1>3, <1>4, <1>5 DEF Heard

(* So a step of the reader makes no key seal a second message. *)
LEMMA ReaderKeepsKeys ==
    ASSUME KeysSealOnce, UNCHANGED peer, NothingNew
    PROVE  KeysSealOnce'
<1>1. UNCHANGED <<sender, flying, stored>>
  BY DEF peer
<1>2. \A i \in Ids, env \in Envelope : Heard(i, env)' => Heard(i, env)
  BY <1>1, NothingNewHeard
<1>3. \A s, n : Issued(s, n)' <=> Issued(s, n)
  BY <1>1 DEF Issued
<1>4. (\A e \in flying : Issued(e.skid, e.idx))'
  BY <1>1, <1>3 DEF KeysSealOnce
<1>5. ASSUME NEW i \in Ids, NEW env \in Envelope, Heard(i, env)'
      PROVE  /\ i \in DOMAIN stored' /\ (stored'[i] = env \/ stored'[i].edited)
             /\ Issued(env.skid, env.idx)'
             /\ \A e \in flying' : ~(e.skid = env.skid /\ e.idx = env.idx)
  BY <1>1, <1>2, <1>3, <1>5 DEF KeysSealOnce
<1>6. ASSUME NEW i \in Ids, NEW j \in Ids, NEW d \in Envelope, NEW e \in Envelope,
             Heard(i, d)', Heard(j, e)', d.skid = e.skid, d.idx = e.idx
      PROVE  i = j
  BY <1>2, <1>6 DEF KeysSealOnce
<1>7. ASSUME NEW k \in DOMAIN events', events'[k].kind = "edited" PROVE stored'[events'[k].id].edited
  BY <1>1, <1>7 DEF NothingNew, KeysSealOnce
<1> QED BY <1>4, <1>5, <1>6, <1>7 DEF KeysSealOnce

(* What is left to show of a step of the reader. *)
LEMMA ReaderStep ==
    ASSUME ClientInv, UNCHANGED peer, NothingNew, TypeOK', ChainsBehind', PlaintextKept',
           \A u \in Tasks : InStep(task'[u])
    PROVE  ClientInv'
<1>1. UNCHANGED <<sender, flying, stored>>
  BY DEF peer
<1>2. KeysSealOnce'
  BY ReaderKeepsKeys DEF ClientInv
<1> QED BY <1>1, <1>2 DEF ClientInv, InStep, Working

(* Nothing of it depends on what is on screen. *)
LEMMA ChainsStand ==
    ASSUME ChainsBehind, UNCHANGED <<peer, chains>>
    PROVE  ChainsBehind'
BY DEF ChainsBehind, peer, Issued

(* A function that is not opening a message can go on without ending that of another. *)
LEMMA OthersStillOpen ==
    ASSUME ClientInv, NEW t \in Tasks, NEW r, Become(t, r), task[t].pc # "opening", NEW i, BeingOpened(i)
    PROVE  BeingOpened(i)'
<1>1. PICK u \in Tasks : task[u].pc = "opening" /\ Current(u).id = i
  BY DEF BeingOpened
<1>2. u # t /\ task'[u] = task[u]
  BY <1>1 DEF Become, ClientInv, TypeOK
<1>3. (Current(u))' = Current(u)
  BY <1>2 DEF Current
<1> QED BY <1>1, <1>2, <1>3 DEF BeingOpened

(* A step that touches neither chains nor plaintexts and ends no opening loses none. *)
LEMMA PlaintextStands ==
    ASSUME ClientInv, UNCHANGED <<peer, chains, opened>>, \A i : BeingOpened(i) => BeingOpened(i)'
    PROVE  PlaintextKept'
BY DEF ClientInv, PlaintextKept, peer

(* A step of one function that opens nothing. *)
LEMMA TaskStep ==
    ASSUME ClientInv, NEW t \in Tasks, NEW r \in Task, Become(t, r), task[t].pc # "opening", InStep(r),
           \A k \in DOMAIN r.todo : Heard(r.todo[k].id, r.todo[k].env),
           UNCHANGED <<peer, events, chains, opened>>,
           \A i \in Ids : raw'[i] = NoEnvelope \/ Heard(i, raw'[i]),
           raw' \in [Ids -> Envelope \cup {NoEnvelope}], view' \in Seq(Row), timer' \in 0..Retries,
           active' \in BOOLEAN, loading' \in BOOLEAN, refused' \in BOOLEAN
    PROVE  ClientInv'
<1>1. task \in [Tasks -> Task] /\ task' = [task EXCEPT ![t] = r]
  BY DEF ClientInv, TypeOK, Become
<1>2. TypeOK'
  BY <1>1 DEF ClientInv, TypeOK, peer
<1>3. NothingNew
  <2>1. \A k \in DOMAIN events' : \E j \in DOMAIN events : events'[k] = events[j]
    OBVIOUS
  <2>2. ASSUME NEW u \in Tasks, NEW k \in DOMAIN task'[u].todo
        PROVE  Heard(task'[u].todo[k].id, task'[u].todo[k].env)
    <3>1. CASE u = t
      BY <1>1, <3>1
    <3>2. CASE u # t
      <4>1. task'[u] = task[u]
        BY <1>1, <3>2
      <4> QED BY <4>1 DEF Heard
    <3> QED BY <3>1, <3>2
  <2> QED BY <2>1, <2>2 DEF NothingNew
<1>4. ChainsBehind'
  BY ChainsStand DEF ClientInv
<1>5. PlaintextKept'
  BY OthersStillOpen, PlaintextStands
<1>6. \A u \in Tasks : InStep(task'[u])
  <2> TAKE u \in Tasks
  <2>1. CASE u = t
    BY <1>1, <2>1
  <2>2. CASE u # t
    BY <1>1, <2>2 DEF ClientInv
  <2> QED BY <2>1, <2>2
<1> QED BY <1>2, <1>3, <1>4, <1>5, <1>6, ReaderStep

(* The rows and the raw envelopes as they are. *)
LEMMA ScreenStands ==
    ASSUME ClientInv
    PROVE  /\ raw \in [Ids -> Envelope \cup {NoEnvelope}]
           /\ \A i \in Ids : raw[i] = NoEnvelope \/ Heard(i, raw[i])
           /\ view \in Seq(Row) /\ timer \in 0..Retries
           /\ active \in BOOLEAN /\ loading \in BOOLEAN /\ refused \in BOOLEAN
BY DEF ClientInv, TypeOK, Heard

----------------------------------------------------------------------------
(* What a function takes up.                                               *)

(* redecryptUnreadable takes up rows of the screen, with what is held raw of them. *)
LEMMA StuckIsHeard ==
    ASSUME ClientInv
    PROVE  Stuck \in Seq(Item) /\ \A k \in DOMAIN Stuck : Heard(Stuck[k].id, Stuck[k].env)
<1> DEFINE width == Len(view) + 1
           J == {j \in DOMAIN view : view[j].status \in {"no_key", "failed"} /\ raw[view[j].id] # NoEnvelope}
           S == {view[k].id * width + k : k \in J}
           places == Ascending(S)
           Nth(k) == view[places[k] % width]
<1>1. view \in Seq(Row) /\ raw \in [Ids -> Envelope \cup {NoEnvelope}] /\ Len(view) \in Nat
  BY DEF ClientInv, TypeOK
<1>2. \A k \in J : k \in Nat /\ k < width /\ view[k] \in Row /\ view[k].id \in Nat
  <2>1. \A k \in DOMAIN view : k \in Nat /\ k <= Len(view) /\ view[k] \in Row
    BY <1>1
  <2>2. \A row \in Row : row.id \in Nat
    BY DEF Row, Ids
  <2>3. \A k \in Nat : k <= Len(view) => k < width
    BY <1>1
  <2> QED BY <2>1, <2>2, <2>3
<1>3. S \in SUBSET Nat
  BY <1>1, <1>2
<1>4. IsFiniteSet(S)
  <2> DEFINE f == [k \in J |-> view[k].id * width + k]
  <2>1. f \in Surjection(J, S)
    <3>1. f \in [J -> S]
      OBVIOUS
    <3>2. \A s \in S : \E k \in J : f[k] = s
      OBVIOUS
    <3> QED BY <3>1, <3>2 DEF Surjection
  <2>2. IsFiniteSet(1..Len(view)) /\ J \in SUBSET (1..Len(view))
    <3>1. 1 \in Int /\ Len(view) \in Int
      BY <1>1
    <3>2. J \in SUBSET (1..Len(view))
      BY <1>1
    <3> QED BY <3>1, <3>2, FS_Interval
  <2>3. IsFiniteSet(J)
    BY <2>2, FS_Subset
  <2> QED BY <2>1, <2>3, FS_Surjection
<1>5. Sorted(places, S) /\ Cardinality(S) \in Nat
  BY <1>3, <1>4, AscendingSorts
<1>6. places \in [1..Cardinality(S) -> S]
  BY <1>5 DEF Sorted
<1>7. \A s \in S : s % width \in J
  <2> SUFFICES ASSUME NEW k \in J PROVE (view[k].id * width + k) % width \in J
    OBVIOUS
  <2>1. (view[k].id * width + k) % width = k
    <3>1. width \in Nat /\ k \in Nat /\ k < width /\ view[k].id \in Nat
      BY <1>1, <1>2
    <3> HIDE DEF width
    <3>2. \A a \in Nat : (a * width + k) % width = k
      BY ONLY <3>1, PlaceOfRow, Zenon
    <3> DEFINE a == view[k].id
    <3>3. a \in Nat
      BY <3>1
    <3> HIDE DEF a
    <3>4. (a * width + k) % width = k
      BY ONLY <3>2, <3>3, Zenon
    <3> QED BY ONLY <3>4 DEF a
  <2> QED BY <2>1
<1>8. \A k \in 1..Cardinality(S) : places[k] % width \in J
  BY <1>6, <1>7
<1>9. Stuck = [k \in 1..Cardinality(S) |-> [id |-> Nth(k).id, env |-> raw[Nth(k).id], was |-> Nth(k).status]]
  BY <1>6 DEF Stuck
<1> HIDE DEF places, S
<1>10. ASSUME NEW j \in J
       PROVE  /\ [id |-> view[j].id, env |-> raw[view[j].id], was |-> view[j].status] \in Item
              /\ Heard(view[j].id, raw[view[j].id])
  BY <1>1, <1>2 DEF Row, Item, Heard
<1>11. \A k \in 1..Cardinality(S) : Stuck[k] \in Item /\ Heard(Stuck[k].id, Stuck[k].env)
  BY <1>8, <1>9, <1>10
<1> DEFINE n == Cardinality(S)
<1>12. n \in Nat /\ DOMAIN Stuck = 1..n
  BY <1>5, <1>9
<1> HIDE DEF n, Nth
<1>13. \E m \in Nat : Stuck \in [1..m -> Item]
  <2>1. Stuck = [k \in 1..n |-> Stuck[k]]
    BY <1>9, <1>12 DEF n
  <2>2. \A k \in 1..n : Stuck[k] \in Item
    BY <1>11 DEF n
  <2> HIDE DEF Stuck
  <2>3. Stuck \in [1..n -> Item]
    BY <2>1, <2>2
  <2> QED BY <2>3, <1>12
<1>14. Stuck \in Seq(Item)
  BY <1>13
<1>15. \A k \in DOMAIN Stuck : Heard(Stuck[k].id, Stuck[k].env)
  BY <1>11, <1>12 DEF n
<1> QED BY <1>14, <1>15

(* A page is made of stored messages. *)
LEMMA PageIsHeard ==
    ASSUME ClientInv, NEW n
    PROVE  LET ids == Ascending(PageIds(n))
               page == [k \in DOMAIN ids |-> [id |-> ids[k], env |-> stored[ids[k]], was |-> "no_key"]]
           IN page \in Seq(Item) /\ \A k \in DOMAIN page : Heard(page[k].id, page[k].env)
<1> DEFINE S == PageIds(n)
           ids == Ascending(S)
           page == [k \in DOMAIN ids |-> [id |-> ids[k], env |-> stored[ids[k]], was |-> "no_key"]]
<1>1. stored \in Seq(Envelope) /\ Len(stored) \in Nat /\ S \subseteq 1..Len(stored)
  BY DEF ClientInv, TypeOK, PageIds
<1>2. IsFiniteSet(S) /\ S \in SUBSET Nat
  <2>1. IsFiniteSet(1..Len(stored))
    BY <1>1, FS_Interval
  <2> QED BY <1>1, <2>1, FS_Subset
<1>3. ids \in [1..Cardinality(S) -> S] /\ Cardinality(S) \in Nat
  BY <1>2, AscendingSorts DEF Sorted
<1> HIDE DEF ids, S
<1>4. \A k \in 1..Cardinality(S) : ids[k] \in Ids /\ stored[ids[k]] \in Envelope /\ Heard(ids[k], stored[ids[k]])
  <2> TAKE k \in 1..Cardinality(S)
  <2>1. ids[k] \in DOMAIN stored
    <3>1. ids[k] \in S
      BY <1>3
    <3>2. DOMAIN stored = 1..Len(stored)
      BY <1>1
    <3> QED BY <1>1, <3>1, <3>2
  <2> QED BY <2>1, StoredIsHeard
<1>5. \A k \in 1..Cardinality(S) : page[k] \in Item /\ Heard(page[k].id, page[k].env)
  BY <1>3, <1>4 DEF Item, Statuses
<1>6. page \in Seq(Item) /\ DOMAIN page = 1..Cardinality(S)
  BY <1>3, <1>5
<1> QED BY <1>5, <1>6 DEF ids, S

(* ingestDistributions goes on to a distribution, to the stuck rows or to the page. *)
LEMMA IngestContinues ==
    ASSUME ClientInv, NEW t \in Tasks, task[t].pc \in {"keys", "unwrap"},
           NEW grants \in SUBSET Skids, NEW held, Ingest(t, grants, held)
    PROVE  \E r \in Task : /\ Become(t, r) /\ InStep(r)
                           /\ \A k \in DOMAIN r.todo : Heard(r.todo[k].id, r.todo[k].env)
<1> DEFINE missing == Missing(grants, held)
           q == task[t]
           r == IF missing # {}
                THEN [q EXCEPT !.pc = "unwrap", !.skid = Least(missing), !.grants = {s \in grants : s > Least(missing)}]
                ELSE IF q.kind = "retry"
                THEN [q EXCEPT !.pc = "next", !.grants = {}, !.skid = 0, !.todo = Stuck]
                ELSE [q EXCEPT !.pc = "page", !.grants = {}, !.skid = 0]
<1>1. Become(t, r)
  BY DEF Ingest
<1>2. q \in Task /\ q.todo = <<>> /\ q.done = <<>> /\ q.kind \in {"open", "older", "retry"}
  BY DEF ClientInv, TypeOK, InStep, Working
<1> SUFFICES r \in Task /\ InStep(r) /\ \A k \in DOMAIN r.todo : Heard(r.todo[k].id, r.todo[k].env)
  <2> HIDE DEF r
  <2> QED BY <1>1
<1>3. CASE missing # {}
  <2>1. Least(missing) \in Skids
    <3>1. missing \in SUBSET Nat /\ missing \in SUBSET Skids
      BY DEF Missing, Skids
    <3> QED BY <1>3, <3>1, LeastIsLeast
  <2> DEFINE m == Least(missing)
             g == {s \in grants : s > m}
             r1 == [q EXCEPT !.pc = "unwrap"]
             r2 == [r1 EXCEPT !.skid = m]
             r3 == [r2 EXCEPT !.grants = g]
  <2>2. m \in 0..MaxChains /\ g \in SUBSET Skids
    <3>1. m \in 0..MaxChains
      BY <2>1, ClientAssumption DEF Skids
    <3> QED BY <3>1
  <2> HIDE DEF m
  <2> HIDE DEF g
  <2>3. r1 \in Task
    BY <1>2, TaskFields
  <2>4. r2 \in Task
    <3> HIDE DEF r1
    <3> QED BY <2>2, <2>3, TaskFields
  <2>5. r3 \in Task
    <3> HIDE DEF r2
    <3> QED BY <2>2, <2>4, TaskFields
  <2>6. r = r3
    BY <1>2, <1>3 DEF Task, m, g
  <2>7. r3.pc = "unwrap" /\ r3.kind = q.kind /\ r3.todo = <<>> /\ r3.done = <<>>
    BY <1>2 DEF Task
  <2> QED
    <3> HIDE DEF r, r3
    <3> QED BY <1>2, <2>5, <2>6, <2>7 DEF InStep, Working
<1> DEFINE b1 == [q EXCEPT !.grants = {}]
           b2 == [b1 EXCEPT !.skid = 0]
<1>4. b2 \in Task
  <2>1. b1 \in Task
    BY <1>2, TaskFields
  <2>2. 0 \in 0..MaxChains
    BY ClientAssumption
  <2> HIDE DEF b1
  <2> QED BY <2>1, <2>2, TaskFields
<1>5. CASE missing = {} /\ q.kind = "retry"
  <2> DEFINE r1 == [b2 EXCEPT !.pc = "next"]
             r2 == [r1 EXCEPT !.todo = Stuck]
  <2>1. Stuck \in Seq(Item) /\ \A k \in DOMAIN Stuck : Heard(Stuck[k].id, Stuck[k].env)
    BY StuckIsHeard
  <2>2. r1 \in Task
    <3> HIDE DEF b2
    <3> QED BY <1>4, TaskFields
  <2>3. r2 \in Task
    <3> HIDE DEF r1
    <3> QED BY <2>1, <2>2, TaskFields
  <2>4. r = r2
    BY <1>2, <1>5 DEF Task
  <2>5. r2.pc = "next" /\ r2.kind = "retry" /\ r2.todo = Stuck /\ r2.done = <<>>
    BY <1>2, <1>5 DEF Task
  <2> QED
    <3> HIDE DEF r, r2
    <3>1. Len(<<>>) = 0 /\ Len(Stuck) \in Nat
      BY <2>1
    <3> QED BY <2>1, <2>3, <2>4, <2>5, <3>1 DEF InStep, Working
<1>6. CASE missing = {} /\ q.kind # "retry"
  <2> DEFINE r1 == [b2 EXCEPT !.pc = "page"]
  <2>1. r1 \in Task
    <3> HIDE DEF b2
    <3> QED BY <1>4, TaskFields
  <2>2. r = r1
    BY <1>2, <1>6 DEF Task
  <2>3. r1.pc = "page" /\ r1.kind = q.kind /\ r1.todo = <<>> /\ r1.done = <<>>
    BY <1>2 DEF Task
  <2> QED
    <3> HIDE DEF r, r1
    <3> QED BY <1>2, <2>1, <2>2, <2>3 DEF InStep, Working
<1> QED BY <1>3, <1>5, <1>6

----------------------------------------------------------------------------
(* What the reader does.                                                   *)

(* Opening a chat, or opening it again, drops the rows and what is held raw. *)
LEMMA OpenChatStep == ASSUME ClientInv, NEW t \in Tasks, OpenChat(t) PROVE ClientInv'
<1> DEFINE r == [Idle EXCEPT !.kind = "open", !.pc = "keys", !.before = MaxMessages + 1]
<1>1. r \in Task /\ r.pc = "keys" /\ r.kind = "open" /\ r.todo = <<>> /\ r.done = <<>>
  <2>1. MaxMessages + 1 \in 0..(MaxMessages + 1)
    BY ClientAssumption
  <2> QED BY <2>1, IdleIsTask DEF Idle, Task, Kinds
<1>2. Become(t, r) /\ task[t].pc = "idle" /\ UNCHANGED <<peer, events, chains, opened, refused>>
  BY DEF OpenChat
<1>3. /\ raw' = [i \in Ids |-> NoEnvelope] /\ view' = <<>> /\ timer' = NoTimer
      /\ active' = TRUE /\ loading' = TRUE
  BY DEF OpenChat, ResetConversation
<1>4. timer' \in 0..Retries /\ view' \in Seq(Row)
  BY <1>3, ClientAssumption DEF NoTimer
<1> HIDE DEF r
<1>5. InStep(r)
  BY <1>1 DEF InStep, Working
<1> QED BY <1>1, <1>2, <1>3, <1>4, <1>5, TaskStep, ScreenStands

(* A page backwards is asked for from the first row on. *)
LEMMA LoadOlderStep == ASSUME ClientInv, NEW t \in Tasks, LoadOlder(t) PROVE ClientInv'
<1> DEFINE r == [Idle EXCEPT !.kind = "older", !.pc = "keys", !.before = view[1].id]
<1>1. r \in Task /\ r.pc = "keys" /\ r.kind = "older" /\ r.todo = <<>> /\ r.done = <<>>
  <2>1. view[1].id \in 0..(MaxMessages + 1)
    <3>1. view \in Seq(Row) /\ view # <<>>
      BY DEF LoadOlder, ClientInv, TypeOK
    <3>2. view[1] \in Row
      BY <3>1
    <3> QED BY <3>2, ClientAssumption DEF Row, Ids
  <2> QED BY <2>1, IdleIsTask DEF Idle, Task, Kinds
<1>2. Become(t, r) /\ task[t].pc = "idle" /\ UNCHANGED <<peer, events, active, raw, view, timer, chains, opened, refused>>
      /\ loading' = TRUE
  BY DEF LoadOlder
<1> HIDE DEF r
<1>3. InStep(r)
  BY <1>1 DEF InStep, Working
<1> QED BY <1>1, <1>2, <1>3, TaskStep, ScreenStands

(* A step that moves no function. *)
LEMMA RestStep ==
    ASSUME ClientInv, UNCHANGED <<peer, task, chains, opened>>,
           \A k \in DOMAIN events' : \E j \in DOMAIN events : events'[k] = events[j],
           \A i \in Ids : raw'[i] = NoEnvelope \/ Heard(i, raw'[i]),
           raw' \in [Ids -> Envelope \cup {NoEnvelope}], view' \in Seq(Row), timer' \in 0..Retries,
           events' \in Seq(Event),
           active' \in BOOLEAN, loading' \in BOOLEAN, refused' \in BOOLEAN
    PROVE  ClientInv'
<1>1. TypeOK'
  BY DEF ClientInv, TypeOK, peer
<1>2. NothingNew
  BY DEF NothingNew, Heard
<1>3. ChainsBehind'
  BY ChainsStand DEF ClientInv
<1>4. \A i : BeingOpened(i) => BeingOpened(i)'
  BY DEF BeingOpened, Current
<1>5. PlaintextKept'
  BY <1>4, PlaintextStands
<1>6. \A u \in Tasks : InStep(task'[u])
  BY DEF ClientInv
<1> QED BY <1>1, <1>2, <1>3, <1>5, <1>6, ReaderStep

(* Closing the chat stops nothing that is in progress. *)
LEMMA CloseChatStep == ASSUME ClientInv, CloseChat PROVE ClientInv'
<1>1. /\ raw' = [i \in Ids |-> NoEnvelope] /\ view' = <<>> /\ timer' = NoTimer
      /\ active' = FALSE /\ UNCHANGED <<peer, events, loading, chains, opened, task, refused>>
  BY DEF CloseChat, ResetConversation
<1>2. timer' \in 0..Retries /\ view' \in Seq(Row)
  BY <1>1, ClientAssumption DEF NoTimer
<1>3. events' \in Seq(Event)
  BY <1>1 DEF ClientInv, TypeOK
<1> QED BY <1>1, <1>2, <1>3, RestStep, ScreenStands

(* An event that reaches nobody. *)
LEMMA MissStep == ASSUME ClientInv, Miss PROVE ClientInv'
<1>1. events \in Seq(Event) /\ events # <<>> /\ events' = Tail(events)
      /\ UNCHANGED <<peer, screen, chains, opened, task, refused>>
  BY DEF Miss, ClientInv, TypeOK
<1>2. events' \in Seq(Event) /\ \A k \in DOMAIN events' : events'[k] = events[k + 1] /\ k + 1 \in DOMAIN events
  BY <1>1
<1>3. UNCHANGED <<active, loading, raw, view, timer>>
  BY <1>1 DEF screen
<1> QED BY <1>1, <1>2, <1>3, RestStep, ScreenStands

(* The retry timer starts a retry, or nothing if the chat was closed. *)
LEMMA TimerFiresStep == ASSUME ClientInv, NEW t \in Tasks, TimerFires(t) PROVE ClientInv'
<1>1. /\ task[t].pc = "idle" /\ timer' = NoTimer
      /\ UNCHANGED <<peer, events, active, loading, raw, view, chains, opened, refused>>
  BY DEF TimerFires
<1>2. timer' \in 0..Retries /\ events' \in Seq(Event)
  BY <1>1, ClientAssumption DEF NoTimer, ClientInv, TypeOK
<1>3. CASE active
  <2> DEFINE r == [Idle EXCEPT !.kind = "retry", !.pc = "keys", !.attempt = timer]
  <2>1. r \in Task /\ r.pc = "keys" /\ r.kind = "retry" /\ r.todo = <<>> /\ r.done = <<>>
    <3>1. timer \in 0..Retries
      BY ScreenStands
    <3> QED BY <3>1, IdleIsTask DEF Idle, Task, Kinds
  <2>2. Become(t, r)
    BY <1>3 DEF TimerFires
  <2> HIDE DEF r
  <2>3. InStep(r)
    BY <2>1 DEF InStep, Working
  <2> QED BY <1>1, <1>2, <2>1, <2>2, <2>3, TaskStep, ScreenStands
<1>4. CASE ~active
  <2>1. UNCHANGED task
    BY <1>4 DEF TimerFires
  <2> QED BY <1>1, <1>2, <2>1, RestStep, ScreenStands
<1> QED BY <1>3, <1>4

(* onMessageEdited forgets the plaintext of a message that is stored as edited by then. *)
LEMMA DeliverStep == ASSUME ClientInv, NEW t \in Tasks, Deliver(t) PROVE ClientInv'
<1> DEFINE e == Head(events)
           item == [id |-> e.id, env |-> e.env, was |-> "no_key"]
           r == [Idle EXCEPT !.kind = IF e.kind = "new" THEN "incoming" ELSE "edited",
                             !.pc = "next", !.todo = <<item>>]
<1>1. events \in Seq(Event) /\ events # <<>> /\ events' = Tail(events)
      /\ task[t].pc = "idle" /\ task \in [Tasks -> Task]
  BY DEF Deliver, ClientInv, TypeOK
<1>2. e = events[1] /\ 1 \in DOMAIN events /\ e \in Event
  BY <1>1
<1>3. events' \in Seq(Event) /\ \A k \in DOMAIN events' : events'[k] = events[k + 1] /\ k + 1 \in DOMAIN events
  BY <1>1
<1>4. e.id \in Ids /\ e.env \in Envelope /\ Heard(e.id, e.env)
  BY <1>2 DEF Event, Heard
<1> HIDE DEF e
<1>5. /\ raw' = [raw EXCEPT ![e.id] = e.env] /\ Become(t, r)
      /\ opened' = IF e.kind = "edited" THEN [opened EXCEPT ![e.id] = Unopened] ELSE opened
      /\ UNCHANGED <<peer, active, loading, view, timer, chains, refused>>
  BY DEF Deliver, e
<1>6. item \in Item /\ <<item>> \in Seq(Item) /\ Len(<<item>>) = 1 /\ <<item>>[1] = item
  BY <1>4 DEF Item, Statuses
<1> DEFINE kind == IF e.kind = "new" THEN "incoming" ELSE "edited"
           r1 == [Idle EXCEPT !.kind = kind]
           r2 == [r1 EXCEPT !.pc = "next"]
           r3 == [r2 EXCEPT !.todo = <<item>>]
<1>7. r = r3 /\ r3.pc = "next" /\ r3.todo = <<item>> /\ r3.done = <<>>
  <2> HIDE DEF item, kind
  <2> QED BY DEF Idle, kind
<1>8. r3 \in Task
  <2>1. kind \in Kinds
    BY DEF Kinds
  <2>2. r1 \in Task
    <3> HIDE DEF kind
    <3> QED BY <2>1, IdleIsTask, TaskFields
  <2>3. r2 \in Task
    <3> HIDE DEF r1
    <3> QED BY <2>2, TaskFields
  <2> HIDE DEF r2, item
  <2> QED BY <1>6, <2>3, TaskFields
<1> HIDE DEF r, r3, item
<1>9. InStep(r3) /\ r3 = r
  <2>1. Len(<<>>) = 0
    OBVIOUS
  <2> QED BY <1>6, <1>7, <2>1 DEF InStep, Working
<1>10. \A u \in Tasks : task'[u] = IF u = t THEN r3 ELSE task[u]
  BY <1>1, <1>5, <1>7 DEF Become
<1>11. NothingNew
  <2>1. \A k \in DOMAIN r3.todo : r3.todo[k].id = e.id /\ r3.todo[k].env = e.env
    BY <1>6, <1>7 DEF item
  <2>2. ASSUME NEW u \in Tasks, NEW k \in DOMAIN task'[u].todo
        PROVE  Heard(task'[u].todo[k].id, task'[u].todo[k].env)
    <3>1. CASE u = t
      BY <1>4, <1>10, <2>1, <3>1
    <3>2. CASE u # t
      <4>1. task'[u] = task[u]
        BY <1>10, <3>2
      <4> QED BY <4>1 DEF Heard
    <3> QED BY <3>1, <3>2
  <2>3. \A i \in Ids : raw'[i] = NoEnvelope \/ Heard(i, raw'[i])
    BY <1>4, <1>5, ScreenStands
  <2> QED BY <1>3, <2>2, <2>3 DEF NothingNew
<1>12. TypeOK'
  <2>1. task' \in [Tasks -> Task]
    BY <1>1, <1>5, <1>7, <1>8 DEF Become
  <2>2. raw' \in [Ids -> Envelope \cup {NoEnvelope}]
    BY <1>4, <1>5, ScreenStands
  <2>3. opened' \in [Ids -> [status : {"ok", "failed"}, env : Envelope] \cup {Unopened}]
    BY <1>4, <1>5 DEF ClientInv, TypeOK
  <2> QED BY <1>3, <1>5, <2>1, <2>2, <2>3 DEF ClientInv, TypeOK, peer
<1>13. ChainsBehind'
  BY <1>5, ChainsStand DEF ClientInv
<1>14. PlaintextKept'
  <2>1. e.kind = "edited" => stored[e.id].edited
    BY <1>2 DEF ClientInv, KeysSealOnce
  <2>2. \A i : BeingOpened(i) => BeingOpened(i)'
    BY <1>1, <1>5, OthersStillOpen
  <2>3. UNCHANGED <<stored, chains>>
    BY <1>5 DEF peer
  <2>4. \A i \in DOMAIN stored : ~stored[i].edited => opened'[i] = opened[i]
    BY <1>4, <1>5, <2>1, StoredIsHeard DEF ClientInv, TypeOK
  <2> QED BY <2>2, <2>3, <2>4 DEF ClientInv, PlaintextKept
<1>15. \A u \in Tasks : InStep(task'[u])
  BY <1>9, <1>10 DEF ClientInv
<1> QED BY <1>5, <1>11, <1>12, <1>13, <1>14, <1>15, ReaderStep

(* The answer to GET keys. *)
LEMMA KeysStep == ASSUME ClientInv, NEW t \in Tasks, Keys(t) PROVE ClientInv'
<1>1. task[t].pc = "keys" /\ Ingest(t, 1..sender.skid, chains)
      /\ UNCHANGED <<peer, events, screen, chains, opened, refused>>
  BY DEF Keys, At
<1>2. 1..sender.skid \in SUBSET Skids
  <2>1. sender.skid \in 0..MaxChains
    BY DEF ClientInv, TypeOK
  <2> QED BY <2>1, ClientAssumption DEF Skids
<1>3. PICK r \in Task : Become(t, r) /\ InStep(r) /\ \A k \in DOMAIN r.todo : Heard(r.todo[k].id, r.todo[k].env)
  BY <1>1, <1>2, IngestContinues
<1>4. UNCHANGED <<active, loading, raw, view, timer>>
  BY <1>1 DEF screen
<1> QED BY <1>1, <1>3, <1>4, TaskStep, ScreenStands

(* A chain that is unwrapped, again or for the first time, answers for every key. *)
LEMMA UnwrapStep == ASSUME ClientInv, NEW t \in Tasks, Unwrap(t) PROVE ClientInv'
<1>0. task[t].pc = "unwrap" /\ Ingest(t, task[t].grants, chains')
  BY DEF Unwrap, At
<1>1. /\ task[t].pc = "unwrap"
      /\ chains' = [chains EXCEPT ![task[t].skid] = FreshChain] \/ chains' = chains
      /\ UNCHANGED <<peer, events, screen, opened, refused>>
  BY DEF Unwrap, At
<1>2. task[t].grants \in SUBSET Skids /\ task \in [Tasks -> Task]
  BY DEF ClientInv, TypeOK, Task
<1>3. PICK r \in Task : Become(t, r) /\ InStep(r) /\ \A k \in DOMAIN r.todo : Heard(r.todo[k].id, r.todo[k].env)
  BY <1>0, <1>2, IngestContinues
<1>4. UNCHANGED <<active, loading, raw, view, timer>>
  BY <1>1 DEF screen
<1>5. FreshChain \in ReceiverChain /\ RetainsThePast(FreshChain) /\ \A n \in Nat : CanDerive(FreshChain, n)
  BY DEF FreshChain, ReceiverChain, RetainsThePast, CanDerive
<1>6. chains \in [Skids -> ReceiverChain \cup {NoChain}]
  BY DEF ClientInv, TypeOK
<1>7. \A s \in Skids : chains'[s] = chains[s] \/ chains'[s] = FreshChain
  BY <1>1, <1>6
<1>8. \A u \in Tasks : task'[u] = IF u = t THEN r ELSE task[u]
  BY <1>2, <1>3 DEF Become
<1>9. NothingNew
  <2>1. \A u \in Tasks : \A k \in DOMAIN task'[u].todo : Heard(task'[u].todo[k].id, task'[u].todo[k].env)
    <3> TAKE u \in Tasks
    <3> TAKE k \in DOMAIN task'[u].todo
    <3>1. CASE u = t
      BY <1>3, <1>8, <3>1
    <3>2. CASE u # t
      <4>1. task'[u] = task[u]
        BY <1>8, <3>2
      <4> QED BY <4>1 DEF Heard
    <3> QED BY <3>1, <3>2
  <2> QED BY <1>1, <1>4, <2>1, ScreenStands DEF NothingNew
<1>10. TypeOK'
  <2>1. task' \in [Tasks -> Task]
    BY <1>2, <1>3 DEF Become
  <2>2. chains' \in [Skids -> ReceiverChain \cup {NoChain}]
    BY <1>1, <1>5, <1>6
  <2> QED BY <1>1, <1>4, <2>1, <2>2 DEF ClientInv, TypeOK, peer
<1>11. ChainsBehind'
  <2> SUFFICES ASSUME NEW s \in Skids, chains'[s] # NoChain
               PROVE  /\ RetainsThePast(chains'[s])
                      /\ \A n \in Nat : ~CanDerive(chains'[s], n) =>
                            Issued(s, n)' /\ \A e \in flying' : ~(e.skid = s /\ e.idx = n)
    BY DEF ChainsBehind
  <2>1. CASE chains'[s] = FreshChain
    BY <1>5, <2>1
  <2>2. CASE chains'[s] = chains[s]
    BY <1>1, <2>2 DEF ClientInv, ChainsBehind, peer, Issued
  <2> QED BY <1>7, <2>1, <2>2
<1>12. PlaintextKept'
  <2>1. \A i : BeingOpened(i) => BeingOpened(i)'
    BY <1>0, <1>3, OthersStillOpen
  <2>2. UNCHANGED <<stored, opened>>
    BY <1>1 DEF peer
  <2>3. ASSUME NEW i \in DOMAIN stored, ~stored[i].edited, chains'[stored[i].skid] # NoChain,
               ~CanDerive(chains'[stored[i].skid], stored[i].idx)
        PROVE  opened[i].status = "ok" \/ BeingOpened(i)
    <3>1. stored[i].skid \in Skids /\ stored[i].idx \in Nat
      BY StoredIsHeard DEF Envelope
    <3>2. chains'[stored[i].skid] = chains[stored[i].skid]
      BY <1>5, <1>7, <2>3, <3>1
    <3> QED BY <2>3, <3>2 DEF ClientInv, PlaintextKept
  <2> QED BY <2>1, <2>2, <2>3 DEF PlaintextKept
<1>13. \A u \in Tasks : InStep(task'[u])
  BY <1>3, <1>8 DEF ClientInv
<1> QED BY <1>1, <1>9, <1>10, <1>11, <1>12, <1>13, ReaderStep

(* The answer to GET messages. *)
LEMMA PageStep == ASSUME ClientInv, NEW t \in Tasks, Page(t) PROVE ClientInv'
<1> DEFINE ids == Ascending(PageIds(task[t].before))
           page == [k \in DOMAIN ids |-> [id |-> ids[k], env |-> stored[ids[k]], was |-> "no_key"]]
           r1 == [task[t] EXCEPT !.pc = "next"]
           r2 == [r1 EXCEPT !.todo = page]
<1>1. page \in Seq(Item) /\ \A k \in DOMAIN page : Heard(page[k].id, page[k].env)
  BY PageIsHeard
<1>2. Become(t, [task[t] EXCEPT !.pc = "next", !.todo = page]) /\ task[t].pc = "page"
      /\ UNCHANGED <<peer, events, screen, chains, opened, refused>>
  BY DEF Page, At
<1> HIDE DEF page
<1>3. task[t] \in Task /\ task[t].done = <<>> /\ task[t].kind \in {"open", "older", "retry"}
  BY <1>2 DEF ClientInv, TypeOK, InStep, Working
<1>4. r1 \in Task
  BY <1>3, TaskFields
<1>5. r2 \in Task
  <2> HIDE DEF r1
  <2> QED BY <1>1, <1>4, TaskFields
<1>6. Become(t, r2) /\ r2.pc = "next" /\ r2.todo = page /\ r2.done = <<>> /\ r2.kind = task[t].kind
  BY <1>2, <1>3 DEF Task, Become
<1> HIDE DEF r2
<1>7. InStep(r2)
  <2>1. Len(<<>>) = 0 /\ Len(page) \in Nat
    BY <1>1
  <2> QED BY <1>3, <1>6, <2>1 DEF InStep, Working
<1>8. UNCHANGED <<active, loading, raw, view, timer>>
  BY <1>2 DEF screen
<1> QED BY <1>1, <1>2, <1>5, <1>6, <1>7, <1>8, TaskStep, ScreenStands

(* The timer stays within the number of retries. *)
LEMMA ScheduleTyped ==
    ASSUME timer \in 0..Retries, NEW rows, NEW attempt \in Nat, Schedule(rows, attempt)
    PROVE  timer' \in 0..Retries
BY ClientAssumption DEF Schedule

(* A step that ends a function that opens nothing. *)
LEMMA TaskRests ==
    ASSUME ClientInv, NEW t \in Tasks, Become(t, Idle), task[t].pc # "opening",
           UNCHANGED <<peer, events, chains, opened>>,
           \A i \in Ids : raw'[i] = NoEnvelope \/ Heard(i, raw'[i]),
           raw' \in [Ids -> Envelope \cup {NoEnvelope}], view' \in Seq(Row), timer' \in 0..Retries,
           active' \in BOOLEAN, loading' \in BOOLEAN, refused' \in BOOLEAN
    PROVE  ClientInv'
<1>1. \A k \in DOMAIN Idle.todo : Heard(Idle.todo[k].id, Idle.todo[k].env)
  BY IdleIsTask
<1> QED BY <1>1, IdleIsTask, TaskStep

(* A failed request ends its function. *)
LEMMA RequestFailsStep == ASSUME ClientInv, NEW t \in Tasks, RequestFails(t) PROVE ClientInv'
<1>1. /\ task[t].pc # "opening" /\ Become(t, Idle)
      /\ view' = IF task[t].kind = "open" THEN <<>> ELSE view
      /\ loading' = IF task[t].kind = "retry" THEN loading ELSE FALSE
      /\ IF task[t].kind = "retry" THEN Schedule(view, task[t].attempt + 1) ELSE UNCHANGED timer
      /\ refused' = (refused \/ task[t].kind = "retry")
      /\ UNCHANGED <<peer, events, active, raw, chains, opened>>
  BY DEF RequestFails, At
<1>2. task[t].attempt + 1 \in Nat
  BY ClientAssumption DEF ClientInv, TypeOK, Task
<1>3. timer' \in 0..Retries
  BY <1>1, <1>2, ScheduleTyped, ScreenStands
<1>4. view' \in Seq(Row)
  BY <1>1, ScreenStands
<1>5. loading' \in BOOLEAN
  BY <1>1, ScreenStands
<1>6. refused' \in BOOLEAN
  BY <1>1, ScreenStands
<1>7. UNCHANGED <<peer, events, active, raw, chains, opened>>
  BY <1>1
<1> QED BY <1>1, <1>3, <1>4, <1>5, <1>6, <1>7, TaskRests, ScreenStands

----------------------------------------------------------------------------
(* decrypt and decryptOnce.                                                *)

(* Adding a result to those of a function. *)
LEMMA ResultFits ==
    ASSUME ClientInv, NEW t \in Tasks, task[t].pc \in Working, ToDo(t),
           NEW status \in Statuses, NEW env \in Envelope
    PROVE  /\ Result(t, status, env) \in Task
           /\ InStep(Result(t, status, env))
           /\ Result(t, status, env).pc = "next"
           /\ Result(t, status, env).todo = task[t].todo
           /\ \A k \in DOMAIN Result(t, status, env).todo :
                 Heard(Result(t, status, env).todo[k].id, Result(t, status, env).todo[k].env)
<1> DEFINE row == [id |-> Current(t).id, status |-> status, env |-> env]
           r1 == [task[t] EXCEPT !.pc = "next"]
           r2 == [r1 EXCEPT !.done = Append(task[t].done, row)]
<1>1. Current(t) \in Item /\ task[t] \in Task /\ task[t].todo \in Seq(Item) /\ task[t].done \in Seq(Row)
  BY CurrentIsHeard
<1>2. row \in Row
  BY <1>1 DEF Item, Row
<1> HIDE DEF row
<1>3. Append(task[t].done, row) \in Seq(Row) /\ Len(Append(task[t].done, row)) = Len(task[t].done) + 1
  BY <1>1, <1>2
<1>4. r1 \in Task
  BY <1>1, TaskFields
<1>5. r2 \in Task
  <2> HIDE DEF r1
  <2> QED BY <1>3, <1>4, TaskFields
<1>6. Result(t, status, env) = r2
  BY <1>1 DEF Result, Task, row
<1>7. r2.pc = "next" /\ r2.todo = task[t].todo /\ r2.kind = task[t].kind /\ r2.done = Append(task[t].done, row)
  BY <1>1 DEF Task
<1> HIDE DEF r2
<1>8. InStep(r2)
  <2>1. Len(task[t].done) < Len(task[t].todo) /\ Len(task[t].done) \in Nat /\ Len(task[t].todo) \in Nat
    BY <1>1 DEF ToDo
  <2>2. InStep(task[t])
    BY DEF ClientInv
  <2> QED BY <1>3, <1>7, <2>1, <2>2 DEF InStep, Working
<1>9. \A k \in DOMAIN task[t].todo : Heard(task[t].todo[k].id, task[t].todo[k].env)
  BY DEF Heard
<1> QED BY <1>5, <1>6, <1>7, <1>8, <1>9

(* A plaintext that is retained is not opened again. *)
LEMMA FromCacheStep == ASSUME ClientInv, NEW t \in Tasks, FromCache(t) PROVE ClientInv'
<1> DEFINE known == opened[Current(t).id]
<1>1. /\ task[t].pc = "next" /\ ToDo(t) /\ known # Unopened /\ Become(t, Result(t, known.status, known.env))
      /\ UNCHANGED <<peer, events, screen, chains, opened, refused>>
  BY DEF FromCache, At
<1>2. known.status \in Statuses /\ known.env \in Envelope
  <2>1. Current(t).id \in Ids
    BY <1>1, CurrentIsHeard DEF Item
  <2>2. known \in [status : {"ok", "failed"}, env : Envelope]
    BY <1>1, <2>1 DEF ClientInv, TypeOK
  <2> QED BY <2>2 DEF Statuses
<1> HIDE DEF known
<1>3. UNCHANGED <<active, loading, raw, view, timer>>
  BY <1>1 DEF screen
<1>4. task[t].pc \in Working /\ task[t].pc # "opening"
  BY <1>1 DEF Working
<1> DEFINE r == Result(t, known.status, known.env)
<1>5. r \in Task /\ InStep(r) /\ \A k \in DOMAIN r.todo : Heard(r.todo[k].id, r.todo[k].env)
  BY <1>1, <1>2, <1>4, ResultFits
<1> HIDE DEF r
<1> QED BY <1>1, <1>3, <1>4, <1>5, TaskStep, ScreenStands DEF r

(* A message whose chain is not held uses up nothing. *)
LEMMA NoKeyStep == ASSUME ClientInv, NEW t \in Tasks, NoKey(t) PROVE ClientInv'
<1> DEFINE r == Result(t, "no_key", Current(t).env)
<1>1. /\ task[t].pc = "next" /\ ToDo(t) /\ Become(t, r)
      /\ UNCHANGED <<peer, events, screen, chains, opened, refused>>
  BY DEF NoKey, At
<1>2. Current(t).env \in Envelope /\ "no_key" \in Statuses
  BY <1>1, CurrentIsHeard DEF Item, Statuses
<1>3. UNCHANGED <<active, loading, raw, view, timer>>
  BY <1>1 DEF screen
<1>4. task[t].pc \in Working /\ task[t].pc # "opening"
  BY <1>1 DEF Working
<1>5. r \in Task /\ InStep(r) /\ \A k \in DOMAIN r.todo : Heard(r.todo[k].id, r.todo[k].env)
  BY <1>1, <1>2, <1>4, ResultFits
<1> HIDE DEF r
<1> QED BY <1>1, <1>3, <1>4, <1>5, TaskStep, ScreenStands

(* A step of one function among those that open messages. *)
LEMMA OpeningStep ==
    ASSUME ClientInv, NEW t \in Tasks, NEW r \in Task, Become(t, r), InStep(r),
           \A k \in DOMAIN r.todo : Heard(r.todo[k].id, r.todo[k].env),
           UNCHANGED <<peer, events, screen, refused>>,
           chains' \in [Skids -> ReceiverChain \cup {NoChain}],
           opened' \in [Ids -> [status : {"ok", "failed"}, env : Envelope] \cup {Unopened}],
           ChainsBehind', PlaintextKept'
    PROVE  ClientInv'
<1>1. task \in [Tasks -> Task] /\ task' = [task EXCEPT ![t] = r]
  BY DEF ClientInv, TypeOK, Become
<1>2. UNCHANGED <<active, loading, raw, view, timer>>
  BY DEF screen
<1>3. \A u \in Tasks : task'[u] = IF u = t THEN r ELSE task[u]
  BY <1>1
<1>4. NothingNew
  <2>1. \A u \in Tasks : \A k \in DOMAIN task'[u].todo : Heard(task'[u].todo[k].id, task'[u].todo[k].env)
    <3> TAKE u \in Tasks
    <3> TAKE k \in DOMAIN task'[u].todo
    <3>1. CASE u = t
      BY <1>3, <3>1
    <3>2. CASE u # t
      <4>1. task'[u] = task[u]
        BY <1>3, <3>2
      <4> QED BY <4>1 DEF Heard
    <3> QED BY <3>1, <3>2
  <2> QED BY <1>2, <2>1, ScreenStands DEF NothingNew
<1>5. TypeOK'
  BY <1>1, <1>2 DEF ClientInv, TypeOK, peer
<1>6. \A u \in Tasks : InStep(task'[u])
  BY <1>3 DEF ClientInv
<1> QED BY <1>4, <1>5, <1>6, ReaderStep

(* A key that the chain does not answer for is beyond the skip limit, or used up: by another    *)
(* function that is opening the message.                                                        *)
LEMMA RefusedForAReason ==
    ASSUME ClientInv, NEW t \in Tasks, ToDo(t), opened[Current(t).id] = Unopened,
           chains[Current(t).env.skid] # NoChain, ~Answers(chains[Current(t).env.skid], Current(t).env.idx)
    PROVE  LET i == Current(t).id
           IN \/ BeingOpened(i)
              \/ stored[i].edited
              \/ stored[i].idx - chains[stored[i].skid].index > MaxSkip
<1> DEFINE i == Current(t).id
           chain == chains[Current(t).env.skid]
<1>1. Current(t) \in Item /\ i \in DOMAIN stored /\ (stored[i] = Current(t).env \/ stored[i].edited)
  BY CurrentIsHeard
<1>2. CASE stored[i].edited
  BY <1>2
<1>3. CASE stored[i] = Current(t).env /\ ~stored[i].edited
  <2>1. CASE ~CanDerive(chain, Current(t).env.idx)
    <3>1. opened[i].status # "ok"
      BY DEF Unopened
    <3>2. BeingOpened(i)
      BY <1>1, <1>3, <2>1, <3>1 DEF ClientInv, PlaintextKept
    <3> QED BY <3>2
  <2>2. CASE CanDerive(chain, Current(t).env.idx)
    <3>1. Current(t).env.skid \in Skids /\ Current(t).env.idx \in Nat
      BY <1>1 DEF Item, Envelope
    <3>2. chain.index \in Nat
      BY <3>1 DEF ClientInv, TypeOK, ReceiverChain
    <3>3. ~(Current(t).env.idx - chain.index <= MaxSkip)
      BY <2>2 DEF Answers
    <3>4. Current(t).env.idx - chain.index > MaxSkip
      BY <3>1, <3>2, <3>3, RatchetAssumption
    <3> QED BY <1>3, <3>4
  <2> QED BY <2>1, <2>2
<1> QED BY <1>1, <1>2, <1>3

(* A message that cannot be opened counts as failed; no plaintext is dropped for it. *)
LEMMA CannotOpenStep == ASSUME ClientInv, NEW t \in Tasks, CannotOpen(t) PROVE ClientInv'
<1> DEFINE item == Current(t)
           r == Result(t, "failed", item.env)
<1>1. /\ task[t].pc = "next" /\ ToDo(t) /\ opened[item.id] = Unopened /\ chains[item.env.skid] # NoChain
      /\ ~Answers(chains[item.env.skid], item.env.idx)
      /\ opened' = [opened EXCEPT ![item.id] = [status |-> "failed", env |-> item.env]]
      /\ Become(t, r) /\ UNCHANGED <<peer, events, screen, chains, refused>>
  BY DEF CannotOpen, At
<1>2. item \in Item /\ item.id \in DOMAIN stored /\ (stored[item.id] = item.env \/ stored[item.id].edited)
  BY <1>1, CurrentIsHeard
<1>3. item.id \in Ids /\ item.env \in Envelope /\ "failed" \in Statuses /\ task[t].pc \in Working
  BY <1>1, <1>2 DEF Item, Statuses, Working
<1>4. r \in Task /\ InStep(r) /\ \A k \in DOMAIN r.todo : Heard(r.todo[k].id, r.todo[k].env)
  BY <1>1, <1>3, ResultFits
<1> HIDE DEF r
<1>5. opened' \in [Ids -> [status : {"ok", "failed"}, env : Envelope] \cup {Unopened}]
  BY <1>1, <1>3 DEF ClientInv, TypeOK
<1>6. ChainsBehind'
  BY <1>1, ChainsStand DEF ClientInv
<1>7. PlaintextKept'
  <2>1. \A i : BeingOpened(i) => BeingOpened(i)'
    BY <1>1, OthersStillOpen
  <2>2. UNCHANGED <<stored, chains>>
    BY <1>1 DEF peer
  <2>3. ASSUME NEW i \in DOMAIN stored, ~stored[i].edited, chains[stored[i].skid] # NoChain,
               ~CanDerive(chains[stored[i].skid], stored[i].idx)
        PROVE  opened'[i].status = "ok" \/ BeingOpened(i)'
    <3>1. opened[i].status = "ok" \/ BeingOpened(i)
      BY <2>3 DEF ClientInv, PlaintextKept
    <3>2. CASE i = item.id
      <4>1. opened[i].status # "ok"
        BY <1>1, <3>2 DEF Unopened
      <4> QED BY <2>1, <3>1, <4>1
    <3>3. CASE i # item.id
      <4>1. opened'[i] = opened[i]
        BY <1>1, <1>3, <3>3, StoredIsHeard DEF ClientInv, TypeOK
      <4> QED BY <2>1, <3>1, <4>1
    <3> QED BY <3>2, <3>3
  <2> QED BY <2>2, <2>3 DEF PlaintextKept
<1>8. chains' \in [Skids -> ReceiverChain \cup {NoChain}]
  BY <1>1 DEF ClientInv, TypeOK
<1> QED BY <1>1, <1>4, <1>5, <1>6, <1>7, <1>8, OpeningStep

(* The key that is taken out is that of the message being opened and of no other. *)
LEMMA StartOpeningStep == ASSUME ClientInv, NEW t \in Tasks, StartOpening(t) PROVE ClientInv'
<1> DEFINE item == Current(t)
           chain == chains[item.env.skid]
           r == [task[t] EXCEPT !.pc = "opening"]
<1>1. /\ task[t].pc = "next" /\ ToDo(t) /\ chain # NoChain /\ Answers(chain, item.env.idx)
      /\ chains' = [chains EXCEPT ![item.env.skid] = AfterKey(chain, item.env.idx)]
      /\ Become(t, r) /\ UNCHANGED <<peer, events, screen, opened, refused>>
  BY DEF StartOpening, At
<1>2. /\ item \in Item /\ item.id \in DOMAIN stored /\ Heard(item.id, item.env)
      /\ task[t] \in Task /\ task[t].todo \in Seq(Item) /\ task[t].done \in Seq(Row)
  BY <1>1, CurrentIsHeard
<1>3. item.id \in Ids /\ item.env \in Envelope /\ item.env.skid \in Skids /\ item.env.idx \in Nat
  BY <1>2 DEF Item, Envelope
<1>4. chains \in [Skids -> ReceiverChain \cup {NoChain}] /\ task \in [Tasks -> Task]
  BY DEF ClientInv, TypeOK
<1>5. chain \in ReceiverChain /\ RetainsThePast(chain)
  BY <1>1, <1>3, <1>4 DEF ClientInv, ChainsBehind
<1> DEFINE s == item.env.skid
           n == item.env.idx
           after == AfterKey(chain, n)
<1>6. after \in ReceiverChain /\ RetainsThePast(after)
  BY <1>1, <1>3, <1>5, AfterKeyRetainsThePast
<1>7. \A m \in Nat : CanDerive(after, m) <=> CanDerive(chain, m) /\ m # n
  BY <1>1, <1>3, <1>5, AfterKeyTakesOneKey
<1> HIDE DEF after
<1>8. chains' = [chains EXCEPT ![s] = after]
  BY <1>1 DEF after
<1>9. r \in Task /\ r.pc = "opening" /\ r.todo = task[t].todo /\ r.done = task[t].done /\ r.kind = task[t].kind
  <2>1. r \in Task
    BY <1>2, TaskFields
  <2> QED BY <1>2, <2>1 DEF Task
<1> HIDE DEF r
<1>10. InStep(r)
  <2>1. InStep(task[t]) /\ Len(task[t].done) < Len(task[t].todo)
    BY <1>1 DEF ClientInv, ToDo
  <2> QED BY <1>1, <1>9, <2>1 DEF InStep, Working
<1>11. \A k \in DOMAIN r.todo : Heard(r.todo[k].id, r.todo[k].env)
  BY <1>9 DEF Heard
<1>12. chains' \in [Skids -> ReceiverChain \cup {NoChain}]
  BY <1>4, <1>6, <1>8
<1>13. opened' \in [Ids -> [status : {"ok", "failed"}, env : Envelope] \cup {Unopened}]
  BY <1>1 DEF ClientInv, TypeOK
<1>14. UNCHANGED <<sender, flying, stored>>
  BY <1>1 DEF peer
<1>15. ChainsBehind'
  <2> SUFFICES ASSUME NEW x \in Skids, chains'[x] # NoChain
               PROVE  /\ RetainsThePast(chains'[x])
                      /\ \A m \in Nat : ~CanDerive(chains'[x], m) =>
                            Issued(x, m)' /\ \A e \in flying' : ~(e.skid = x /\ e.idx = m)
    BY DEF ChainsBehind
  <2>1. \A m : Issued(x, m)' <=> Issued(x, m)
    BY <1>14 DEF Issued
  <2>2. CASE x # s
    <3>1. chains'[x] = chains[x]
      BY <1>4, <1>8, <2>2
    <3> QED BY <1>14, <2>1, <3>1 DEF ClientInv, ChainsBehind
  <2>3. CASE x = s
    <3>1. chains'[x] = after /\ chains[x] = chain
      BY <1>4, <1>8, <2>3
    <3>2. ASSUME NEW m \in Nat, ~CanDerive(after, m)
          PROVE  Issued(x, m) /\ \A e \in flying : ~(e.skid = x /\ e.idx = m)
      <4>1. CASE m = n
        BY <1>2, <1>3, <2>3, <4>1 DEF ClientInv, KeysSealOnce
      <4>2. CASE m # n
        <5>1. ~CanDerive(chain, m)
          BY <1>7, <3>2, <4>2
        <5> QED BY <1>1, <2>3, <5>1 DEF ClientInv, ChainsBehind
      <4> QED BY <4>1, <4>2
    <3> QED BY <1>6, <1>14, <2>1, <3>1, <3>2
  <2> QED BY <2>2, <2>3
<1>16. PlaintextKept'
  <2>1. task[t].pc # "opening"
    BY <1>1
  <2>2. \A i : BeingOpened(i) => BeingOpened(i)'
    BY <1>1, <2>1, OthersStillOpen
  <2>3. ASSUME NEW i, i = item.id PROVE BeingOpened(i)'
    <3>1. task'[t] = r
      BY <1>1, <1>4 DEF Become
    <3>2. (Current(t))' = Current(t)
      BY <1>9, <3>1 DEF Current
    <3> QED BY <1>9, <2>3, <3>1, <3>2 DEF BeingOpened
  <2>4. ASSUME NEW i \in DOMAIN stored, ~stored[i].edited, chains'[stored[i].skid] # NoChain,
               ~CanDerive(chains'[stored[i].skid], stored[i].idx)
        PROVE  opened'[i].status = "ok" \/ BeingOpened(i)'
    <3>1. i \in Ids /\ stored[i] \in Envelope /\ Heard(i, stored[i])
      BY StoredIsHeard
    <3>2. stored[i].skid \in Skids /\ stored[i].idx \in Nat
      BY <3>1 DEF Envelope
    <3>3. CASE stored[i].skid = s /\ stored[i].idx = n
      <4>1. i = item.id
        BY <1>2, <1>3, <3>1, <3>3 DEF ClientInv, KeysSealOnce
      <4> QED BY <2>3, <4>1
    <3>4. CASE ~(stored[i].skid = s /\ stored[i].idx = n)
      <4>1. chains[stored[i].skid] # NoChain /\ ~CanDerive(chains[stored[i].skid], stored[i].idx)
        <5>1. CASE stored[i].skid = s
          <6>1. chains'[s] = after /\ stored[i].idx # n
            BY <1>3, <1>4, <1>8, <3>4, <5>1
          <6>2. ~CanDerive(after, stored[i].idx)
            BY <2>4, <5>1, <6>1
          <6>3. ~CanDerive(chain, stored[i].idx)
            BY <1>7, <3>2, <6>1, <6>2
          <6> QED BY <1>1, <5>1, <6>3
        <5>2. CASE stored[i].skid # s
          BY <1>4, <1>8, <2>4, <3>2, <5>2
        <5> QED BY <5>1, <5>2
      <4>2. opened[i].status = "ok" \/ BeingOpened(i)
        BY <2>4, <4>1 DEF ClientInv, PlaintextKept
      <4> QED BY <1>1, <2>2, <4>2
    <3> QED BY <3>3, <3>4
  <2> QED BY <1>14, <2>4 DEF PlaintextKept
<1> HIDE DEF item
<1> QED BY <1>1, <1>9, <1>10, <1>11, <1>12, <1>13, <1>15, <1>16, OpeningStep

(* The plaintext is retained in the step that ends the opening. *)
LEMMA FinishOpeningStep == ASSUME ClientInv, NEW t \in Tasks, FinishOpening(t) PROVE ClientInv'
<1> DEFINE item == Current(t)
           r == Result(t, "ok", item.env)
<1>1. /\ task[t].pc = "opening" /\ Become(t, r)
      /\ opened' = [opened EXCEPT ![item.id] = [status |-> "ok", env |-> item.env]]
      /\ UNCHANGED <<peer, events, screen, chains, refused>>
  BY DEF FinishOpening, Retain, At
<1>2. ToDo(t)
  BY <1>1 DEF ClientInv, InStep, ToDo
<1>3. item \in Item /\ item.id \in Ids /\ item.env \in Envelope /\ "ok" \in Statuses /\ task[t].pc \in Working
  BY <1>1, <1>2, CurrentIsHeard DEF Item, Statuses, Working
<1>4. r \in Task /\ InStep(r) /\ \A k \in DOMAIN r.todo : Heard(r.todo[k].id, r.todo[k].env)
  BY <1>2, <1>3, ResultFits
<1> HIDE DEF r
<1>5. opened' \in [Ids -> [status : {"ok", "failed"}, env : Envelope] \cup {Unopened}]
  BY <1>1, <1>3 DEF ClientInv, TypeOK
<1>6. ChainsBehind'
  BY <1>1, ChainsStand DEF ClientInv
<1>7. PlaintextKept'
  <2>1. UNCHANGED <<stored, chains>>
    BY <1>1 DEF peer
  <2>2. ASSUME NEW i, i # item.id, BeingOpened(i) PROVE BeingOpened(i)'
    <3>1. PICK u \in Tasks : task[u].pc = "opening" /\ Current(u).id = i
      BY <2>2 DEF BeingOpened
    <3>2. u # t
      BY <2>2, <3>1
    <3>3. task'[u] = task[u]
      BY <1>1, <3>2 DEF Become, ClientInv, TypeOK
    <3>4. (Current(u))' = Current(u)
      BY <3>3 DEF Current
    <3> QED BY <3>1, <3>3, <3>4 DEF BeingOpened
  <2>3. ASSUME NEW i \in DOMAIN stored, ~stored[i].edited, chains[stored[i].skid] # NoChain,
               ~CanDerive(chains[stored[i].skid], stored[i].idx)
        PROVE  opened'[i].status = "ok" \/ BeingOpened(i)'
    <3>1. i \in Ids /\ (opened[i].status = "ok" \/ BeingOpened(i))
      BY <2>3, StoredIsHeard DEF ClientInv, PlaintextKept
    <3>2. opened \in [Ids -> [status : {"ok", "failed"}, env : Envelope] \cup {Unopened}]
      BY DEF ClientInv, TypeOK
    <3>3. CASE i = item.id
      BY <1>1, <3>1, <3>2, <3>3
    <3>4. CASE i # item.id
      <4>1. opened'[i] = opened[i]
        BY <1>1, <1>3, <3>1, <3>2, <3>4
      <4> QED BY <2>2, <3>1, <3>4, <4>1
    <3> QED BY <3>3, <3>4
  <2> QED BY <2>1, <2>3 DEF PlaintextKept
<1>8. chains' \in [Skids -> ReceiverChain \cup {NoChain}]
  BY <1>1 DEF ClientInv, TypeOK
<1> QED BY <1>1, <1>4, <1>5, <1>6, <1>7, <1>8, OpeningStep

----------------------------------------------------------------------------
(* What each function does with its results.                               *)

(* What a page leaves raw is what it was made of. *)
LEMMA RawOfPageIsHeard ==
    ASSUME ClientInv, NEW t \in Tasks
    PROVE  /\ RawOfPage(t) \in [Ids -> Envelope \cup {NoEnvelope}]
           /\ \A i \in Ids : RawOfPage(t)[i] = NoEnvelope \/ Heard(i, RawOfPage(t)[i])
<1>1. task[t].todo \in Seq(Item)
  BY DEF ClientInv, TypeOK, Task
<1>2. \A k \in DOMAIN task[t].todo : task[t].todo[k] \in Item
  BY <1>1
<1>3. ASSUME NEW i \in Ids
      PROVE  RawOfPage(t)[i] \in Envelope \cup {NoEnvelope} /\ (RawOfPage(t)[i] = NoEnvelope \/ Heard(i, RawOfPage(t)[i]))
  <2>1. CASE \E k \in DOMAIN task[t].todo : task[t].todo[k].id = i
    <3> DEFINE found == CHOOSE item \in {task[t].todo[k] : k \in DOMAIN task[t].todo} : item.id = i
    <3>1. found \in {task[t].todo[k] : k \in DOMAIN task[t].todo} /\ found.id = i
      BY <2>1
    <3>2. RawOfPage(t)[i] = found.env
      BY <2>1 DEF RawOfPage
    <3> HIDE DEF found
    <3>3. PICK k \in DOMAIN task[t].todo : found = task[t].todo[k]
      BY <3>1
    <3>4. found.env \in Envelope
      BY <1>2, <3>3 DEF Item
    <3>5. Heard(i, found.env)
      BY <3>1, <3>3 DEF Heard
    <3> QED BY <3>2, <3>4, <3>5
  <2>2. CASE ~\E k \in DOMAIN task[t].todo : task[t].todo[k].id = i
    <3>1. RawOfPage(t)[i] = raw[i]
      BY <2>2 DEF RawOfPage
    <3> QED BY <3>1, ScreenStands
  <2> QED BY <2>1, <2>2
<1>4. RawOfPage(t) = [i \in Ids |-> RawOfPage(t)[i]]
  BY DEF RawOfPage
<1> QED BY <1>3, <1>4

(* Replacing rows leaves rows. *)
LEMMA ReplacedTyped ==
    ASSUME ClientInv, NEW fresh \in SUBSET Row
    PROVE  Replaced(fresh) \in Seq(Row)
<1>1. view \in Seq(Row)
  BY DEF ClientInv, TypeOK
<1>2. ASSUME NEW k \in DOMAIN view
      PROVE  (IF \E row \in fresh : row.id = view[k].id
              THEN CHOOSE row \in fresh : row.id = view[k].id
              ELSE view[k]) \in Row
  BY <1>1
<1> QED BY <1>1, <1>2 DEF Replaced

(* The ends of the functions: they had results for all their messages. *)
LEMMA DoneTyped ==
    ASSUME ClientInv, NEW t \in Tasks, NEW kind, Done(t, kind)
    PROVE  /\ task[t].pc = "next" /\ task[t].kind = kind
           /\ task[t].done \in Seq(Row) /\ Len(task[t].done) = Len(task[t].todo) /\ Len(task[t].todo) \in Nat
           /\ task[t].attempt \in 0..Retries
           /\ kind \in {"incoming", "edited"} => task[t].done[1] \in Row
<1>1. task[t] \in Task /\ task[t].pc = "next" /\ task[t].kind = kind /\ ~ToDo(t) /\ InStep(task[t])
  BY DEF ClientInv, TypeOK, Done, At
<1>2. task[t].done \in Seq(Row) /\ task[t].todo \in Seq(Item) /\ task[t].attempt \in 0..Retries
  BY <1>1 DEF Task
<1>3. Len(task[t].done) = Len(task[t].todo) /\ Len(task[t].todo) \in Nat
  BY <1>1, <1>2 DEF ToDo, InStep
<1>4. kind \in {"incoming", "edited"} => Len(task[t].done) = 1
  BY <1>1, <1>3 DEF InStep, Working
<1> QED BY <1>1, <1>2, <1>3, <1>4

(* openChat and loadOlder show their pages. *)
LEMMA FinishPageSteps ==
    ASSUME ClientInv, NEW t \in Tasks, FinishOpen(t) \/ FinishOlder(t)
    PROVE  ClientInv'
<1>1. /\ raw' = RawOfPage(t) /\ loading' = FALSE /\ Schedule(view', 0) /\ Become(t, Idle)
      /\ view' = task[t].done \/ view' = task[t].done \o view
      /\ UNCHANGED <<peer, events, active, chains, opened, refused>>
  BY DEF FinishOpen, FinishOlder
<1>2. task[t].done \in Seq(Row) /\ task[t].pc # "opening"
  <2>1. Done(t, "open") \/ Done(t, "older")
    BY DEF FinishOpen, FinishOlder
  <2> QED BY <2>1, DoneTyped
<1>3. view' \in Seq(Row)
  <2>1. view \in Seq(Row)
    BY ScreenStands
  <2>2. task[t].done \o view \in Seq(Row)
    BY <1>2, <2>1
  <2> QED BY <1>1, <1>2, <2>2
<1>4. timer' \in 0..Retries
  BY <1>1, ScheduleTyped, ScreenStands
<1>5. loading' \in BOOLEAN /\ active' \in BOOLEAN /\ refused' \in BOOLEAN
  BY <1>1, ScreenStands
<1> HIDE DEF RawOfPage
<1> QED BY <1>1, <1>2, <1>3, <1>4, <1>5, RawOfPageIsHeard, TaskRests

(* onIncomingMessage shows its message. *)
LEMMA FinishIncomingStep == ASSUME ClientInv, NEW t \in Tasks, FinishIncoming(t) PROVE ClientInv'
<1>1. /\ view' = view \/ view' = view \o task[t].done
      /\ Schedule(view', 0) \/ UNCHANGED timer
      /\ Become(t, Idle) /\ UNCHANGED <<peer, events, active, loading, raw, chains, opened, refused>>
  BY DEF FinishIncoming
<1>2. task[t].done \in Seq(Row) /\ task[t].pc # "opening"
  BY DoneTyped DEF FinishIncoming
<1>3. view' \in Seq(Row)
  <2>1. view \in Seq(Row)
    BY ScreenStands
  <2>2. view \o task[t].done \in Seq(Row)
    BY <1>2, <2>1
  <2> QED BY <1>1, <2>1, <2>2
<1>4. timer' \in 0..Retries
  BY <1>1, ScheduleTyped, ScreenStands
<1> QED BY <1>1, <1>2, <1>3, <1>4, TaskRests, ScreenStands

(* onMessageEdited replaces the row of its message. *)
LEMMA FinishEditedStep == ASSUME ClientInv, NEW t \in Tasks, FinishEdited(t) PROVE ClientInv'
<1>1. /\ view' = Replaced({task[t].done[1]})
      /\ Schedule(view', 0) \/ UNCHANGED timer
      /\ Become(t, Idle) /\ UNCHANGED <<peer, events, active, loading, raw, chains, opened, refused>>
  BY DEF FinishEdited
<1>2. task[t].done[1] \in Row /\ task[t].pc # "opening"
  BY DoneTyped DEF FinishEdited
<1>3. view' \in Seq(Row)
  BY <1>1, <1>2, ReplacedTyped
<1>4. timer' \in 0..Retries
  BY <1>1, ScheduleTyped, ScreenStands
<1> QED BY <1>1, <1>2, <1>3, <1>4, TaskRests, ScreenStands

(* redecryptUnreadable replaces the rows it has opened. *)
LEMMA FinishRetryStep == ASSUME ClientInv, NEW t \in Tasks, FinishRetry(t) PROVE ClientInv'
<1>1. /\ view' = Replaced(Reopened(t)) /\ Schedule(view', task[t].attempt + 1)
      /\ Become(t, Idle) /\ UNCHANGED <<peer, events, active, loading, raw, chains, opened, refused>>
  BY DEF FinishRetry
<1>2. task[t].done \in Seq(Row) /\ task[t].pc # "opening" /\ task[t].attempt \in 0..Retries
  BY DoneTyped DEF FinishRetry
<1>3. Reopened(t) \in SUBSET Row
  BY <1>2 DEF Reopened
<1>4. view' \in Seq(Row)
  BY <1>1, <1>3, ReplacedTyped
<1>5. timer' \in 0..Retries
  <2>1. task[t].attempt + 1 \in Nat
    BY <1>2, ClientAssumption
  <2> QED BY <1>1, <2>1, ScheduleTyped, ScreenStands
<1> QED BY <1>1, <1>2, <1>4, <1>5, TaskRests, ScreenStands

----------------------------------------------------------------------------
(* The peer: a key is drawn once, and posted under one message.            *)

(* What is heard after the peer has sealed message i as env is that, or was heard before. *)
LEMMA PeerHeard ==
    ASSUME ClientInv, NEW i \in Ids, NEW env, NEW kind,
           stored' \in Seq(Envelope), DOMAIN stored' \subseteq DOMAIN stored \cup {i},
           stored'[i] = env, \A j \in DOMAIN stored : j # i => stored'[j] = stored[j],
           events' = Append(events, [kind |-> kind, id |-> i, env |-> env]),
           UNCHANGED <<raw, task>>, NEW j, NEW d, Heard(j, d)'
    PROVE  (j = i /\ d = env) \/ Heard(j, d)
<1>1. events \in Seq(Event)
  BY DEF ClientInv, TypeOK
<1>2. \A k \in DOMAIN events' : events'[k] = [kind |-> kind, id |-> i, env |-> env] \/ (k \in DOMAIN events /\ events'[k] = events[k])
  BY <1>1
<1>3. CASE j \in DOMAIN stored' /\ stored'[j] = d
  BY <1>3 DEF Heard
<1>4. CASE \E k \in DOMAIN events' : events'[k].id = j /\ events'[k].env = d
  BY <1>2, <1>4 DEF Heard
<1>5. CASE raw[j] = d \/ \E t \in Tasks : \E k \in DOMAIN task[t].todo : task[t].todo[k].id = j /\ task[t].todo[k].env = d
  BY <1>5 DEF Heard
<1> QED BY <1>3, <1>4, <1>5 DEF Heard

(* The invariant after a key that flew has sealed message i. *)
LEMMA SealedOnce ==
    ASSUME ClientInv, NEW i \in Ids, NEW e \in flying, NEW env \in Envelope, NEW kind \in {"new", "edited"},
           env.skid = e.skid, env.idx = e.idx, kind = "edited" <=> env.edited,
           stored' \in Seq(Envelope), Len(stored') <= MaxMessages,
           DOMAIN stored' = DOMAIN stored \cup {i}, i \in DOMAIN stored => env.edited,
           stored'[i] = env, \A j \in DOMAIN stored : j # i => stored'[j] = stored[j],
           events' = Append(events, [kind |-> kind, id |-> i, env |-> env]),
           flying' = flying \ {e},
           UNCHANGED <<sender, grant, screen, chains, opened, task, refused>>
    PROVE  ClientInv'
<1>1. UNCHANGED <<active, loading, raw, view, timer>>
  BY DEF screen
<1>2. /\ flying \subseteq [skid : Skids, idx : Nat] /\ events \in Seq(Event)
      /\ \A f \in flying' : ~(f.skid = e.skid /\ f.idx = e.idx)
  <2>1. flying \subseteq [skid : Skids, idx : Nat] /\ events \in Seq(Event)
    BY DEF ClientInv, TypeOK
  <2>2. \A f, g \in [skid : Skids, idx : Nat] : f.skid = g.skid /\ f.idx = g.idx => f = g
    OBVIOUS
  <2> QED BY <2>1, <2>2
<1>3. \A s, n : Issued(s, n)' <=> Issued(s, n)
  BY DEF Issued
<1>4. ASSUME NEW j \in Ids, NEW d \in Envelope, Heard(j, d)'
      PROVE  (j = i /\ d = env) \/ Heard(j, d)
  BY <1>1, <1>4, PeerHeard
<1>5. Issued(env.skid, env.idx)
  BY DEF ClientInv, KeysSealOnce
<1>6. KeysSealOnce'
  <2>1. (\A f \in flying : Issued(f.skid, f.idx))'
    BY <1>3 DEF ClientInv, KeysSealOnce
  <2>2. ASSUME NEW j \in Ids, NEW d \in Envelope, Heard(j, d)'
        PROVE  /\ j \in DOMAIN stored' /\ (stored'[j] = d \/ stored'[j].edited)
               /\ Issued(d.skid, d.idx)'
               /\ \A f \in flying' : ~(f.skid = d.skid /\ f.idx = d.idx)
    <3>1. CASE j = i /\ d = env
      BY <1>2, <1>3, <1>5, <3>1
    <3>2. CASE Heard(j, d)
      <4>1. /\ j \in DOMAIN stored /\ (stored[j] = d \/ stored[j].edited)
            /\ Issued(d.skid, d.idx) /\ \A f \in flying : ~(f.skid = d.skid /\ f.idx = d.idx)
        BY <3>2 DEF ClientInv, KeysSealOnce
      <4>2. stored'[j] = d \/ stored'[j].edited
        BY <4>1
      <4> QED BY <1>3, <4>1, <4>2
    <3> QED BY <1>4, <2>2, <3>1, <3>2
  <2>3. ASSUME NEW j \in Ids, NEW k \in Ids, NEW c \in Envelope, NEW d \in Envelope,
               Heard(j, c)', Heard(k, d)', c.skid = d.skid, c.idx = d.idx
        PROVE  j = k
    <3>1. ASSUME NEW l \in Ids, NEW x \in Envelope, Heard(l, x) PROVE ~(x.skid = e.skid /\ x.idx = e.idx)
      BY <3>1 DEF ClientInv, KeysSealOnce
    <3>2. (j = i /\ c = env) \/ Heard(j, c)
      BY <1>4, <2>3
    <3>3. (k = i /\ d = env) \/ Heard(k, d)
      BY <1>4, <2>3
    <3>4. CASE Heard(j, c) /\ Heard(k, d)
      BY <2>3, <3>4 DEF ClientInv, KeysSealOnce
    <3>5. CASE Heard(j, c) /\ k = i /\ d = env
      BY <2>3, <3>1, <3>5
    <3>6. CASE Heard(k, d) /\ j = i /\ c = env
      BY <2>3, <3>1, <3>6
    <3> QED BY <3>2, <3>3, <3>4, <3>5, <3>6
  <2>4. ASSUME NEW k \in DOMAIN events', events'[k].kind = "edited" PROVE stored'[events'[k].id].edited
    <3>1. CASE events'[k] = [kind |-> kind, id |-> i, env |-> env]
      BY <2>4, <3>1
    <3>2. CASE k \in DOMAIN events /\ events'[k] = events[k]
      <4>1. stored[events[k].id].edited /\ events[k] \in Event
        BY <1>2, <2>4, <3>2 DEF ClientInv, KeysSealOnce
      <4>2. events[k].id \in DOMAIN stored
        <5>1. Heard(events[k].id, events[k].env)
          BY <3>2 DEF Heard
        <5> QED BY <4>1, <5>1 DEF ClientInv, KeysSealOnce, Event
      <4> QED BY <3>2, <4>1, <4>2
    <3> QED BY <1>2, <3>1, <3>2
  <2> QED BY <2>1, <2>2, <2>3, <2>4 DEF KeysSealOnce
<1>7. ChainsBehind'
  BY <1>3 DEF ClientInv, ChainsBehind
<1>8. PlaintextKept'
  <2>1. \A j : BeingOpened(j) <=> BeingOpened(j)'
    BY DEF BeingOpened, Current
  <2>2. ASSUME NEW j \in DOMAIN stored', ~stored'[j].edited, chains[stored'[j].skid] # NoChain,
               ~CanDerive(chains[stored'[j].skid], stored'[j].idx)
        PROVE  opened[j].status = "ok" \/ BeingOpened(j)
    <3>1. CASE j = i
      <4>1. e.skid \in Skids /\ e.idx \in Nat
        BY <1>2
      <4>2. CanDerive(chains[e.skid], e.idx)
        BY <2>2, <3>1, <4>1 DEF ClientInv, ChainsBehind
      <4> QED BY <2>2, <3>1, <4>2
    <3>2. CASE j # i
      <4>1. j \in DOMAIN stored /\ stored'[j] = stored[j]
        BY <3>2
      <4> QED BY <2>2, <4>1 DEF ClientInv, PlaintextKept
    <3> QED BY <3>1, <3>2
  <2> QED BY <2>1, <2>2 DEF PlaintextKept
<1>9. TypeOK'
  <2>1. [kind |-> kind, id |-> i, env |-> env] \in Event
    BY DEF Event
  <2>2. events' \in Seq(Event)
    BY <1>2, <2>1
  <2>3. flying' \subseteq [skid : Skids, idx : Nat]
    BY <1>2
  <2> QED BY <1>1, <2>2, <2>3 DEF ClientInv, TypeOK
<1>10. \A t \in Tasks : InStep(task'[t])
  BY DEF ClientInv
<1> QED BY <1>6, <1>7, <1>8, <1>9, <1>10 DEF ClientInv, InStep, Working

(* A message is posted under a key that has sealed no other. *)
LEMMA PostStep == ASSUME ClientInv, NEW e \in flying, Post(e) PROVE ClientInv'
<1> DEFINE i == Len(stored) + 1
           env == [skid |-> e.skid, idx |-> e.idx, edited |-> FALSE]
<1>1. /\ Len(stored) < MaxMessages /\ stored' = Append(stored, env)
      /\ events' = Append(events, [kind |-> "new", id |-> i, env |-> env])
      /\ flying' = flying \ {e}
      /\ UNCHANGED <<sender, grant, screen, chains, opened, task, refused>>
  BY DEF Post
<1>2. stored \in Seq(Envelope) /\ e \in [skid : Skids, idx : Nat]
  BY DEF ClientInv, TypeOK
<1>3. env \in Envelope /\ env.skid = e.skid /\ env.idx = e.idx /\ ~env.edited
  BY <1>2 DEF Envelope
<1> HIDE DEF env
<1>4. i \in Ids /\ i \notin DOMAIN stored
  BY <1>1, <1>2, ClientAssumption DEF Ids
<1>5. /\ stored' \in Seq(Envelope) /\ Len(stored') <= MaxMessages /\ DOMAIN stored' = DOMAIN stored \cup {i}
      /\ stored'[i] = env /\ \A j \in DOMAIN stored : j # i => stored'[j] = stored[j]
  BY <1>1, <1>2, <1>3, ClientAssumption
<1> HIDE DEF i
<1> QED BY <1>1, <1>3, <1>4, <1>5, SealedOnce

(* So is an edit. *)
LEMMA EditStep == ASSUME ClientInv, NEW e \in flying, NEW i \in DOMAIN stored, Edit(e, i) PROVE ClientInv'
<1> DEFINE env == [skid |-> e.skid, idx |-> e.idx, edited |-> TRUE]
<1>1. /\ stored' = [stored EXCEPT ![i] = env]
      /\ events' = Append(events, [kind |-> "edited", id |-> i, env |-> env])
      /\ flying' = flying \ {e}
      /\ UNCHANGED <<sender, grant, screen, chains, opened, task, refused>>
  BY DEF Edit
<1>2. stored \in Seq(Envelope) /\ e \in [skid : Skids, idx : Nat] /\ Len(stored) <= MaxMessages
  BY DEF ClientInv, TypeOK
<1>3. env \in Envelope /\ env.skid = e.skid /\ env.idx = e.idx /\ env.edited
  BY <1>2 DEF Envelope
<1> HIDE DEF env
<1>4. i \in Ids
  BY StoredIsHeard
<1>5. /\ stored' \in Seq(Envelope) /\ Len(stored') <= MaxMessages /\ DOMAIN stored' = DOMAIN stored \cup {i}
      /\ stored'[i] = env /\ \A j \in DOMAIN stored : j # i => stored'[j] = stored[j]
  <2>1. stored' \in Seq(Envelope) /\ Len(stored') = Len(stored) /\ DOMAIN stored' = DOMAIN stored
    BY <1>1, <1>2, <1>3
  <2>2. stored'[i] = env /\ \A j \in DOMAIN stored : j # i => stored'[j] = stored[j]
    BY <1>1, <1>2
  <2>3. DOMAIN stored = DOMAIN stored \cup {i}
    OBVIOUS
  <2> QED BY <1>2, <2>1, <2>2, <2>3
<1> QED BY <1>1, <1>3, <1>4, <1>5, SealedOnce

(* Drawing a key, or minting a chain, changes nothing that has been sealed. *)
LEMMA DrawSteps == ASSUME ClientInv, Seal \/ \E g \in Outcomes : Mint(g) PROVE ClientInv'
<1> DEFINE new == [skid |-> sender.skid, idx |-> sender.next]
<1>1. /\ UNCHANGED <<stored, events, screen, chains, opened, task, refused>>
      /\ flying' \subseteq flying \cup {new}
      /\ \/ sender.skid < MaxChains /\ sender' = [skid |-> sender.skid + 1, next |-> 0] /\ flying' = flying
         \/ sender.next < MaxSeals /\ sender' = [sender EXCEPT !.next = @ + 1]
      /\ grant' = grant \/ \E g \in Outcomes : grant' = [grant EXCEPT ![sender.skid + 1] = g]
  BY DEF Mint, Seal
<1>2. /\ sender \in [skid : 0..MaxChains, next : Nat] /\ flying \subseteq [skid : Skids, idx : Nat]
      /\ sender.skid = 0 => sender.next = MaxSeals
  BY DEF ClientInv, TypeOK
<1>3. UNCHANGED <<active, loading, raw, view, timer>>
  BY <1>1 DEF screen
<1>4. \A s \in Skids, n \in Nat : Issued(s, n) => Issued(s, n)'
  BY <1>1, <1>2, ClientAssumption DEF Issued, Skids
<1>5. \A s, n : Issued(s, n) => ~(new.skid = s /\ new.idx = n)
  BY <1>2 DEF Issued
<1>6. new \in flying \/ flying' = flying \/ (sender'.skid = sender.skid /\ sender'.next = sender.next + 1)
  BY <1>1, <1>2
<1> HIDE DEF new
<1>7. \A i, env : Heard(i, env)' <=> Heard(i, env)
  BY <1>1, <1>3 DEF Heard
<1>8. KeysSealOnce'
  <2>1. (\A e \in flying : Issued(e.skid, e.idx))'
    <3> SUFFICES ASSUME NEW e \in flying' PROVE Issued(e.skid, e.idx)'
      OBVIOUS
    <3>1. CASE e \in flying
      <4>1. e.skid \in Skids /\ e.idx \in Nat
        BY <1>2, <3>1
      <4> QED BY <1>4, <3>1, <4>1 DEF ClientInv, KeysSealOnce
    <3>2. CASE e \notin flying
      <4>1. e = new /\ sender'.skid = sender.skid /\ sender'.next = sender.next + 1
        BY <1>1, <1>6, <3>2
      <4> QED BY <1>2, <4>1 DEF Issued, new
    <3> QED BY <3>1, <3>2
  <2>2. ASSUME NEW i \in Ids, NEW env \in Envelope, Heard(i, env)'
        PROVE  /\ i \in DOMAIN stored' /\ (stored'[i] = env \/ stored'[i].edited)
               /\ Issued(env.skid, env.idx)'
               /\ \A e \in flying' : ~(e.skid = env.skid /\ e.idx = env.idx)
    BY <1>1, <1>4, <1>5, <1>7, <2>2 DEF ClientInv, KeysSealOnce, Envelope
  <2>3. ASSUME NEW i \in Ids, NEW j \in Ids, NEW d \in Envelope, NEW e \in Envelope,
               Heard(i, d)', Heard(j, e)', d.skid = e.skid, d.idx = e.idx
        PROVE  i = j
    BY <1>7, <2>3 DEF ClientInv, KeysSealOnce
  <2>4. (\A k \in DOMAIN events : events[k].kind = "edited" => stored[events[k].id].edited)'
    BY <1>1 DEF ClientInv, KeysSealOnce
  <2> QED BY <2>1, <2>2, <2>3, <2>4 DEF KeysSealOnce
<1>9. ChainsBehind'
  BY <1>1, <1>4, <1>5 DEF ClientInv, ChainsBehind
<1>10. PlaintextKept'
  BY <1>1 DEF ClientInv, PlaintextKept, BeingOpened, Current
<1>11. sender' \in [skid : 0..MaxChains, next : Nat] /\ (sender'.skid = 0 => sender'.next = MaxSeals)
       /\ flying' \subseteq [skid : Skids, idx : Nat]
  <2>1. CASE sender.skid < MaxChains /\ sender' = [skid |-> sender.skid + 1, next |-> 0] /\ flying' = flying
    BY <1>2, <2>1, ClientAssumption
  <2>2. CASE sender.next < MaxSeals /\ sender' = [sender EXCEPT !.next = @ + 1]
    <3>1. sender.skid # 0
      BY <1>2, <2>2, ClientAssumption
    <3>2. new \in [skid : Skids, idx : Nat]
      BY <1>2, <3>1, ClientAssumption DEF Skids, new
    <3>3. sender' \in [skid : 0..MaxChains, next : Nat] /\ sender'.skid = sender.skid
      BY <1>2, <2>2
    <3> QED BY <1>1, <1>2, <3>1, <3>2, <3>3
  <2> QED BY <1>1, <2>1, <2>2
<1>12. TypeOK'
  <2>1. grant' \in [Skids -> Grants]
    <3>1. grant \in [Skids -> Grants] /\ Outcomes \subseteq Grants
      BY ClientAssumption DEF ClientInv, TypeOK, Grants
    <3>2. \A g \in Grants : [grant EXCEPT ![sender.skid + 1] = g] \in [Skids -> Grants]
      BY <3>1
    <3> QED BY <1>1, <3>1, <3>2
  <2> QED BY <1>1, <1>3, <1>11, <2>1 DEF ClientInv, TypeOK
<1> QED BY <1>1, <1>8, <1>9, <1>10, <1>11, <1>12 DEF ClientInv, InStep, Working

----------------------------------------------------------------------------
(* Nothing is held in the first state. *)
LEMMA InitialClient == Init => ClientInv
<1> SUFFICES ASSUME Init PROVE ClientInv
  OBVIOUS
<1>1. task \in [Tasks -> Task] /\ \A t \in Tasks : task[t] = Idle
  BY IdleIsTask DEF Init
<1>2. \A i \in Ids, env \in Envelope : ~Heard(i, env)
  BY <1>1, IdleIsTask DEF Init, Heard, Envelope, NoEnvelope, Skids
<1>3. KeysSealOnce
  BY <1>2 DEF Init, KeysSealOnce
<1>4. TypeOK
  <2>1. sender \in [skid : 0..MaxChains, next : Nat] /\ timer \in 0..Retries
    BY ClientAssumption DEF Init, NoTimer
  <2>2. stored \in Seq(Envelope) /\ events \in Seq(Event) /\ view \in Seq(Row)
    BY DEF Init
  <2>3. /\ chains \in [Skids -> ReceiverChain \cup {NoChain}]
        /\ opened \in [Ids -> [status : {"ok", "failed"}, env : Envelope] \cup {Unopened}]
        /\ raw \in [Ids -> Envelope \cup {NoEnvelope}]
    BY DEF Init
  <2>4. flying \subseteq [skid : Skids, idx : Nat] /\ active \in BOOLEAN /\ loading \in BOOLEAN /\ refused \in BOOLEAN
        /\ grant \in [Skids -> Grants]
    BY DEF Init, Grants
  <2> QED BY <1>1, <2>1, <2>2, <2>3, <2>4 DEF TypeOK
<1>5. ChainsBehind
  BY DEF Init, ChainsBehind
<1>6. PlaintextKept
  BY DEF Init, PlaintextKept
<1>7. Len(stored) <= MaxMessages /\ (sender.skid = 0 => sender.next = MaxSeals)
  BY ClientAssumption DEF Init
<1> QED BY <1>1, <1>3, <1>4, <1>5, <1>6, <1>7, IdleIsTask DEF ClientInv

(* Every step keeps the invariant. *)
LEMMA ClientInvStep == ClientInv /\ [Next]_vars => ClientInv'
<1> SUFFICES ASSUME ClientInv, [Next]_vars PROVE ClientInv'
  OBVIOUS
<1>1. CASE PeerNext
  BY <1>1, DrawSteps, PostStep, EditStep DEF PeerNext
<1>2. CASE CloseChat \/ Miss
  BY <1>2, CloseChatStep, MissStep
<1>3. ASSUME NEW t \in Tasks,
             OpenChat(t) \/ LoadOlder(t) \/ TimerFires(t) \/ Deliver(t) \/ RequestFails(t)
      PROVE  ClientInv'
  BY <1>3, OpenChatStep, LoadOlderStep, TimerFiresStep, DeliverStep, RequestFailsStep
<1>4. ASSUME NEW t \in Tasks, Advance(t) PROVE ClientInv'
  <2>1. CASE Keys(t) \/ Unwrap(t) \/ Page(t)
    BY <2>1, KeysStep, UnwrapStep, PageStep
  <2>2. CASE FromCache(t) \/ NoKey(t) \/ CannotOpen(t) \/ StartOpening(t) \/ FinishOpening(t)
    BY <2>2, FromCacheStep, NoKeyStep, CannotOpenStep, StartOpeningStep, FinishOpeningStep
  <2>3. CASE FinishOpen(t) \/ FinishOlder(t) \/ FinishIncoming(t) \/ FinishEdited(t) \/ FinishRetry(t)
    BY <2>3, FinishPageSteps, FinishIncomingStep, FinishEditedStep, FinishRetryStep
  <2> QED BY <1>4, <2>1, <2>2, <2>3 DEF Advance
<1>5. CASE UNCHANGED vars
  <2>1. UNCHANGED <<peer, task, chains, opened, events, active, loading, raw, view, timer, refused>>
    BY <1>5 DEF vars, screen
  <2>2. events' \in Seq(Event)
    BY <2>1 DEF ClientInv, TypeOK
  <2> QED BY <2>1, <2>2, RestStep, ScreenStands
<1> QED BY <1>1, <1>2, <1>3, <1>4, <1>5 DEF Next, ReaderNext

(* What the reading side rests on in every reachable state: keys that seal one message each,    *)
(* chains that have used up none but keys of posted envelopes, and functions that hold what they *)
(* have heard.                                                                                  *)
THEOREM ClientInvariant == Spec => []ClientInv
BY InitialClient, ClientInvStep, PTL DEF Spec

(* Every reachable state is well typed. *)
THEOREM ClientWellTyped == Spec => []TypeOK
<1>1. ClientInv => TypeOK
  BY DEF ClientInv
<1> QED BY ClientInvariant, <1>1, PTL

(* A key that is used up has left its plaintext behind, or is doing so at this moment, however  *)
(* many loads, live events and retries run at once and in whatever order their answers come.    *)
THEOREM PlaintextIsKept == Spec => []PlaintextKept
<1>1. ClientInv => PlaintextKept
  BY DEF ClientInv
<1> QED BY ClientInvariant, <1>1, PTL

(* Only CannotOpen lets a message count as failed. *)
LEMMA OnlyCannotOpenFails ==
    ASSUME ClientInv, [Next]_vars, NEW i \in Ids,
           opened'[i].status = "failed", opened[i].status # "failed"
    PROVE  \E t \in Tasks : CannotOpen(t) /\ Current(t).id = i
<1>1. opened \in [Ids -> [status : {"ok", "failed"}, env : Envelope] \cup {Unopened}] /\ opened' # opened
  BY DEF ClientInv, TypeOK
<1>2. ~PeerNext /\ ~CloseChat /\ ~Miss /\ ~UNCHANGED vars
  BY <1>1 DEF PeerNext, Mint, Seal, Post, Edit, CloseChat, Miss, vars
<1>3. ASSUME NEW t \in Tasks, OpenChat(t) \/ LoadOlder(t) \/ TimerFires(t) \/ RequestFails(t) PROVE FALSE
  BY <1>1, <1>3 DEF OpenChat, LoadOlder, TimerFires, RequestFails
<1>4. ASSUME NEW t \in Tasks, Deliver(t) PROVE FALSE
  <2>1. opened'[i] = opened[i] \/ opened'[i] = Unopened
    BY <1>1, <1>4 DEF Deliver
  <2> QED BY <2>1 DEF Unopened
<1>5. ASSUME NEW t \in Tasks, Keys(t) \/ Unwrap(t) \/ Page(t) \/ FromCache(t) \/ NoKey(t) \/ StartOpening(t) PROVE FALSE
  BY <1>1, <1>5 DEF Keys, Unwrap, Page, FromCache, NoKey, StartOpening
<1>6. ASSUME NEW t \in Tasks, FinishOpening(t) PROVE FALSE
  <2>1. opened'[i] = opened[i] \/ opened'[i].status = "ok"
    BY <1>1, <1>6 DEF FinishOpening, Retain
  <2> QED BY <2>1
<1>7. ASSUME NEW t \in Tasks,
             FinishOpen(t) \/ FinishOlder(t) \/ FinishIncoming(t) \/ FinishEdited(t) \/ FinishRetry(t)
      PROVE  FALSE
  BY <1>1, <1>7 DEF FinishOpen, FinishOlder, FinishIncoming, FinishEdited, FinishRetry
<1>8. ASSUME NEW t \in Tasks, CannotOpen(t) PROVE Current(t).id = i
  BY <1>1, <1>8 DEF CannotOpen
<1>9. PICK t \in Tasks : CannotOpen(t)
  BY <1>2, <1>3, <1>4, <1>5, <1>6, <1>7 DEF Next, ReaderNext, Advance
<1> QED BY <1>8, <1>9

(* No order in which pages, events and retries reach a chain makes a message fail: it was being *)
(* opened, it has been edited, or it lies beyond the skip limit.                                *)
THEOREM FailuresExplained == Spec => FailuresAreExplained
<1> DEFINE Explained ==
             \A i \in Ids :
                opened'[i].status = "failed" /\ opened[i].status # "failed"
                  => \/ BeingOpened(i)
                     \/ stored[i].edited
                     \/ stored[i].idx - chains[stored[i].skid].index > MaxSkip
<1>1. ClientInv /\ [Next]_vars => [Explained]_vars
  <2> SUFFICES ASSUME ClientInv, [Next]_vars, NEW i \in Ids,
                      opened'[i].status = "failed", opened[i].status # "failed"
               PROVE  \/ BeingOpened(i)
                      \/ stored[i].edited
                      \/ stored[i].idx - chains[stored[i].skid].index > MaxSkip
    OBVIOUS
  <2>1. PICK t \in Tasks : CannotOpen(t) /\ Current(t).id = i
    BY OnlyCannotOpenFails
  <2>2. /\ ToDo(t) /\ opened[Current(t).id] = Unopened /\ chains[Current(t).env.skid] # NoChain
        /\ ~Answers(chains[Current(t).env.skid], Current(t).env.idx)
    BY <2>1 DEF CannotOpen
  <2> QED BY <2>1, <2>2, RefusedForAReason
<1> QED BY ClientInvariant, <1>1, PTL DEF Spec, FailuresAreExplained
============================================================================
