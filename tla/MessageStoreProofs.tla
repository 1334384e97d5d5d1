-------------------------- MODULE MessageStoreProofs --------------------------
(***************************************************************************)
(* The stores of a chat agree, for any number of users, objects, requests, *)
(* messages and envelopes.                                                 *)
(***************************************************************************)
EXTENDS MessageStoreProps, TLAPS

(* A request at message i that may change it or tell of it. *)
Busy(w, i) == work[w].id = i /\ work[w].pc \notin {"idle", "edit", "mark"}

(* What the participants ought to know of a message. *)
Actual(i) == IF Exists(i) THEN messages[i].env ELSE Deleted

(* What each place of a handler needs. *)
Placed(r) ==
    /\ r.pc = "idle" <=> r.id = 0
    /\ r.id <= minted
    /\ r.pc \in {"insert", "edit", "mark"} => r.user \in Users
    /\ r.pc \in {"insert", "edit", "write"} => r.env \in Envelope /\ r.skid \in Chains
    /\ r.pc = "insert" => \A f \in r.files : blob[f] # "none"

WorkInv ==
    /\ TypeOK
    /\ \A w \in Workers : Placed(work[w])
    /\ \A i \in Ids : told[i] # Unheard => i <= minted

(* The request that is alone at a message knows how it is stored, or leaves it to be found out. *)
Sees(r) ==
    /\ r.pc = "insert" => ~Exists(r.id)
    /\ r.pc = "write" => Exists(r.id)
    /\ r.pc = "reread" => Exists(r.id)
    /\ r.pc \in {"remove", "look", "reap"} => r.env = Deleted
    /\ r.pc \in {"look", "reap"} => ~Exists(r.id)
    /\ r.pc = "tell" => r.env = Actual(r.id)

(* One request at a time is at a message that is not contested, and when there is none, what was  *)
(* told last is how the message is.                                                               *)
ToldAt(i) ==
    /\ \A v, w \in Workers : Busy(v, i) /\ Busy(w, i) => v = w
    /\ \A w \in Workers : Busy(w, i) => Sees(work[w])
    /\ (\A w \in Workers : ~Busy(w, i)) => told[i] = Actual(i)

ToldInv == \A i \in (1..minted) \ contested : ToldAt(i)

(* The envelope a request carries, or a message has. *)
SealOf(x) == [env |-> x.env, skid |-> x.skid]

Carries(w, i) == work[w].id = i /\ work[w].pc \in {"insert", "edit", "write"}

(* What is stored or on its way was sealed for the message.  While all of that is of one chain,   *)
(* the envelope stored is the last one sealed, or an edit that is as late is still under way.     *)
NewestAt(i) ==
    \A e \in sealed[i] :
        \/ e.env <= messages[i].env
        \/ \E w \in Workers : Carries(w, i) /\ work[w].pc # "insert" /\ e.env <= work[w].env

SealedAt(i) ==
    /\ \A w \in Workers : Carries(w, i) => SealOf(work[w]) \in sealed[i]
    /\ \A w \in Workers : Carries(w, i) /\ work[w].pc = "insert"
                          => \A e \in sealed[i] : e.env <= work[w].env
    /\ \A w \in Workers : Carries(w, i) /\ work[w].pc = "write" => MayEdit(work[w])
    /\ Exists(i) => /\ SealOf(messages[i]) \in sealed[i]
                    /\ (\A e \in sealed[i] : e.skid = messages[i].skid) => NewestAt(i)

SealInv ==
    /\ \A i \in Ids : i > minted => sealed[i] = {}
    /\ \A i \in (1..minted) \ contested : SealedAt(i)

(* An object that a message names is there and nobody is about to delete it. *)
BlobInv ==
    \A f \in Files \ astray : InUse(f) => blob[f] \in {"new", "old"} /\ ~Doomed(f)

(* An unread message is above the mark of everyone else, or a mark that covers it is under way. *)
ReadInv ==
    \A u \in Users \ half, i \in DOMAIN messages \ late :
        messages[i].sender # u /\ ~messages[i].read
            => \/ i > lastRead[u]
               \/ \E w \in Workers : At(w, "mark") /\ work[w].user = u /\ i <= work[w].id

StoreInv == WorkInv /\ ToldInv /\ SealInv /\ BlobInv /\ ReadInv
----------------------------------------------------------------------------
(* What each action makes of its request.                                  *)

Pcs == {"idle", "insert", "edit", "write", "reread", "remove", "look", "reap", "tell", "mark"}

(* A request with one place or one value replaced. *)
LEMMA WorkFields ==
    ASSUME NEW r \in Work
    PROVE  /\ \A x \in Pcs : LET s == [r EXCEPT !.pc = x] IN
                s \in Work /\ s.pc = x /\ s.user = r.user /\ s.id = r.id /\ s.env = r.env /\ s.skid = r.skid /\ s.files = r.files
           /\ \A x \in Users \cup {Nobody} : LET s == [r EXCEPT !.user = x] IN
                s \in Work /\ s.pc = r.pc /\ s.user = x /\ s.id = r.id /\ s.env = r.env /\ s.skid = r.skid /\ s.files = r.files
           /\ \A x \in 0..MaxMessages : LET s == [r EXCEPT !.id = x] IN
                s \in Work /\ s.pc = r.pc /\ s.user = r.user /\ s.id = x /\ s.env = r.env /\ s.skid = r.skid /\ s.files = r.files
           /\ \A x \in 0..(MaxSeals + 1) : LET s == [r EXCEPT !.env = x] IN
                s \in Work /\ s.pc = r.pc /\ s.user = r.user /\ s.id = r.id /\ s.env = x /\ s.skid = r.skid /\ s.files = r.files
           /\ \A x \in SUBSET Files : LET s == [r EXCEPT !.files = x] IN
                s \in Work /\ s.pc = r.pc /\ s.user = r.user /\ s.id = r.id /\ s.env = r.env /\ s.skid = r.skid /\ s.files = x
BY DEF Work, Pcs

LEMMA IdleIsWork ==
    Idle \in Work /\ Idle.pc = "idle" /\ Idle.id = 0
BY StoreAssumption DEF Idle, Work, Unheard

(* The others are where they were. *)
LEMMA Becomes ==
    ASSUME work \in [Workers -> Work], NEW w \in Workers, NEW r \in Work, Become(w, r)
    PROVE  /\ work' \in [Workers -> Work] /\ work'[w] = r
           /\ \A v \in Workers \ {w} : work'[v] = work[v]
BY DEF Become

(* What a request is that begins. *)
LEMMA SendBecomes ==
    ASSUME TypeOK, NEW w \in Workers, NEW u \in Senders, NEW c \in Chains, NEW S \in SUBSET Files,
           Send(w, u, c, S)
    PROVE  \E r \in Work : Become(w, r) /\ r.pc = "insert" /\ r.user = u /\ r.id = minted + 1 /\ r.env = next[u]
                           /\ r.skid = c /\ r.files = S
<1>1. u \in Users /\ minted + 1 \in 0..MaxMessages /\ next[u] \in 0..(MaxSeals + 1) /\ c \in 0..MaxChains
  BY StoreAssumption DEF TypeOK, Send, Seal, Chains
<1>2. PICK r : r = [Idle EXCEPT !.pc = "insert", !.user = u, !.id = minted + 1, !.env = next[u], !.skid = c,
                          !.files = S]
  OBVIOUS
<1>3. r \in Work /\ r.pc = "insert" /\ r.user = u /\ r.id = minted + 1 /\ r.env = next[u] /\ r.skid = c
      /\ r.files = S
  BY <1>1, <1>2, IdleIsWork DEF Work
<1> QED BY <1>2, <1>3 DEF Send

LEMMA SendEditBecomes ==
    ASSUME TypeOK, NEW w \in Workers, NEW u \in Senders, NEW c \in Chains, NEW i \in Ids,
           SendEdit(w, u, c, i)
    PROVE  \E r \in Work : Become(w, r) /\ r.pc = "edit" /\ r.user = u /\ r.id = i /\ r.env = next[u] /\ r.skid = c
                           /\ r.files = {}
<1>1. u \in Users /\ i \in 0..MaxMessages /\ next[u] \in 0..(MaxSeals + 1) /\ c \in 0..MaxChains
  BY StoreAssumption DEF TypeOK, SendEdit, Seal, Ids, Chains
<1>2. PICK r : r = [Idle EXCEPT !.pc = "edit", !.user = u, !.id = i, !.env = next[u], !.skid = c]
  OBVIOUS
<1>3. r \in Work /\ r.pc = "edit" /\ r.user = u /\ r.id = i /\ r.env = next[u] /\ r.skid = c /\ r.files = {}
  BY <1>1, <1>2, IdleIsWork DEF Work, Idle
<1> QED BY <1>2, <1>3 DEF SendEdit

LEMMA DeleteFindBecomes ==
    ASSUME TypeOK, NEW w \in Workers, NEW i \in Ids, DeleteFind(w, i)
    PROVE  \E r \in Work : Become(w, r) /\ r.pc = "remove" /\ r.id = i /\ r.env = Deleted
<1>1. messages[i].files \in SUBSET Files /\ i \in 0..MaxMessages /\ Deleted \in 0..(MaxSeals + 1)
  BY StoreAssumption DEF TypeOK, DeleteFind, Exists, Message, Ids, Deleted
<1>2. PICK r : r = [Idle EXCEPT !.pc = "remove", !.id = i, !.env = Deleted, !.files = messages[i].files]
  OBVIOUS
<1>3. r \in Work /\ r.pc = "remove" /\ r.id = i /\ r.env = Deleted
  BY <1>1, <1>2, IdleIsWork DEF Work
<1> QED BY <1>2, <1>3 DEF DeleteFind

LEMMA MarkBecomes ==
    ASSUME TypeOK, NEW w \in Workers, NEW u \in Users, NEW i \in Ids, MarkLastRead(w, u, i)
    PROVE  \E r \in Work : Become(w, r) /\ r.pc = "mark" /\ r.user = u /\ r.id = i /\ r.files = {}
<1>1. i \in 0..MaxMessages
  BY StoreAssumption DEF Ids
<1>2. PICK r : r = [Idle EXCEPT !.pc = "mark", !.user = u, !.id = i]
  OBVIOUS
<1>3. r \in Work /\ r.pc = "mark" /\ r.user = u /\ r.id = i /\ r.files = {}
  BY <1>1, <1>2, IdleIsWork DEF Work, Idle
<1> QED BY <1>2, <1>3 DEF MarkLastRead

(* A request goes on: its user and its message stay. *)
GoesOn(r, s) == s \in Work /\ s.user = r.user /\ s.id = r.id /\ s.files \subseteq r.files

LEMMA OnTo ==
    ASSUME NEW r \in Work, NEW pc \in Pcs, NEW s, s = [r EXCEPT !.pc = pc]
    PROVE  GoesOn(r, s) /\ s.pc = pc /\ s.env = r.env /\ s.skid = r.skid /\ s.files = r.files
BY WorkFields DEF GoesOn

----------------------------------------------------------------------------
(* Types and places.                                                       *)

(* A request that is done with its envelope's chain. *)
LEMMA ChainDropped ==
    0 \in 0..MaxChains
BY StoreAssumption

(* Everything but the requests. *)
TypedStores ==
    /\ lastRead \in [Users -> 0..MaxMessages]
    /\ minted \in 0..MaxMessages
    /\ DOMAIN messages \subseteq 1..minted /\ \A i \in DOMAIN messages : messages[i] \in Message
    /\ next \in [Users -> 1..(MaxSeals + 1)]
    /\ sealed \in [Ids -> SUBSET [env : Envelope, skid : Chains]]
    /\ blob \in [Files -> {"none", "new", "old", "gone"}]
    /\ sweep \in [used : SUBSET Files, todo : SUBSET Files]
    /\ told \in [Ids -> 0..(MaxSeals + 1)]
    /\ contested \subseteq Ids /\ late \subseteq Ids /\ astray \subseteq Files /\ half \subseteq Users

(* Ids are not given back, nor do objects vanish as if they had never been stored. *)
Ongoing == minted <= minted' /\ \A f \in Files : blob[f] # "none" => blob'[f] # "none"

LEMMA OneMoves ==
    ASSUME WorkInv, TypedStores', Ongoing, NEW w \in Workers, NEW r \in Work, Become(w, r), Placed(r)',
           \A i \in Ids : told'[i] # Unheard => told[i] # Unheard \/ i <= minted
    PROVE  WorkInv'
<1>1. /\ work' \in [Workers -> Work] /\ work'[w] = r
      /\ \A v \in Workers \ {w} : work'[v] = work[v]
  BY Becomes DEF WorkInv, TypeOK
<1>2. TypeOK'
  BY <1>1 DEF TypedStores, TypeOK
<1>3. ASSUME NEW v \in Workers PROVE Placed(work[v])'
  <2>1. CASE v = w
    BY <1>1, <2>1
  <2>2. CASE v # w
    <3>1. work'[v] = work[v] /\ Placed(work[v]) /\ work[v] \in Work
      BY <1>1, <2>2 DEF WorkInv, TypeOK
    <3>2. minted \in Nat /\ minted' \in Nat /\ work[v].id \in Nat /\ work[v].files \subseteq Files
      BY <3>1 DEF Work, WorkInv, TypeOK, TypedStores
    <3> QED BY <3>1, <3>2 DEF Placed, Ongoing
  <2> QED BY <2>1, <2>2
<1>4. \A i \in Ids : told'[i] # Unheard => i <= minted'
  BY StoreAssumption DEF WorkInv, TypeOK, TypedStores, Ongoing, Ids
<1> QED BY <1>2, <1>3, <1>4 DEF WorkInv

LEMMA NobodyMoves ==
    ASSUME WorkInv, TypedStores', Ongoing, work' = work, told' = told
    PROVE  WorkInv'
<1>1. TypeOK'
  BY DEF TypedStores, WorkInv, TypeOK
<1>2. ASSUME NEW v \in Workers PROVE Placed(work[v])'
  <2>1. work'[v] = work[v] /\ Placed(work[v]) /\ work[v] \in Work
    BY DEF WorkInv, TypeOK
  <2>2. minted \in Nat /\ minted' \in Nat /\ work[v].id \in Nat /\ work[v].files \subseteq Files
    BY <2>1 DEF Work, WorkInv, TypeOK, TypedStores
  <2> QED BY <2>1, <2>2 DEF Placed, Ongoing
<1>3. \A i \in Ids : told'[i] # Unheard => i <= minted'
  BY StoreAssumption DEF WorkInv, TypeOK, TypedStores, Ongoing, Ids
<1> QED BY <1>1, <1>2, <1>3 DEF WorkInv

LEMMA IdleIsPlaced == ASSUME WorkInv, TypedStores' PROVE Placed(Idle)'
BY IdleIsWork DEF Placed, TypedStores

(* What a request at work is. *)
LEMMA AtWork ==
    ASSUME WorkInv, NEW w \in Workers
    PROVE  /\ work[w] \in Work /\ Placed(work[w]) /\ minted \in Nat
           /\ work[w].id \in Nat /\ (work[w].pc # "idle" => work[w].id \in 1..minted /\ work[w].id \in Ids)
<1>1. work[w] \in Work /\ Placed(work[w]) /\ minted \in 0..MaxMessages /\ MaxMessages \in Nat
  BY StoreAssumption DEF WorkInv, TypeOK
<1> QED BY <1>1 DEF Work, Placed, Ids

(* What is sealed is typed. *)
LEMMA SealTyped ==
    ASSUME sealed \in [Ids -> SUBSET [env : Envelope, skid : Chains]], NEW u, NEW c \in Chains, NEW i,
           next[u] \in Envelope, Seal(u, c, i)
    PROVE  sealed' \in [Ids -> SUBSET [env : Envelope, skid : Chains]]
<1>1. [env |-> next[u], skid |-> c] \in [env : Envelope, skid : Chains]
  OBVIOUS
<1> QED BY <1>1 DEF Seal

(* A request begins, and everything keeps its type. *)
LEMMA SendKeepsTypes ==
    ASSUME WorkInv, NEW w \in Workers, NEW u \in Senders, NEW c \in Chains, NEW S \in SUBSET Files,
           Send(w, u, c, S)
    PROVE  WorkInv'
<1> USE DEF reads, files, sealing
<1>0. TypeOK /\ TypedStores /\ MaxMessages \in Nat /\ MaxSeals \in Nat /\ Senders \subseteq Users /\ minted \in Nat
  BY StoreAssumption DEF WorkInv, TypeOK, TypedStores
<1>1. PICK r \in Work : Become(w, r) /\ r.pc = "insert" /\ r.user = u /\ r.id = minted + 1 /\ r.env = next[u]
                        /\ r.skid = c /\ r.files = S
  BY <1>0, SendBecomes
<1>2. minted' = minted + 1 /\ minted + 1 <= MaxMessages
  BY <1>0 DEF Send
<1>3. /\ next[u] \in Envelope /\ next' \in [Users -> 1..(MaxSeals + 1)]
      /\ sealed' \in [Ids -> SUBSET [env : Envelope, skid : Chains]]
  <2>1. next[u] \in Envelope /\ next' \in [Users -> 1..(MaxSeals + 1)]
    BY <1>0 DEF Send, Seal, Envelope, TypedStores
  <2> QED BY <1>0, <2>1, SealTyped DEF Send, TypedStores
<1>4. UNCHANGED <<lastRead, messages, blob, sweep, told, contested, late, astray, half>>
  BY DEF Send
<1>5. TypedStores' /\ Ongoing
  BY <1>0, <1>2, <1>3, <1>4 DEF TypedStores, Ongoing
<1>6. \A f \in S : blob[f] # "none"
  BY DEF Send
<1>7. Placed(r)'
  BY <1>0, <1>1, <1>2, <1>3, <1>4, <1>6 DEF Placed
<1> QED BY <1>1, <1>4, <1>5, <1>7, OneMoves

LEMMA SendEditKeepsTypes ==
    ASSUME WorkInv, NEW w \in Workers, NEW u \in Senders, NEW c \in Chains, NEW i \in Ids,
           SendEdit(w, u, c, i)
    PROVE  WorkInv'
<1> USE DEF reads, files, sealing
<1>0. TypeOK /\ TypedStores /\ MaxMessages \in Nat /\ MaxSeals \in Nat /\ Senders \subseteq Users /\ minted \in Nat
  BY StoreAssumption DEF WorkInv, TypeOK, TypedStores
<1>1. PICK r \in Work : Become(w, r) /\ r.pc = "edit" /\ r.user = u /\ r.id = i /\ r.env = next[u]
                        /\ r.skid = c /\ r.files = {}
  BY <1>0, SendEditBecomes
<1>2. i \in 1..minted
  BY <1>0 DEF SendEdit, Exists, TypeOK
<1>3. /\ next[u] \in Envelope /\ next' \in [Users -> 1..(MaxSeals + 1)]
      /\ sealed' \in [Ids -> SUBSET [env : Envelope, skid : Chains]]
  <2>1. next[u] \in Envelope /\ next' \in [Users -> 1..(MaxSeals + 1)]
    BY <1>0 DEF SendEdit, Seal, Envelope, TypedStores
  <2> QED BY <1>0, <2>1, SealTyped DEF SendEdit, TypedStores
<1>4. UNCHANGED <<lastRead, messages, minted, blob, sweep, told, contested, late, astray, half>>
  BY DEF SendEdit
<1>5. TypedStores' /\ Ongoing
  BY <1>0, <1>3, <1>4 DEF TypedStores, Ongoing
<1>6. Placed(r)'
  BY <1>0, <1>1, <1>2, <1>3, <1>4 DEF Placed
<1> QED BY <1>1, <1>4, <1>5, <1>6, OneMoves

LEMMA MarkKeepsTypes ==
    ASSUME WorkInv, NEW w \in Workers, NEW u \in Users, NEW i \in Ids, MarkLastRead(w, u, i)
    PROVE  WorkInv'
<1> USE DEF reads, files, sealing
<1>0. TypeOK /\ TypedStores /\ MaxMessages \in Nat /\ MaxSeals \in Nat /\ Senders \subseteq Users /\ minted \in Nat
  BY StoreAssumption DEF WorkInv, TypeOK, TypedStores
<1>1. PICK r \in Work : Become(w, r) /\ r.pc = "mark" /\ r.user = u /\ r.id = i /\ r.files = {}
  BY <1>0, MarkBecomes
<1>2. i \in 1..minted /\ i \in 0..MaxMessages
  BY <1>0 DEF MarkLastRead, Reports, WorkInv, Ids
<1>3. lastRead' \in [Users -> 0..MaxMessages]
  BY <1>0, <1>2 DEF MarkLastRead, TypedStores
<1>4. UNCHANGED <<messages, minted, next, sealed, blob, sweep, told, contested, late, astray, half>>
  BY DEF MarkLastRead
<1>5. TypedStores' /\ Ongoing
  BY <1>0, <1>3, <1>4 DEF TypedStores, Ongoing
<1>6. Placed(r)'
  BY <1>0, <1>1, <1>2, <1>4 DEF Placed
<1> QED BY <1>1, <1>4, <1>5, <1>6, OneMoves

LEMMA DeleteFindKeepsTypes ==
    ASSUME WorkInv, NEW w \in Workers, NEW i \in Ids, DeleteFind(w, i)
    PROVE  WorkInv'
<1> USE DEF reads, files, sealing
<1>0. TypeOK /\ TypedStores /\ MaxMessages \in Nat /\ MaxSeals \in Nat /\ Senders \subseteq Users /\ minted \in Nat
  BY StoreAssumption DEF WorkInv, TypeOK, TypedStores
<1>1. PICK r \in Work : Become(w, r) /\ r.pc = "remove" /\ r.id = i /\ r.env = Deleted
  BY <1>0, DeleteFindBecomes
<1>2. i \in 1..minted
  BY <1>0 DEF DeleteFind, Exists, TypeOK
<1>3. contested' \in {contested, contested \cup {i}}
  BY DEF DeleteFind, TakeUp
<1>4. UNCHANGED <<lastRead, messages, minted, next, sealed, blob, sweep, told, late, astray, half>>
  BY DEF DeleteFind
<1>5. TypedStores' /\ Ongoing
  BY <1>0, <1>3, <1>4 DEF TypedStores, Ongoing
<1>6. Placed(r)'
  BY <1>0, <1>1, <1>2, <1>4 DEF Placed
<1> QED BY <1>1, <1>4, <1>5, <1>6, OneMoves

(* A request ends, whatever it leaves undone. *)
LEMMA EndsKeepTypes ==
    ASSUME WorkInv, NEW w \in Workers, Become(w, Idle), TypedStores', Ongoing,
           \A i \in Ids : told'[i] # Unheard => told[i] # Unheard \/ i <= minted
    PROVE  WorkInv'
BY IdleIsPlaced, IdleIsWork, OneMoves

(* A request goes on where it needs no more than it had. *)
LEMMA GoingOnKeepsTypes ==
    ASSUME WorkInv, NEW w \in Workers, work[w].pc # "idle", TypedStores', Ongoing, told' = told, NEW r \in Work,
           GoesOn(work[w], r), Become(w, r), r.pc \notin {"idle", "insert", "edit", "mark"},
           r.pc = "write" => r.env \in Envelope /\ r.skid \in Chains
    PROVE  WorkInv'
<1>1. Placed(r)'
  BY AtWork DEF GoesOn, Placed, Ongoing, TypedStores
<1> QED BY <1>1, OneMoves

(* A request goes on, and everything keeps its type. *)
LEMMA InsertKeepsTypes ==
    ASSUME WorkInv, NEW w \in Workers, Insert(w)
    PROVE  WorkInv'
<1> USE DEF reads, files, sealing
<1>0. /\ TypeOK /\ TypedStores /\ MaxMessages \in Nat /\ MaxSeals \in Nat /\ minted \in Nat
      /\ work[w] \in Work /\ Placed(work[w]) /\ work[w].pc \in Pcs
  BY StoreAssumption, AtWork DEF WorkInv, TypeOK, TypedStores, Work, Pcs
<1>1. work[w].pc = "insert" /\ work[w].id \in 1..minted /\ work[w].id \in Ids /\ work[w].files \subseteq Files
      /\ work[w].user \in Users /\ work[w].env \in Envelope /\ work[w].skid \in Chains
  BY <1>0, AtWork DEF Insert, At, Placed, Work
<1>2. PICK r : r = [work[w] EXCEPT !.pc = "tell", !.skid = 0, !.files = {}]
  OBVIOUS
<1>3. GoesOn(work[w], r) /\ r.pc = "tell" /\ r \in Work
  BY <1>0, <1>2, ChainDropped DEF GoesOn, Work
<1>4. Become(w, r)
  BY <1>2 DEF Insert
<1>5. DOMAIN messages' \subseteq 1..minted /\ \A i \in DOMAIN messages' : messages'[i] \in Message
  <2>1. messages' = [i \in DOMAIN messages \cup {work[w].id} |->
                           IF i = work[w].id THEN [sender |-> work[w].user, env |-> work[w].env, skid |-> work[w].skid,
                                                   files |-> work[w].files, read |-> FALSE]
                           ELSE messages[i]]
    BY DEF Insert
  <2>2. [sender |-> work[w].user, env |-> work[w].env, skid |-> work[w].skid, files |-> work[w].files, read |-> FALSE] \in Message
    BY <1>1 DEF Message
  <2> QED BY <1>0, <1>1, <2>1, <2>2 DEF TypedStores
<1>6. astray' \subseteq Files /\ late' \subseteq Ids
  BY <1>0, <1>1 DEF Insert, TypedStores
<1>7. UNCHANGED <<lastRead, half, minted, next, sealed, blob, sweep, told, contested>>
  BY DEF Insert
<1>8. TypedStores' /\ Ongoing
  BY <1>0, <1>5, <1>6, <1>7 DEF TypedStores, Ongoing
<1> QED BY <1>1, <1>3, <1>4, <1>7, <1>8, GoingOnKeepsTypes

LEMMA TellKeepsTypes ==
    ASSUME WorkInv, NEW w \in Workers, Tell(w)
    PROVE  WorkInv'
<1> USE DEF reads, files, sealing
<1>0. /\ TypeOK /\ TypedStores /\ MaxMessages \in Nat /\ MaxSeals \in Nat /\ minted \in Nat
      /\ work[w] \in Work /\ Placed(work[w]) /\ work[w].pc \in Pcs
  BY StoreAssumption, AtWork DEF WorkInv, TypeOK, TypedStores, Work, Pcs
<1>1. work[w].pc = "tell" /\ work[w].id \in 1..minted /\ work[w].id \in Ids /\ work[w].env \in 0..(MaxSeals + 1)
  BY <1>0, AtWork DEF Tell, At, Work
<1>2. told' = [told EXCEPT ![work[w].id] = work[w].env] /\ Become(w, Idle)
  BY DEF Tell
<1>3. UNCHANGED <<lastRead, messages, minted, next, sealed, blob, sweep, contested, late, astray, half>>
  BY DEF Tell
<1>4. told' \in [Ids -> 0..(MaxSeals + 1)]
  BY <1>0, <1>1, <1>2 DEF TypedStores
<1>5. TypedStores' /\ Ongoing
  BY <1>0, <1>3, <1>4 DEF TypedStores, Ongoing
<1>6. \A i \in Ids : told'[i] # Unheard => told[i] # Unheard \/ i <= minted
  BY <1>0, <1>1, <1>2 DEF TypedStores
<1> QED BY <1>2, <1>5, <1>6, EndsKeepTypes

LEMMA EditFindKeepsTypes ==
    ASSUME WorkInv, NEW w \in Workers, EditFind(w)
    PROVE  WorkInv'
<1> USE DEF reads, files, sealing
<1>0. /\ TypeOK /\ TypedStores /\ MaxMessages \in Nat /\ MaxSeals \in Nat /\ minted \in Nat
      /\ work[w] \in Work /\ Placed(work[w]) /\ work[w].pc \in Pcs
  BY StoreAssumption, AtWork DEF WorkInv, TypeOK, TypedStores, Work, Pcs
<1>1. work[w].pc = "edit" /\ work[w].id \in Ids /\ work[w].env \in Envelope /\ work[w].skid \in Chains
  BY <1>0, AtWork DEF EditFind, At, Placed
<1>2. contested' \in {contested, contested \cup {work[w].id}}
  BY DEF EditFind, TakeUp
<1>3. UNCHANGED <<lastRead, messages, minted, next, sealed, blob, sweep, told, late, astray, half>>
  BY DEF EditFind
<1>4. TypedStores' /\ Ongoing
  BY <1>0, <1>1, <1>2, <1>3 DEF TypedStores, Ongoing
<1>5. PICK r : r = [work[w] EXCEPT !.pc = "write"]
  OBVIOUS
<1>6. GoesOn(work[w], r) /\ r.pc = "write" /\ r.env = work[w].env /\ r.skid = work[w].skid /\ r \in Work
  BY <1>0, <1>5, OnTo DEF GoesOn, Pcs
<1>7. Become(w, r) \/ Become(w, Idle)
  BY <1>5 DEF EditFind
<1> QED BY <1>1, <1>3, <1>4, <1>6, <1>7, GoingOnKeepsTypes, EndsKeepTypes

LEMMA EditWriteKeepsTypes ==
    ASSUME WorkInv, NEW w \in Workers, EditWrite(w)
    PROVE  WorkInv'
<1> USE DEF reads, files, sealing
<1>0. /\ TypeOK /\ TypedStores /\ MaxMessages \in Nat /\ MaxSeals \in Nat /\ minted \in Nat
      /\ work[w] \in Work /\ Placed(work[w]) /\ work[w].pc \in Pcs
  BY StoreAssumption, AtWork DEF WorkInv, TypeOK, TypedStores, Work, Pcs
<1>1. work[w].pc = "write" /\ work[w].id \in Ids /\ work[w].env \in Envelope /\ work[w].skid \in Chains
  BY <1>0, AtWork DEF EditWrite, At, Placed
<1>2. UNCHANGED <<lastRead, minted, next, sealed, blob, sweep, told, contested, late, astray, half>>
  BY DEF EditWrite
<1>3. DOMAIN messages' \subseteq 1..minted /\ \A i \in DOMAIN messages' : messages'[i] \in Message
  <2>1. messages' = [i \in DOMAIN messages |->
                      IF i = work[w].id THEN [messages[i] EXCEPT !.env = work[w].env, !.skid = work[w].skid]
                      ELSE messages[i]]
    BY DEF EditWrite
  <2>2. \A m \in Message : [m EXCEPT !.env = work[w].env, !.skid = work[w].skid] \in Message
    BY <1>1 DEF Message
  <2> QED BY <1>0, <2>1, <2>2 DEF TypedStores
<1>4. TypedStores' /\ Ongoing
  BY <1>0, <1>2, <1>3 DEF TypedStores, Ongoing
<1>5. PICK r : r = [work[w] EXCEPT !.pc = "reread", !.skid = 0]
  OBVIOUS
<1>6. GoesOn(work[w], r) /\ r.pc = "reread" /\ r \in Work
  BY <1>0, <1>5, ChainDropped DEF GoesOn, Work
<1>7. Become(w, r)
  BY <1>5 DEF EditWrite
<1> QED BY <1>1, <1>2, <1>4, <1>6, <1>7, GoingOnKeepsTypes

LEMMA EditRereadKeepsTypes ==
    ASSUME WorkInv, NEW w \in Workers, EditReread(w)
    PROVE  WorkInv'
<1> USE DEF reads, files, sealing
<1>0. /\ TypeOK /\ TypedStores /\ MaxMessages \in Nat /\ MaxSeals \in Nat /\ minted \in Nat
      /\ work[w] \in Work /\ Placed(work[w]) /\ work[w].pc \in Pcs
  BY StoreAssumption, AtWork DEF WorkInv, TypeOK, TypedStores, Work, Pcs
<1>1. work[w].pc = "reread"
  BY DEF EditReread, At
<1>2. UNCHANGED <<lastRead, messages, minted, next, sealed, blob, sweep, told, contested, late, astray, half>>
  BY DEF EditReread
<1>3. TypedStores' /\ Ongoing
  BY <1>0, <1>2 DEF TypedStores, Ongoing
<1>4. CASE Become(w, Idle)
  BY <1>2, <1>3, <1>4, EndsKeepTypes
<1>5. CASE Exists(work[w].id)
  <2>1. messages[work[w].id].env \in 0..(MaxSeals + 1)
    BY <1>0, <1>5 DEF Exists, TypedStores, Message, Envelope
  <2>2. PICK r : r = [work[w] EXCEPT !.pc = "tell", !.env = messages[work[w].id].env]
    OBVIOUS
  <2>3. GoesOn(work[w], r) /\ r.pc = "tell" /\ r \in Work
    BY <1>0, <2>1, <2>2 DEF GoesOn, Work
  <2>4. Become(w, r)
    BY <1>5, <2>2 DEF EditReread
  <2> QED BY <1>1, <1>2, <1>3, <2>3, <2>4, GoingOnKeepsTypes
<1> QED BY <1>4, <1>5 DEF EditReread

LEMMA DeleteOneKeepsTypes ==
    ASSUME WorkInv, NEW w \in Workers, DeleteOne(w)
    PROVE  WorkInv'
<1> USE DEF reads, files, sealing
<1>0. /\ TypeOK /\ TypedStores /\ MaxMessages \in Nat /\ MaxSeals \in Nat /\ minted \in Nat
      /\ work[w] \in Work /\ Placed(work[w]) /\ work[w].pc \in Pcs
  BY StoreAssumption, AtWork DEF WorkInv, TypeOK, TypedStores, Work, Pcs
<1>1. work[w].pc = "remove"
  BY DEF DeleteOne, At
<1>2. UNCHANGED <<lastRead, minted, next, sealed, blob, sweep, told, contested, late, astray, half>>
  BY DEF DeleteOne
<1>3. DOMAIN messages' \subseteq 1..minted /\ \A i \in DOMAIN messages' : messages'[i] \in Message
  BY <1>0 DEF DeleteOne, TypedStores
<1>4. TypedStores' /\ Ongoing
  BY <1>0, <1>2, <1>3 DEF TypedStores, Ongoing
<1>5. PICK pc \in {"tell", "look"} : Become(w, [work[w] EXCEPT !.pc = pc])
  BY DEF DeleteOne
<1>6. PICK r : r = [work[w] EXCEPT !.pc = pc]
  OBVIOUS
<1>7. GoesOn(work[w], r) /\ r.pc = pc /\ r \in Work
  BY <1>0, <1>5, <1>6, OnTo DEF GoesOn, Pcs
<1> QED BY <1>1, <1>2, <1>4, <1>5, <1>6, <1>7, GoingOnKeepsTypes

LEMMA LookKeepsTypes ==
    ASSUME WorkInv, NEW w \in Workers, Look(w)
    PROVE  WorkInv'
<1> USE DEF reads, files, sealing
<1>0. /\ TypeOK /\ TypedStores /\ MaxMessages \in Nat /\ MaxSeals \in Nat /\ minted \in Nat
      /\ work[w] \in Work /\ Placed(work[w]) /\ work[w].pc \in Pcs
  BY StoreAssumption, AtWork DEF WorkInv, TypeOK, TypedStores, Work, Pcs
<1>1. work[w].pc = "look"
  BY DEF Look, At
<1>2. UNCHANGED <<lastRead, messages, minted, next, sealed, blob, sweep, told, contested, late, astray, half>>
  BY DEF Look
<1>3. TypedStores' /\ Ongoing
  BY <1>0, <1>2 DEF TypedStores, Ongoing
<1>4. PICK r : Become(w, r) /\ r \in {[work[w] EXCEPT !.pc = "tell", !.files = {}], [work[w] EXCEPT !.pc = "reap"]}
  BY DEF Look
<1>5. GoesOn(work[w], r) /\ r.pc \in {"tell", "reap"} /\ r \in Work
  BY <1>0, <1>4 DEF GoesOn, Work
<1> QED BY <1>1, <1>2, <1>3, <1>4, <1>5, GoingOnKeepsTypes

LEMMA ReapKeepsTypes ==
    ASSUME WorkInv, NEW w \in Workers, Reap(w)
    PROVE  WorkInv'
<1> USE DEF reads, files, sealing
<1>0. /\ TypeOK /\ TypedStores /\ MaxMessages \in Nat /\ MaxSeals \in Nat /\ minted \in Nat
      /\ work[w] \in Work /\ Placed(work[w]) /\ work[w].pc \in Pcs
  BY StoreAssumption, AtWork DEF WorkInv, TypeOK, TypedStores, Work, Pcs
<1>1. work[w].pc = "reap"
  BY DEF Reap, At
<1>2. UNCHANGED <<lastRead, messages, minted, next, sealed, sweep, told, contested, late, astray, half>>
  BY DEF Reap
<1>3. blob' = [f \in Files |-> IF f \in work[w].files THEN "gone" ELSE blob[f]] \/ blob' = blob
  BY DEF Reap
<1>4. TypedStores' /\ Ongoing
  BY <1>0, <1>2, <1>3 DEF TypedStores, Ongoing
<1>5. PICK r : r = [work[w] EXCEPT !.pc = "tell", !.files = {}]
  OBVIOUS
<1>6. GoesOn(work[w], r) /\ r.pc = "tell" /\ r \in Work
  BY <1>0, <1>5 DEF GoesOn, Work
<1>7. Become(w, r)
  BY <1>5 DEF Reap
<1> QED BY <1>1, <1>2, <1>4, <1>6, <1>7, GoingOnKeepsTypes

LEMMA MarkReadKeepsTypes ==
    ASSUME WorkInv, NEW w \in Workers, MarkRead(w)
    PROVE  WorkInv'
<1> USE DEF reads, files, sealing
<1>0. /\ TypeOK /\ TypedStores /\ MaxMessages \in Nat /\ MaxSeals \in Nat /\ minted \in Nat
      /\ work[w] \in Work /\ Placed(work[w]) /\ work[w].pc \in Pcs
  BY StoreAssumption, AtWork DEF WorkInv, TypeOK, TypedStores, Work, Pcs
<1>1. UNCHANGED <<lastRead, minted, next, sealed, blob, sweep, told, contested, late, astray, half>> /\ Become(w, Idle)
  BY DEF MarkRead
<1>2. DOMAIN messages' \subseteq 1..minted /\ \A i \in DOMAIN messages' : messages'[i] \in Message
  <2>1. messages' = [i \in DOMAIN messages |->
                      IF i <= work[w].id /\ messages[i].sender # work[w].user
                      THEN [messages[i] EXCEPT !.read = TRUE] ELSE messages[i]]
    BY DEF MarkRead
  <2>2. \A m \in Message : [m EXCEPT !.read = TRUE] \in Message
    BY DEF Message
  <2> QED BY <1>0, <2>1, <2>2 DEF TypedStores
<1>3. TypedStores' /\ Ongoing
  BY <1>0, <1>1, <1>2 DEF TypedStores, Ongoing
<1> QED BY <1>1, <1>3, EndsKeepTypes

LEMMA FailsKeepsTypes ==
    ASSUME WorkInv, NEW w \in Workers, Fails(w)
    PROVE  WorkInv'
<1> USE DEF reads, files, sealing
<1>0. /\ TypeOK /\ TypedStores /\ MaxMessages \in Nat /\ MaxSeals \in Nat /\ minted \in Nat
      /\ work[w] \in Work /\ Placed(work[w]) /\ work[w].pc \in Pcs
  BY StoreAssumption, AtWork DEF WorkInv, TypeOK, TypedStores, Work, Pcs
<1>1. UNCHANGED <<lastRead, messages, minted, next, sealed, blob, sweep, told, late, astray>> /\ Become(w, Idle)
  BY DEF Fails
<1>2. contested' \subseteq Ids
  BY <1>0, AtWork DEF Fails, At, TypedStores
<1>3. half' \subseteq Users
  BY <1>0 DEF Fails, At, TypedStores, Placed
<1>4. TypedStores' /\ Ongoing
  BY <1>0, <1>1, <1>2, <1>3 DEF TypedStores, Ongoing
<1> QED BY <1>1, <1>4, EndsKeepTypes

(* The bucket and its collector. *)
LEMMA BucketKeepsTypes ==
    ASSUME WorkInv, SweepStart \/ \E f \in Files : Upload(f) \/ GetsOld(f) \/ SweepLook(f)
    PROVE  WorkInv'
<1> USE DEF reads, files, sealing
<1>0. TypedStores /\ minted \in Nat
  BY StoreAssumption DEF WorkInv, TypeOK, TypedStores
<1>1. ASSUME NEW f \in Files, Upload(f) PROVE TypedStores' /\ Ongoing /\ UNCHANGED <<work, told>>
  BY <1>0, <1>1 DEF Upload, TypedStores, Ongoing
<1>2. ASSUME NEW f \in Files, GetsOld(f) PROVE TypedStores' /\ Ongoing /\ UNCHANGED <<work, told>>
  BY <1>0, <1>2 DEF GetsOld, TypedStores, Ongoing
<1>3. ASSUME NEW f \in Files, SweepLook(f) PROVE TypedStores' /\ Ongoing /\ UNCHANGED <<work, told>>
  BY <1>0, <1>3 DEF SweepLook, TypedStores, Ongoing
<1>4. CASE SweepStart
  BY <1>0, <1>4, NobodyMoves DEF SweepStart, TypedStores, Ongoing
<1> QED BY <1>1, <1>2, <1>3, <1>4, NobodyMoves

(* Every step. *)
LEMMA WorkStep == WorkInv /\ [Next]_vars => WorkInv'
<1> SUFFICES ASSUME WorkInv, [Next]_vars PROVE WorkInv'
  OBVIOUS
<1>1. CASE UNCHANGED vars
  <2>1. TypedStores' /\ Ongoing /\ UNCHANGED <<work, told>>
    BY <1>1, StoreAssumption DEF vars, reads, files, sealing, WorkInv, TypeOK, TypedStores, Ongoing
  <2> QED BY <2>1, NobodyMoves
<1>2. ASSUME NEW w \in Workers,
             \/ \E u \in Senders, c \in Chains, S \in {{}} \cup {{f} : f \in Files} : Send(w, u, c, S)
             \/ \E u \in Senders, c \in Chains, i \in Ids : SendEdit(w, u, c, i)
             \/ \E u \in Users \ Senders, i \in Ids : MarkLastRead(w, u, i)
             \/ \E i \in Ids : DeleteFind(w, i)
      PROVE  WorkInv'
  BY <1>2, SendKeepsTypes, SendEditKeepsTypes, MarkKeepsTypes, DeleteFindKeepsTypes
<1>3. ASSUME NEW w \in Workers,
             \/ Insert(w) \/ Tell(w) \/ EditFind(w) \/ EditWrite(w) \/ EditReread(w)
             \/ DeleteOne(w) \/ Look(w) \/ Reap(w) \/ MarkRead(w) \/ Fails(w)
      PROVE  WorkInv'
  BY <1>3, InsertKeepsTypes, TellKeepsTypes, EditFindKeepsTypes, EditWriteKeepsTypes, EditRereadKeepsTypes,
     DeleteOneKeepsTypes, LookKeepsTypes, ReapKeepsTypes, MarkReadKeepsTypes, FailsKeepsTypes
<1> QED BY <1>1, <1>2, <1>3, BucketKeepsTypes DEF Next
----------------------------------------------------------------------------
(* Attachments.                                                            *)

(* A step that names no object anew, and decides no deletion. *)
LEMMA BlobsStay ==
    ASSUME WorkInv, BlobInv, UNCHANGED <<blob, sweep>>, astray \subseteq astray',
           \A f \in Files : InUse(f)' => InUse(f),
           \A v \in Workers : work'[v].pc = "reap" => work'[v] = work[v]
    PROVE  BlobInv'
<1> SUFFICES ASSUME NEW f \in Files \ astray', InUse(f)' PROVE blob'[f] \in {"new", "old"} /\ ~Doomed(f)'
  BY DEF BlobInv
<1>1. blob[f] \in {"new", "old"} /\ ~Doomed(f)
  BY DEF BlobInv
<1>2. \A v \in Workers : ~(work'[v].pc = "reap" /\ f \in work'[v].files)
  BY <1>1 DEF Doomed, At
<1> QED BY <1>1, <1>2 DEF Doomed, At

(* Nor does a request at another place decide one. *)
LEMMA ReapersStay ==
    ASSUME WorkInv, NEW w \in Workers, NEW r \in Work, Become(w, r), r.pc # "reap"
    PROVE  \A v \in Workers : work'[v].pc = "reap" => work'[v] = work[v]
<1>1. work'[w] = r /\ \A v \in Workers \ {w} : work'[v] = work[v]
  BY Becomes DEF WorkInv, TypeOK
<1> QED BY <1>1

LEMMA BeginningsKeepBlobs ==
    ASSUME WorkInv, BlobInv, NEW w \in Workers,
           \/ \E u \in Senders, c \in Chains, S \in SUBSET Files : Send(w, u, c, S)
           \/ \E u \in Senders, c \in Chains, i \in Ids : SendEdit(w, u, c, i)
           \/ \E u \in Users, i \in Ids : MarkLastRead(w, u, i)
           \/ \E i \in Ids : DeleteFind(w, i)
    PROVE  BlobInv'
<1>0. TypeOK
  BY DEF WorkInv
<1>1. \E r \in Work : Become(w, r) /\ r.pc # "reap"
  BY <1>0, SendBecomes, SendEditBecomes, MarkBecomes, DeleteFindBecomes
<1>2. ASSUME NEW u \in Senders, NEW c \in Chains, NEW S \in SUBSET Files,
           Send(w, u, c, S) PROVE UNCHANGED <<messages, blob, sweep, astray>>
  BY <1>2 DEF Send, files
<1>3. ASSUME NEW u \in Senders, NEW c \in Chains, NEW i \in Ids,
           SendEdit(w, u, c, i) PROVE UNCHANGED <<messages, blob, sweep, astray>>
  BY <1>3 DEF SendEdit, files
<1>4. ASSUME NEW u \in Users, NEW i \in Ids, MarkLastRead(w, u, i) PROVE UNCHANGED <<messages, blob, sweep, astray>>
  BY <1>4 DEF MarkLastRead, files
<1>5. ASSUME NEW i \in Ids, DeleteFind(w, i) PROVE UNCHANGED <<messages, blob, sweep, astray>>
  BY <1>5 DEF DeleteFind, files
<1>6. UNCHANGED <<messages, blob, sweep, astray>>
  BY <1>2, <1>3, <1>4, <1>5
<1> QED BY <1>1, <1>6, BlobsStay, ReapersStay DEF InUse

(* Editing, marking, removing and telling name no object anew. *)
LEMMA GoingOnKeepsBlobs ==
    ASSUME WorkInv, BlobInv, NEW w \in Workers,
           \/ Tell(w) \/ EditFind(w) \/ EditWrite(w) \/ EditReread(w) \/ DeleteOne(w) \/ MarkRead(w) \/ Fails(w)
    PROVE  BlobInv'
<1>0. /\ work[w] \in Work /\ Idle \in Work /\ Idle.pc = "idle"
      /\ \A i \in DOMAIN messages : messages[i] \in Message
  BY AtWork, IdleIsWork DEF WorkInv, TypeOK
<1>1. ASSUME NEW r, Become(w, r), r.pc # "reap"
      PROVE  \A v \in Workers : work'[v].pc = "reap" => work'[v] = work[v]
  BY <1>1 DEF Become, WorkInv, TypeOK
<1>2. CASE Tell(w)
  BY <1>0, <1>1, <1>2, BlobsStay DEF Tell, files, InUse
<1>3. CASE EditFind(w)
  <2>1. \E r : Become(w, r) /\ r.pc # "reap"
    <3>1. [work[w] EXCEPT !.pc = "write"].pc = "write"
      BY <1>0 DEF Work
    <3> QED BY <1>0, <1>3, <3>1 DEF EditFind
  <2> QED BY <1>1, <1>3, <2>1, BlobsStay DEF EditFind, files, InUse
<1>4. CASE EditWrite(w)
  <2>1. \E r : Become(w, r) /\ r.pc # "reap"
    <3>1. [work[w] EXCEPT !.pc = "reread", !.skid = 0].pc = "reread"
      BY <1>0 DEF Work
    <3> QED BY <1>0, <1>4, <3>1 DEF EditWrite
  <2>2. messages' = [i \in DOMAIN messages |->
                      IF i = work[w].id THEN [messages[i] EXCEPT !.env = work[w].env, !.skid = work[w].skid]
                      ELSE messages[i]]
    BY <1>4 DEF EditWrite
  <2>3. \A m \in Message : [m EXCEPT !.env = work[w].env, !.skid = work[w].skid].files = m.files
    BY DEF Message
  <2>4. \A f \in Files : InUse(f)' => InUse(f)
    BY <1>0, <2>2, <2>3 DEF InUse
  <2> QED BY <1>1, <1>4, <2>1, <2>4, BlobsStay DEF EditWrite, files
<1>5. CASE EditReread(w)
  <2>1. \E r : Become(w, r) /\ r.pc # "reap"
    <3>1. [work[w] EXCEPT !.pc = "tell", !.env = messages[work[w].id].env].pc = "tell"
      BY <1>0 DEF Work
    <3> QED BY <1>0, <1>5, <3>1 DEF EditReread
  <2> QED BY <1>1, <1>5, <2>1, BlobsStay DEF EditReread, files, InUse
<1>6. CASE DeleteOne(w)
  <2>1. \E r : Become(w, r) /\ r.pc # "reap"
    <3>1. \A pc \in {"tell", "look"} : [work[w] EXCEPT !.pc = pc].pc = pc
      BY <1>0 DEF Work
    <3>2. PICK pc \in {"tell", "look"} : Become(w, [work[w] EXCEPT !.pc = pc])
      BY <1>6 DEF DeleteOne
    <3> QED BY <3>1, <3>2
  <2>2. messages' = [i \in DOMAIN messages \ {work[w].id} |-> messages[i]]
    BY <1>6 DEF DeleteOne
  <2>3. \A f \in Files : InUse(f)' => InUse(f)
    BY <2>2 DEF InUse
  <2> QED BY <1>1, <1>6, <2>1, <2>3, BlobsStay DEF DeleteOne, files
<1>7. CASE MarkRead(w)
  <2>1. messages' = [i \in DOMAIN messages |->
                      IF i <= work[w].id /\ messages[i].sender # work[w].user
                      THEN [messages[i] EXCEPT !.read = TRUE] ELSE messages[i]]
    BY <1>7 DEF MarkRead
  <2>2. \A m \in Message : [m EXCEPT !.read = TRUE].files = m.files
    BY DEF Message
  <2>3. \A f \in Files : InUse(f)' => InUse(f)
    BY <1>0, <2>1, <2>2 DEF InUse
  <2> QED BY <1>0, <1>1, <1>7, <2>3, BlobsStay DEF MarkRead, files
<1>8. CASE Fails(w)
  BY <1>0, <1>1, <1>8, BlobsStay DEF Fails, files, InUse
<1> QED BY <1>2, <1>3, <1>4, <1>5, <1>6, <1>7, <1>8

(* A message stored names objects that are there, or the history notes that they were doomed. *)
LEMMA InsertKeepsBlobs ==
    ASSUME WorkInv, BlobInv, NEW w \in Workers, Insert(w)
    PROVE  BlobInv'
<1>0. work[w] \in Work /\ Placed(work[w]) /\ work[w].pc = "insert" /\ blob \in [Files -> {"none", "new", "old", "gone"}]
  BY AtWork DEF Insert, At, WorkInv, TypeOK
<1>1. UNCHANGED <<blob, sweep>> /\ astray' = astray \cup {f \in work[w].files : Doomed(f)}
  BY DEF Insert, files
<1>2. \A v \in Workers : work'[v].pc = "reap" => work'[v] = work[v]
  <2>1. [work[w] EXCEPT !.pc = "tell", !.files = {}].pc = "tell"
    BY <1>0 DEF Work
  <2> QED BY <2>1 DEF Insert, Become, WorkInv, TypeOK
<1>3. \A f \in Files : InUse(f)' => InUse(f) \/ f \in work[w].files
  BY DEF Insert, InUse
<1> SUFFICES ASSUME NEW f \in Files \ astray', InUse(f)' PROVE blob'[f] \in {"new", "old"} /\ ~Doomed(f)'
  BY DEF BlobInv
<1>4. f \notin astray
  BY <1>1
<1>5. CASE InUse(f)
  BY <1>1, <1>2, <1>4, <1>5 DEF BlobInv, Doomed, At
<1>6. CASE f \in work[w].files
  <2>1. ~Doomed(f) /\ blob[f] # "none"
    BY <1>0, <1>1, <1>6 DEF Placed
  <2> QED BY <1>0, <1>1, <1>2, <2>1 DEF Doomed, At
<1> QED BY <1>3, <1>5, <1>6

(* A deletion is decided when nothing names the objects. *)
LEMMA LookKeepsBlobs ==
    ASSUME WorkInv, BlobInv, NEW w \in Workers, Look(w)
    PROVE  BlobInv'
<1>0. work[w] \in Work
  BY AtWork
<1>1. UNCHANGED <<messages, blob, sweep, astray>>
  BY DEF Look, files
<1>2. \A v \in Workers \ {w} : work'[v] = work[v]
  BY DEF Look, Become, WorkInv, TypeOK
<1>3. work'[w].pc = "reap" => work'[w].files = work[w].files /\ \A f \in work[w].files : ~InUse(f)
  <2>1. [work[w] EXCEPT !.pc = "tell", !.files = {}].pc = "tell" /\ [work[w] EXCEPT !.pc = "reap"].files = work[w].files
    BY <1>0 DEF Work
  <2>2. CASE \E f \in work[w].files : InUse(f)
    BY <2>1, <2>2 DEF Look, Become, WorkInv, TypeOK
  <2>3. CASE ~\E f \in work[w].files : InUse(f)
    BY <2>1, <2>3 DEF Look, Become, WorkInv, TypeOK
  <2> QED BY <2>2, <2>3
<1> SUFFICES ASSUME NEW f \in Files \ astray, InUse(f) PROVE blob[f] \in {"new", "old"} /\ ~Doomed(f)'
  BY <1>1 DEF BlobInv, InUse
<1>4. blob[f] \in {"new", "old"} /\ ~Doomed(f)
  BY DEF BlobInv
<1> QED BY <1>1, <1>2, <1>3, <1>4 DEF Doomed, At

LEMMA ReapKeepsBlobs ==
    ASSUME WorkInv, BlobInv, NEW w \in Workers, Reap(w)
    PROVE  BlobInv'
<1>0. work[w] \in Work /\ blob \in [Files -> {"none", "new", "old", "gone"}]
  BY AtWork DEF WorkInv, TypeOK
<1>1. UNCHANGED <<messages, sweep, astray>> /\ work[w].pc = "reap"
  BY DEF Reap, At
<1>2. \A v \in Workers : work'[v].pc = "reap" => work'[v] = work[v]
  <2>1. [work[w] EXCEPT !.pc = "tell", !.files = {}].pc = "tell"
    BY <1>0 DEF Work
  <2> QED BY <2>1 DEF Reap, Become, WorkInv, TypeOK
<1> SUFFICES ASSUME NEW f \in Files \ astray, InUse(f) PROVE blob'[f] \in {"new", "old"} /\ ~Doomed(f)'
  BY <1>1 DEF BlobInv, InUse
<1>3. blob[f] \in {"new", "old"} /\ ~Doomed(f)
  BY DEF BlobInv
<1>4. f \notin work[w].files
  BY <1>1, <1>3 DEF Doomed, At
<1>5. blob'[f] = blob[f]
  BY <1>0, <1>4 DEF Reap
<1> QED BY <1>1, <1>2, <1>3, <1>5 DEF Doomed, At

(* The collector takes what it has found nowhere, and what it has not looked for is noted. *)
LEMMA BucketKeepsBlobs ==
    ASSUME WorkInv, BlobInv, SweepStart \/ \E f \in Files : Upload(f) \/ GetsOld(f) \/ SweepLook(f)
    PROVE  BlobInv'
<1>0. blob \in [Files -> {"none", "new", "old", "gone"}] /\ sweep \in [used : SUBSET Files, todo : SUBSET Files]
  BY DEF WorkInv, TypeOK
<1>1. UNCHANGED <<messages, work>> /\ astray \subseteq astray'
  BY DEF SweepStart, Upload, GetsOld, SweepLook
<1> SUFFICES ASSUME NEW f \in Files \ astray', InUse(f) PROVE blob'[f] \in {"new", "old"} /\ ~Doomed(f)'
  BY <1>1 DEF BlobInv, InUse
<1>2. blob[f] \in {"new", "old"} /\ ~Doomed(f)
  BY <1>1 DEF BlobInv
<1>3. ASSUME NEW g \in Files, Upload(g) PROVE blob'[f] \in {"new", "old"} /\ ~Doomed(f)'
  BY <1>0, <1>1, <1>2, <1>3 DEF Upload, Doomed, At
<1>4. ASSUME NEW g \in Files, GetsOld(g) PROVE blob'[f] \in {"new", "old"} /\ ~Doomed(f)'
  BY <1>0, <1>1, <1>2, <1>4 DEF GetsOld, Doomed, At
<1>5. ASSUME NEW g \in Files, SweepLook(g) PROVE blob'[f] \in {"new", "old"} /\ ~Doomed(f)'
  BY <1>0, <1>1, <1>2, <1>5 DEF SweepLook, Doomed, At
<1>6. CASE SweepStart
  BY <1>0, <1>1, <1>2, <1>6 DEF SweepStart, Doomed, At
<1> QED BY <1>3, <1>4, <1>5, <1>6

LEMMA BlobStep == WorkInv /\ BlobInv /\ [Next]_vars => BlobInv'
<1> SUFFICES ASSUME WorkInv, BlobInv, [Next]_vars PROVE BlobInv'
  OBVIOUS
<1>1. CASE UNCHANGED vars
  BY <1>1, BlobsStay DEF vars, files, InUse
<1>2. ASSUME NEW w \in Workers,
             \/ \E u \in Senders, c \in Chains, S \in {{}} \cup {{f} : f \in Files} : Send(w, u, c, S)
             \/ \E u \in Senders, c \in Chains, i \in Ids : SendEdit(w, u, c, i)
             \/ \E u \in Users \ Senders, i \in Ids : MarkLastRead(w, u, i)
             \/ \E i \in Ids : DeleteFind(w, i)
      PROVE  BlobInv'
  <2>1. \A S \in {{}} \cup {{f} : f \in Files} : S \in SUBSET Files
    OBVIOUS
  <2> QED BY <1>2, <2>1, BeginningsKeepBlobs
<1>3. ASSUME NEW w \in Workers,
             \/ Insert(w) \/ Tell(w) \/ EditFind(w) \/ EditWrite(w) \/ EditReread(w)
             \/ DeleteOne(w) \/ Look(w) \/ Reap(w) \/ MarkRead(w) \/ Fails(w)
      PROVE  BlobInv'
  BY <1>3, InsertKeepsBlobs, GoingOnKeepsBlobs, LookKeepsBlobs, ReapKeepsBlobs
<1> QED BY <1>1, <1>2, <1>3, BucketKeepsBlobs DEF Next
----------------------------------------------------------------------------
(* Marks.                                                                  *)

(* A step that stores no message, ends no mark and sets none. *)
LEMMA ReadsStay ==
    ASSUME WorkInv, ReadInv, lastRead' = lastRead, half \subseteq half', late \subseteq late',
           \A v \in Workers : At(v, "mark") /\ work[v].user \notin half' => work'[v] = work[v],
           \A i \in DOMAIN messages' :
              i \in DOMAIN messages /\ messages'[i].sender = messages[i].sender /\ messages'[i].read = messages[i].read
    PROVE  ReadInv'
<1> SUFFICES ASSUME NEW u \in Users \ half', NEW i \in DOMAIN messages' \ late',
                    messages'[i].sender # u, ~messages'[i].read
             PROVE  \/ i > lastRead'[u]
                    \/ \E w \in Workers : At(w, "mark")' /\ work'[w].user = u /\ i <= work'[w].id
  BY DEF ReadInv
<1>1. u \in Users \ half /\ i \in DOMAIN messages \ late /\ messages[i].sender # u /\ ~messages[i].read
  BY Zenon
<1>2. i > lastRead[u] \/ \E w \in Workers : At(w, "mark") /\ work[w].user = u /\ i <= work[w].id
  BY <1>1 DEF ReadInv
<1> QED BY <1>1, <1>2 DEF At

(* So are all but four actions. *)
LEMMA MostKeepReads ==
    ASSUME WorkInv, ReadInv, NEW w \in Workers, ~At(w, "mark"), \A v \in Workers \ {w} : work'[v] = work[v],
           lastRead' = lastRead, half \subseteq half', late \subseteq late',
           \A i \in DOMAIN messages' :
              i \in DOMAIN messages /\ messages'[i].sender = messages[i].sender /\ messages'[i].read = messages[i].read
    PROVE  ReadInv'
<1>1. \A v \in Workers : At(v, "mark") => work'[v] = work[v]
  OBVIOUS
<1> QED BY <1>1, ReadsStay

LEMMA OthersStay ==
    ASSUME WorkInv, NEW w \in Workers, NEW r, Become(w, r)
    PROVE  \A v \in Workers \ {w} : work'[v] = work[v]
BY DEF Become, WorkInv, TypeOK

LEMMA BeginningsKeepReads ==
    ASSUME WorkInv, ReadInv, NEW w \in Workers,
           \/ \E u \in Senders, c \in Chains, S \in SUBSET Files : Send(w, u, c, S)
           \/ \E u \in Senders, c \in Chains, i \in Ids : SendEdit(w, u, c, i)
           \/ \E i \in Ids : DeleteFind(w, i)
    PROVE  ReadInv'
<1>1. ASSUME NEW u \in Senders, NEW c \in Chains, NEW S \in SUBSET Files,
           Send(w, u, c, S)
      PROVE  ~At(w, "mark") /\ UNCHANGED <<messages, lastRead, half, late>> /\ \E r : Become(w, r)
  BY <1>1 DEF Send, reads, At
<1>2. ASSUME NEW u \in Senders, NEW c \in Chains, NEW i \in Ids,
           SendEdit(w, u, c, i)
      PROVE  ~At(w, "mark") /\ UNCHANGED <<messages, lastRead, half, late>> /\ \E r : Become(w, r)
  BY <1>2 DEF SendEdit, reads, At
<1>3. ASSUME NEW i \in Ids, DeleteFind(w, i)
      PROVE  ~At(w, "mark") /\ UNCHANGED <<messages, lastRead, half, late>> /\ \E r : Become(w, r)
  BY <1>3 DEF DeleteFind, reads, At
<1>4. ~At(w, "mark") /\ UNCHANGED <<messages, lastRead, half, late>> /\ \E r : Become(w, r)
  BY <1>1, <1>2, <1>3
<1> QED BY <1>4, MostKeepReads, OthersStay

LEMMA GoingOnKeepsReads ==
    ASSUME WorkInv, ReadInv, NEW w \in Workers,
           \/ Tell(w) \/ EditFind(w) \/ EditReread(w) \/ Look(w) \/ Reap(w) \/ DeleteOne(w) \/ EditWrite(w)
    PROVE  ReadInv'
<1>0. \A i \in DOMAIN messages : messages[i] \in Message
  BY DEF WorkInv, TypeOK
<1>1. ~At(w, "mark") /\ UNCHANGED <<lastRead, half, late>>
  BY DEF Tell, EditFind, EditReread, Look, Reap, DeleteOne, EditWrite, At, reads
<1>2. \E r : Become(w, r)
  <2>1. CASE Tell(w)
    BY <2>1 DEF Tell
  <2>2. CASE EditFind(w)
    BY <2>2 DEF EditFind
  <2>3. CASE EditReread(w)
    BY <2>3 DEF EditReread
  <2>4. CASE Look(w)
    BY <2>4 DEF Look
  <2>5. CASE Reap(w)
    BY <2>5 DEF Reap
  <2>6. CASE DeleteOne(w)
    BY <2>6 DEF DeleteOne
  <2>7. CASE EditWrite(w)
    BY <2>7 DEF EditWrite
  <2> QED BY <2>1, <2>2, <2>3, <2>4, <2>5, <2>6, <2>7
<1>3. \A i \in DOMAIN messages' :
         i \in DOMAIN messages /\ messages'[i].sender = messages[i].sender /\ messages'[i].read = messages[i].read
  <2>1. CASE EditWrite(w)
    <3>1. messages' = [i \in DOMAIN messages |->
                        IF i = work[w].id THEN [messages[i] EXCEPT !.env = work[w].env, !.skid = work[w].skid]
                      ELSE messages[i]]
      BY <2>1 DEF EditWrite
    <3>2. \A m \in Message : [m EXCEPT !.env = work[w].env, !.skid = work[w].skid].sender = m.sender
                             /\ [m EXCEPT !.env = work[w].env, !.skid = work[w].skid].read = m.read
      BY DEF Message
    <3> QED BY <1>0, <3>1, <3>2
  <2>2. CASE DeleteOne(w)
    <3>1. messages' = [i \in DOMAIN messages \ {work[w].id} |-> messages[i]]
      BY <2>2 DEF DeleteOne
    <3> QED BY <3>1
  <2>3. CASE Tell(w) \/ EditFind(w) \/ EditReread(w) \/ Look(w) \/ Reap(w)
    <3>1. messages' = messages
      BY <2>3 DEF Tell, EditFind, EditReread, Look, Reap
    <3> QED BY <3>1
  <2> QED BY <2>1, <2>2, <2>3
<1> QED BY <1>1, <1>2, <1>3, MostKeepReads, OthersStay

(* A message is stored above all marks, or the history notes that it was late. *)
LEMMA InsertKeepsReads ==
    ASSUME WorkInv, ReadInv, NEW w \in Workers, Insert(w)
    PROVE  ReadInv'
<1>1. UNCHANGED <<lastRead, half>> /\ late \subseteq late' /\ work[w].pc = "insert"
      /\ ((\E u \in Users : lastRead[u] >= work[w].id) => work[w].id \in late')
  BY DEF Insert, At
<1>2. lastRead \in [Users -> 0..MaxMessages] /\ MaxMessages \in Nat /\ work[w].id \in Nat
  BY StoreAssumption, AtWork DEF WorkInv, TypeOK
<1>3. \A v \in Workers : At(v, "mark") => work'[v] = work[v]
  BY <1>1, OthersStay DEF Insert, At
<1>4. \A i \in DOMAIN messages' : i = work[w].id \/ (i \in DOMAIN messages /\ messages'[i] = messages[i])
  BY DEF Insert
<1> SUFFICES ASSUME NEW u \in Users \ half', NEW i \in DOMAIN messages' \ late',
                    messages'[i].sender # u, ~messages'[i].read
             PROVE  \/ i > lastRead'[u]
                    \/ \E v \in Workers : At(v, "mark")' /\ work'[v].user = u /\ i <= work'[v].id
  BY DEF ReadInv
<1>5. CASE i = work[w].id
  BY <1>1, <1>2, <1>5
<1>6. CASE i # work[w].id
  <2>1. i \in DOMAIN messages \ late /\ messages[i].sender # u /\ ~messages[i].read
    BY <1>1, <1>4, <1>6
  <2>2. i > lastRead[u] \/ \E v \in Workers : At(v, "mark") /\ work[v].user = u /\ i <= work[v].id
    BY <1>1, <2>1 DEF ReadInv
  <2> QED BY <1>1, <1>3, <2>2 DEF At
<1> QED BY <1>5, <1>6

(* While a mark is under way it covers what it will mark. *)
LEMMA MarkLastReadKeepsReads ==
    ASSUME WorkInv, ReadInv, NEW w \in Workers, NEW u \in Users, NEW j \in Ids, MarkLastRead(w, u, j)
    PROVE  ReadInv'
<1>1. UNCHANGED <<messages, half, late>> /\ lastRead' = [lastRead EXCEPT ![u] = j] /\ work[w].pc = "idle"
  BY DEF MarkLastRead, At
<1>2. PICK r \in Work : Become(w, r) /\ r.pc = "mark" /\ r.user = u /\ r.id = j /\ r.files = {}
  BY MarkBecomes DEF WorkInv
<1>3. work'[w] = r /\ \A v \in Workers \ {w} : work'[v] = work[v]
  BY <1>2, Becomes DEF WorkInv, TypeOK
<1>4. \A v \in Workers : At(v, "mark") => work'[v] = work[v]
  BY <1>1, <1>3 DEF At
<1>5. lastRead \in [Users -> 0..MaxMessages] /\ j \in Nat /\ DOMAIN messages \subseteq Nat
  BY StoreAssumption DEF WorkInv, TypeOK, Ids
<1> SUFFICES ASSUME NEW x \in Users \ half, NEW i \in DOMAIN messages \ late, messages[i].sender # x, ~messages[i].read
             PROVE  \/ i > lastRead'[x]
                    \/ \E v \in Workers : At(v, "mark")' /\ work'[v].user = x /\ i <= work'[v].id
  BY <1>1 DEF ReadInv
<1>6. CASE x = u
  <2>1. lastRead'[x] = j
    BY <1>1, <1>5, <1>6
  <2> QED BY <1>2, <1>3, <1>5, <1>6, <2>1 DEF At
<1>7. CASE x # u
  <2>1. lastRead'[x] = lastRead[x]
    BY <1>1, <1>5, <1>7
  <2>2. i > lastRead[x] \/ \E v \in Workers : At(v, "mark") /\ work[v].user = x /\ i <= work[v].id
    BY DEF ReadInv
  <2> QED BY <1>4, <2>1, <2>2 DEF At
<1> QED BY <1>6, <1>7

(* When it is done, what it covered is read. *)
LEMMA MarkReadKeepsReads ==
    ASSUME WorkInv, ReadInv, NEW w \in Workers, MarkRead(w)
    PROVE  ReadInv'
<1>0. /\ work[w].id \in Nat /\ DOMAIN messages \subseteq Nat
      /\ \A i \in DOMAIN messages : messages[i] \in Message
  BY StoreAssumption, AtWork DEF WorkInv, TypeOK
<1>1. UNCHANGED <<lastRead, half, late>> /\ \A v \in Workers \ {w} : work'[v] = work[v]
  BY OthersStay DEF MarkRead, reads
<1>2. messages' = [i \in DOMAIN messages |->
                      IF i <= work[w].id /\ messages[i].sender # work[w].user
                      THEN [messages[i] EXCEPT !.read = TRUE] ELSE messages[i]]
  BY DEF MarkRead
<1>3. \A m \in Message : [m EXCEPT !.read = TRUE].sender = m.sender /\ [m EXCEPT !.read = TRUE].read = TRUE
  BY DEF Message
<1> SUFFICES ASSUME NEW u \in Users \ half, NEW i \in DOMAIN messages' \ late, messages'[i].sender # u, ~messages'[i].read
             PROVE  \/ i > lastRead[u]
                    \/ \E v \in Workers : At(v, "mark")' /\ work'[v].user = u /\ i <= work'[v].id
  BY <1>1 DEF ReadInv
<1>4. i \in DOMAIN messages /\ messages[i] \in Message
  BY <1>0, <1>2
<1>5. ~(i <= work[w].id /\ messages[i].sender # work[w].user)
  BY <1>2, <1>3, <1>4
<1>6. messages'[i] = messages[i]
  BY <1>2, <1>4, <1>5
<1>7. i > lastRead[u] \/ \E v \in Workers : At(v, "mark") /\ work[v].user = u /\ i <= work[v].id
  BY <1>4, <1>6 DEF ReadInv
<1> QED BY <1>1, <1>5, <1>6, <1>7 DEF At

(* A mark that is broken off is noted. *)
LEMMA FailsKeepsReads ==
    ASSUME WorkInv, ReadInv, NEW w \in Workers, Fails(w)
    PROVE  ReadInv'
<1>1. UNCHANGED <<lastRead, messages, late>> /\ half \subseteq half' /\ (At(w, "mark") => work[w].user \in half')
  BY DEF Fails
<1>2. \A v \in Workers : At(v, "mark") /\ work[v].user \notin half' => work'[v] = work[v]
  BY <1>1, OthersStay DEF Fails
<1> QED BY <1>1, <1>2, ReadsStay

LEMMA ReadStep == WorkInv /\ ReadInv /\ [Next]_vars => ReadInv'
<1> SUFFICES ASSUME WorkInv, ReadInv, [Next]_vars PROVE ReadInv'
  OBVIOUS
<1>1. CASE UNCHANGED vars
  BY <1>1, ReadsStay DEF vars, reads
<1>2. ASSUME NEW w \in Workers,
             \/ \E u \in Senders, c \in Chains, S \in {{}} \cup {{f} : f \in Files} : Send(w, u, c, S)
             \/ \E u \in Senders, c \in Chains, i \in Ids : SendEdit(w, u, c, i)
             \/ \E u \in Users \ Senders, i \in Ids : MarkLastRead(w, u, i)
             \/ \E i \in Ids : DeleteFind(w, i)
      PROVE  ReadInv'
  <2>1. \A S \in {{}} \cup {{f} : f \in Files} : S \in SUBSET Files
    OBVIOUS
  <2> QED BY <1>2, <2>1, BeginningsKeepReads, MarkLastReadKeepsReads
<1>3. ASSUME NEW w \in Workers,
             \/ Insert(w) \/ Tell(w) \/ EditFind(w) \/ EditWrite(w) \/ EditReread(w)
             \/ DeleteOne(w) \/ Look(w) \/ Reap(w) \/ MarkRead(w) \/ Fails(w)
      PROVE  ReadInv'
  BY <1>3, InsertKeepsReads, GoingOnKeepsReads, MarkReadKeepsReads, FailsKeepsReads
<1>4. CASE SweepStart \/ \E f \in Files : Upload(f) \/ GetsOld(f) \/ SweepLook(f)
  <2>1. UNCHANGED <<messages, work, lastRead, half, late>>
    BY <1>4 DEF SweepStart, Upload, GetsOld, SweepLook, reads
  <2> QED BY <2>1, ReadsStay
<1> QED BY <1>1, <1>2, <1>3, <1>4 DEF Next
----------------------------------------------------------------------------
(* What has been told.                                                     *)

(* A step that leaves message i alone. *)
LEMMA Elsewhere ==
    ASSUME NEW i, ToldAt(i), NEW w \in Workers, ~Busy(w, i), ~Busy(w, i)',
           \A v \in Workers \ {w} : work'[v] = work[v],
           told'[i] = told[i], Exists(i)' <=> Exists(i), Exists(i) => messages'[i].env = messages[i].env
    PROVE  ToldAt(i)'
<1>1. \A v \in Workers : Busy(v, i)' => Busy(v, i) /\ work'[v] = work[v] /\ work[v].id = i
  BY DEF Busy
<1>2. \A v \in Workers : Busy(v, i) => Busy(v, i)'
  BY DEF Busy
<1>3. Actual(i)' = Actual(i)
  BY DEF Actual, Deleted
<1>4. ASSUME NEW v \in Workers, Busy(v, i)' PROVE Sees(work[v])'
  <2>1. Sees(work[v]) /\ work'[v] = work[v] /\ work[v].id = i
    BY <1>1, <1>4 DEF ToldAt
  <2> QED BY <1>3, <2>1 DEF Sees, Deleted
<1> QED BY <1>1, <1>2, <1>3, <1>4 DEF ToldAt

(* A step of the only request at message i. *)
LEMMA Alone ==
    ASSUME NEW i, NEW w \in Workers, NEW r, work'[w] = r,
           \A v \in Workers \ {w} : work'[v] = work[v] /\ ~Busy(v, i),
           r.id = i /\ r.pc \notin {"idle", "edit", "mark"} => Sees(r)',
           (r.id = i /\ r.pc \notin {"idle", "edit", "mark"}) \/ told'[i] = Actual(i)'
    PROVE  ToldAt(i)'
<1>1. \A v \in Workers : Busy(v, i)' => v = w
  BY DEF Busy
<1>2. Busy(w, i)' <=> r.id = i /\ r.pc \notin {"idle", "edit", "mark"}
  BY DEF Busy
<1> QED BY <1>1, <1>2 DEF ToldAt

(* A request is busy at no message but j, before the step and after. *)
LEMMA AtOne ==
    ASSUME WorkInv, ToldInv, NEW w \in Workers, NEW r \in Work, NEW j, Become(w, r), contested \subseteq contested',
           \A i \in 1..minted' : i \in 1..minted \/ i = j,
           work[w].pc \in {"idle", "edit", "mark"} \/ work[w].id = j,
           r.pc \in {"idle", "edit", "mark"} \/ r.id = j,
           \A i \in (1..minted) \ {j} :
              told'[i] = told[i] /\ (Exists(i)' <=> Exists(i)) /\ (Exists(i) => messages'[i].env = messages[i].env),
           j \in (1..minted') \ contested' => ToldAt(j)'
    PROVE  ToldInv'
<1>1. work'[w] = r /\ \A v \in Workers \ {w} : work'[v] = work[v]
  BY Becomes DEF WorkInv, TypeOK
<1>2. ASSUME NEW i \in (1..minted') \ contested', i # j PROVE ToldAt(i)'
  <2>1. i \in (1..minted) \ contested
    BY <1>2
  <2>2. ToldAt(i) /\ ~Busy(w, i) /\ ~Busy(w, i)'
    BY <1>1, <1>2, <2>1 DEF ToldInv, Busy
  <2>3. told'[i] = told[i] /\ (Exists(i)' <=> Exists(i)) /\ (Exists(i) => messages'[i].env = messages[i].env)
    BY <1>2, <2>1
  <2> QED BY <1>1, <2>2, <2>3, Elsewhere
<1> QED BY <1>2 DEF ToldInv

(* What the request at a message that is not contested knows. *)
LEMMA AtAMessage ==
    ASSUME WorkInv, ToldInv, NEW w \in Workers, work[w].pc \notin {"idle", "edit", "mark"}, work[w].id \notin contested
    PROVE  Sees(work[w]) /\ \A v \in Workers \ {w} : ~Busy(v, work[w].id)
<1>1. ToldAt(work[w].id) /\ Busy(w, work[w].id)
  BY AtWork DEF ToldInv, Busy
<1> QED BY <1>1 DEF ToldAt

(* The other requests of a handler that takes up a message. *)
LEMMA Others ==
    ASSUME WorkInv, NEW w \in Workers, NEW i, TakeUp(w, i), i \notin contested'
    PROVE  \A v \in Workers \ {w} : ~Busy(v, i)
BY DEF TakeUp, Busy

(* A request begins. *)
LEMMA SendTells ==
    ASSUME WorkInv, ToldInv, NEW w \in Workers, NEW u \in Senders, NEW c \in Chains, NEW S \in SUBSET Files,
           Send(w, u, c, S)
    PROVE  ToldInv'
<1>1. PICK r \in Work : Become(w, r) /\ r.pc = "insert" /\ r.id = minted + 1
  BY SendBecomes DEF WorkInv
<1>2. UNCHANGED <<messages, told, contested>> /\ minted' = minted + 1 /\ work[w].pc = "idle" /\ minted \in Nat
  BY StoreAssumption DEF Send, At, WorkInv, TypeOK
<1>3. work'[w] = r /\ \A v \in Workers \ {w} : work'[v] = work[v]
  BY <1>1, Becomes DEF WorkInv, TypeOK
<1>4. \A v \in Workers : ~Busy(v, minted + 1)
  BY <1>2, AtWork DEF Placed, Busy
<1>5. PICK j : j = minted + 1
  OBVIOUS
<1>6. ~Exists(j)'
  BY <1>2, <1>5 DEF WorkInv, TypeOK, Exists
<1>7. Sees(r)'
  BY <1>1, <1>5, <1>6 DEF Sees
<1>8. ToldAt(j)'
  BY <1>1, <1>3, <1>4, <1>5, <1>7, Alone
<1> QED BY <1>1, <1>2, <1>5, <1>8, AtOne DEF Exists

(* A request that is at no message, before and after. *)
LEMMA NoneTells ==
    ASSUME WorkInv, ToldInv, NEW w \in Workers, NEW r \in Work, Become(w, r), contested \subseteq contested',
           minted' = minted, told' = told,
           work[w].pc \in {"idle", "edit", "mark"}, r.pc \in {"idle", "edit", "mark"},
           \A i \in 1..minted : (Exists(i)' <=> Exists(i)) /\ (Exists(i) => messages'[i].env = messages[i].env)
    PROVE  ToldInv'
<1>1. 0 \notin 1..minted'
  BY StoreAssumption DEF WorkInv, TypeOK
<1> QED BY <1>1, AtOne

LEMMA SendEditTells ==
    ASSUME WorkInv, ToldInv, NEW w \in Workers, NEW u \in Senders, NEW c \in Chains, NEW i \in Ids,
           SendEdit(w, u, c, i)
    PROVE  ToldInv'
<1>1. PICK r \in Work : Become(w, r) /\ r.pc = "edit"
  BY SendEditBecomes DEF WorkInv
<1>2. UNCHANGED <<messages, told, contested, minted>> /\ work[w].pc = "idle"
  BY DEF SendEdit, At
<1> QED BY <1>1, <1>2, NoneTells DEF Exists

LEMMA MarkLastReadTells ==
    ASSUME WorkInv, ToldInv, NEW w \in Workers, NEW u \in Users, NEW i \in Ids, MarkLastRead(w, u, i)
    PROVE  ToldInv'
<1>1. PICK r \in Work : Become(w, r) /\ r.pc = "mark"
  BY MarkBecomes DEF WorkInv
<1>2. UNCHANGED <<messages, told, contested, minted>> /\ work[w].pc = "idle"
  BY DEF MarkLastRead, At
<1> QED BY <1>1, <1>2, NoneTells DEF Exists

LEMMA DeleteFindTells ==
    ASSUME WorkInv, ToldInv, NEW w \in Workers, NEW i \in Ids, DeleteFind(w, i)
    PROVE  ToldInv'
<1>1. PICK r \in Work : Become(w, r) /\ r.pc = "remove" /\ r.id = i /\ r.env = Deleted
  BY DeleteFindBecomes DEF WorkInv
<1>2. UNCHANGED <<messages, told, minted>> /\ work[w].pc = "idle" /\ contested \subseteq contested' /\ TakeUp(w, i)
  BY DEF DeleteFind, At, TakeUp
<1>3. work'[w] = r /\ \A v \in Workers \ {w} : work'[v] = work[v]
  BY <1>1, Becomes DEF WorkInv, TypeOK
<1>4. Sees(r)'
  BY <1>1 DEF Sees, Deleted
<1>5. i \notin contested' => ToldAt(i)'
  BY <1>1, <1>2, <1>3, <1>4, Others, Alone
<1> QED BY <1>1, <1>2, <1>5, AtOne DEF Exists

(* A request goes on. *)
LEMMA InsertTells ==
    ASSUME WorkInv, ToldInv, NEW w \in Workers, Insert(w)
    PROVE  ToldInv'
<1>0. work[w] \in Work /\ work[w].pc = "insert"
  BY AtWork DEF Insert, At
<1>1. PICK j : j = work[w].id
  OBVIOUS
<1>2. PICK r : r = [work[w] EXCEPT !.pc = "tell", !.skid = 0, !.files = {}]
  OBVIOUS
<1>3. r \in Work /\ r.pc = "tell" /\ r.id = j /\ r.env = work[w].env
  BY <1>0, <1>1, <1>2, ChainDropped DEF Work
<1>4. Become(w, r) /\ UNCHANGED <<minted, told, contested>>
  BY <1>2 DEF Insert
<1>5. work'[w] = r /\ \A v \in Workers \ {w} : work'[v] = work[v]
  BY <1>3, <1>4, Becomes DEF WorkInv, TypeOK
<1>6. messages' = [i \in DOMAIN messages \cup {j} |->
                     IF i = j THEN [sender |-> work[w].user, env |-> work[w].env, skid |-> work[w].skid,
                                    files |-> work[w].files, read |-> FALSE]
                     ELSE messages[i]]
  BY <1>1 DEF Insert
<1>7. Exists(j)' /\ messages'[j].env = r.env
  BY <1>3, <1>6 DEF Exists
<1>8. Sees(r)'
  BY <1>3, <1>7 DEF Sees, Actual
<1>9. j \notin contested' => ToldAt(j)'
  BY <1>0, <1>1, <1>3, <1>4, <1>5, <1>8, AtAMessage, Alone
<1>10. \A i \in (1..minted) \ {j} : (Exists(i)' <=> Exists(i)) /\ (Exists(i) => messages'[i].env = messages[i].env)
  BY <1>6 DEF Exists
<1> QED BY <1>1, <1>3, <1>4, <1>9, <1>10, AtOne

LEMMA EditFindTells ==
    ASSUME WorkInv, ToldInv, NEW w \in Workers, EditFind(w)
    PROVE  ToldInv'
<1>0. work[w] \in Work /\ work[w].pc = "edit" /\ UNCHANGED <<minted, told, messages>> /\ contested \subseteq contested'
  BY AtWork DEF EditFind, At, TakeUp
<1>1. CASE MayEdit(work[w])
  <2>1. PICK j : j = work[w].id
    OBVIOUS
  <2>2. PICK r : r = [work[w] EXCEPT !.pc = "write"]
    OBVIOUS
  <2>3. r \in Work /\ r.pc = "write" /\ r.id = j /\ r.env = work[w].env
    BY <1>0, <2>1, <2>2 DEF Work
  <2>4. Become(w, r) /\ TakeUp(w, j)
    BY <1>1, <2>1, <2>2 DEF EditFind
  <2>5. work'[w] = r /\ \A v \in Workers \ {w} : work'[v] = work[v]
    BY <2>3, <2>4, Becomes DEF WorkInv, TypeOK
  <2>6. Sees(r)'
    BY <1>0, <1>1, <2>1, <2>3 DEF Sees, MayEdit, Exists
  <2>7. j \notin contested' => ToldAt(j)'
    BY <2>3, <2>4, <2>5, <2>6, Others, Alone
  <2> QED BY <1>0, <2>1, <2>3, <2>4, <2>7, AtOne DEF Exists
<1>2. CASE ~MayEdit(work[w])
  <2>1. Become(w, Idle)
    BY <1>2 DEF EditFind
  <2> QED BY <1>0, <2>1, IdleIsWork, NoneTells DEF Exists
<1> QED BY <1>1, <1>2

LEMMA EditWriteTells ==
    ASSUME WorkInv, ToldInv, NEW w \in Workers, EditWrite(w)
    PROVE  ToldInv'
<1>0. work[w] \in Work /\ work[w].pc = "write"
  BY AtWork DEF EditWrite, At
<1>1. PICK j : j = work[w].id
  OBVIOUS
<1>2. PICK r : r = [work[w] EXCEPT !.pc = "reread", !.skid = 0]
  OBVIOUS
<1>3. r \in Work /\ r.pc = "reread" /\ r.id = j
  BY <1>0, <1>1, <1>2, ChainDropped DEF Work
<1>4. Become(w, r) /\ UNCHANGED <<minted, told, contested>>
  BY <1>2 DEF EditWrite
<1>5. work'[w] = r /\ \A v \in Workers \ {w} : work'[v] = work[v]
  BY <1>3, <1>4, Becomes DEF WorkInv, TypeOK
<1>6. messages' = [i \in DOMAIN messages |->
                     IF i = j THEN [messages[i] EXCEPT !.env = work[w].env, !.skid = work[w].skid]
                     ELSE messages[i]]
  BY <1>1 DEF EditWrite
<1>7. Exists(j) => Sees(r)'
  BY <1>3, <1>6 DEF Sees, Exists
<1>8. j \notin contested' => ToldAt(j)'
  <2>1. ASSUME j \notin contested
        PROVE  Exists(j) /\ \A v \in Workers \ {w} : ~Busy(v, j)
    BY <1>0, <1>1, <2>1, AtAMessage DEF Sees
  <2> QED BY <1>3, <1>4, <1>5, <1>7, <2>1, Alone
<1>9. \A i \in (1..minted) \ {j} : (Exists(i)' <=> Exists(i)) /\ (Exists(i) => messages'[i].env = messages[i].env)
  BY <1>6 DEF Exists
<1> QED BY <1>1, <1>3, <1>4, <1>8, <1>9, AtOne

LEMMA EditRereadTells ==
    ASSUME WorkInv, ToldInv, NEW w \in Workers, EditReread(w)
    PROVE  ToldInv'
<1>0. work[w] \in Work /\ work[w].pc = "reread" /\ UNCHANGED <<minted, told, messages, contested>>
  BY AtWork DEF EditReread, At
<1>1. PICK j : j = work[w].id
  OBVIOUS
<1>2. CASE Exists(j)
  <2>1. messages[j].env \in 0..(MaxSeals + 1)
    BY <1>2, StoreAssumption DEF Exists, WorkInv, TypeOK, Message, Envelope
  <2>2. PICK r : r = [work[w] EXCEPT !.pc = "tell", !.env = messages[j].env]
    OBVIOUS
  <2>3. r \in Work /\ r.pc = "tell" /\ r.id = j /\ r.env = messages[j].env
    BY <1>0, <1>1, <2>1, <2>2 DEF Work
  <2>4. Become(w, r)
    BY <1>1, <1>2, <2>2 DEF EditReread
  <2>5. work'[w] = r /\ \A v \in Workers \ {w} : work'[v] = work[v]
    BY <2>3, <2>4, Becomes DEF WorkInv, TypeOK
  <2>6. Sees(r)'
    BY <1>0, <1>2, <2>3 DEF Sees, Actual, Exists
  <2>7. j \notin contested' => ToldAt(j)'
    BY <1>0, <1>1, <2>3, <2>5, <2>6, AtAMessage, Alone
  <2> QED BY <1>0, <1>1, <2>3, <2>4, <2>7, AtOne DEF Exists
<1>3. CASE ~Exists(j)
  <2>1. Become(w, Idle)
    BY <1>1, <1>3 DEF EditReread
  <2>2. j \in contested
    BY <1>0, <1>1, <1>3, AtAMessage DEF Sees
  <2> QED BY <1>0, <1>1, <2>1, <2>2, IdleIsWork, AtOne DEF Exists
<1> QED BY <1>2, <1>3

LEMMA DeleteOneTells ==
    ASSUME WorkInv, ToldInv, NEW w \in Workers, DeleteOne(w)
    PROVE  ToldInv'
<1>0. work[w] \in Work /\ work[w].pc = "remove" /\ UNCHANGED <<minted, told, contested>>
  BY AtWork DEF DeleteOne, At
<1>1. PICK j : j = work[w].id
  OBVIOUS
<1>2. PICK pc \in {"tell", "look"} : Become(w, [work[w] EXCEPT !.pc = pc])
  BY DEF DeleteOne
<1>3. PICK r : r = [work[w] EXCEPT !.pc = pc]
  OBVIOUS
<1>4. r \in Work /\ r.pc = pc /\ r.id = j /\ r.env = work[w].env
  BY <1>0, <1>1, <1>3 DEF Work
<1>5. work'[w] = r /\ \A v \in Workers \ {w} : work'[v] = work[v]
  BY <1>2, <1>3, <1>4, Becomes DEF WorkInv, TypeOK
<1>6. messages' = [i \in DOMAIN messages \ {j} |-> messages[i]]
  BY <1>1 DEF DeleteOne
<1>7. work[w].env = Deleted => Sees(r)'
  BY <1>2, <1>4, <1>6 DEF Sees, Exists, Actual, Deleted
<1>8. j \notin contested' => ToldAt(j)'
  <2>1. ASSUME j \notin contested
        PROVE  work[w].env = Deleted /\ \A v \in Workers \ {w} : ~Busy(v, j)
    BY <1>0, <1>1, <2>1, AtAMessage DEF Sees
  <2> QED BY <1>0, <1>2, <1>4, <1>5, <1>7, <2>1, Alone
<1>9. \A i \in (1..minted) \ {j} : (Exists(i)' <=> Exists(i)) /\ (Exists(i) => messages'[i].env = messages[i].env)
  BY <1>6 DEF Exists
<1> QED BY <1>0, <1>1, <1>2, <1>3, <1>4, <1>8, <1>9, AtOne

(* A deleted message goes on being deleted. *)
LEMMA DeletingTells ==
    ASSUME WorkInv, ToldInv, NEW w \in Workers, work[w].pc \in {"look", "reap"},
           UNCHANGED <<minted, told, messages, contested>>, NEW r \in Work, Become(w, r),
           r.id = work[w].id, r.env = work[w].env, r.pc \in {"reap", "tell"}
    PROVE  ToldInv'
<1>1. PICK j : j = work[w].id
  OBVIOUS
<1>2. work'[w] = r /\ \A v \in Workers \ {w} : work'[v] = work[v]
  BY Becomes DEF WorkInv, TypeOK
<1>3. ASSUME j \notin contested PROVE Sees(r)' /\ \A v \in Workers \ {w} : ~Busy(v, j)
  <2>1. Sees(work[w]) /\ \A v \in Workers \ {w} : ~Busy(v, j)
    BY <1>1, <1>3, AtAMessage
  <2> QED BY <1>1, <2>1 DEF Sees, Exists, Actual, Deleted
<1>4. j \notin contested' => ToldAt(j)'
  BY <1>1, <1>2, <1>3, Alone
<1> QED BY <1>1, <1>4, AtOne DEF Exists

LEMMA LookTells ==
    ASSUME WorkInv, ToldInv, NEW w \in Workers, Look(w)
    PROVE  ToldInv'
<1>1. work[w] \in Work /\ work[w].pc = "look" /\ UNCHANGED <<minted, told, messages, contested>>
  BY AtWork DEF Look, At
<1>2. PICK r : Become(w, r) /\ r \in {[work[w] EXCEPT !.pc = "tell", !.files = {}], [work[w] EXCEPT !.pc = "reap"]}
  BY DEF Look
<1>3. r \in Work /\ r.pc \in {"tell", "reap"} /\ r.id = work[w].id /\ r.env = work[w].env
  BY <1>1, <1>2 DEF Work
<1> QED BY <1>1, <1>2, <1>3, DeletingTells

LEMMA ReapTells ==
    ASSUME WorkInv, ToldInv, NEW w \in Workers, Reap(w)
    PROVE  ToldInv'
<1>1. work[w] \in Work /\ work[w].pc = "reap" /\ UNCHANGED <<minted, told, messages, contested>>
  BY AtWork DEF Reap, At
<1>2. PICK r : r = [work[w] EXCEPT !.pc = "tell", !.files = {}]
  OBVIOUS
<1>3. r \in Work /\ r.pc = "tell" /\ r.id = work[w].id /\ r.env = work[w].env
  BY <1>1, <1>2 DEF Work
<1>4. Become(w, r)
  BY <1>2 DEF Reap
<1> QED BY <1>1, <1>3, <1>4, DeletingTells

(* A request ends: the participants have been told, or the history notes that they have not. *)
LEMMA TellTells ==
    ASSUME WorkInv, ToldInv, NEW w \in Workers, Tell(w)
    PROVE  ToldInv'
<1>0. work[w] \in Work /\ work[w].pc = "tell" /\ UNCHANGED <<minted, messages, contested>> /\ Become(w, Idle)
  BY AtWork DEF Tell, At
<1>1. PICK j : j = work[w].id
  OBVIOUS
<1>2. told' = [told EXCEPT ![j] = work[w].env] /\ j \in Ids /\ told \in [Ids -> 0..(MaxSeals + 1)]
  BY <1>0, <1>1, AtWork DEF Tell, WorkInv, TypeOK
<1>3. work'[w] = Idle /\ \A v \in Workers \ {w} : work'[v] = work[v]
  BY <1>0, IdleIsWork, Becomes DEF WorkInv, TypeOK
<1>4. ASSUME j \notin contested PROVE ToldAt(j)'
  <2>1. Sees(work[w]) /\ \A v \in Workers \ {w} : ~Busy(v, j)
    BY <1>0, <1>1, <1>4, AtAMessage
  <2>2. told'[j] = Actual(j)'
    BY <1>0, <1>1, <1>2, <2>1 DEF Sees, Actual, Exists, Deleted
  <2> QED BY <1>3, <2>1, <2>2, IdleIsWork, Alone DEF Idle
<1>5. \A i \in (1..minted) \ {j} : told'[i] = told[i]
  BY <1>2, StoreAssumption DEF WorkInv, TypeOK, Ids
<1> QED BY <1>0, <1>1, <1>4, <1>5, IdleIsWork, AtOne DEF Exists

LEMMA MarkReadTells ==
    ASSUME WorkInv, ToldInv, NEW w \in Workers, MarkRead(w)
    PROVE  ToldInv'
<1>1. work[w].pc = "mark" /\ UNCHANGED <<minted, told, contested>> /\ Become(w, Idle)
  BY DEF MarkRead, At
<1>2. messages' = [i \in DOMAIN messages |->
                      IF i <= work[w].id /\ messages[i].sender # work[w].user
                      THEN [messages[i] EXCEPT !.read = TRUE] ELSE messages[i]]
  BY DEF MarkRead
<1>3. \A m \in Message : [m EXCEPT !.read = TRUE].env = m.env
  BY DEF Message
<1>4. \A i \in DOMAIN messages : messages'[i].env = messages[i].env
  BY <1>2, <1>3 DEF WorkInv, TypeOK
<1> QED BY <1>1, <1>2, <1>4, IdleIsWork, NoneTells DEF Exists

LEMMA FailsTells ==
    ASSUME WorkInv, ToldInv, NEW w \in Workers, Fails(w)
    PROVE  ToldInv'
<1>1. UNCHANGED <<minted, told, messages>> /\ Become(w, Idle) /\ contested \subseteq contested'
  BY DEF Fails
<1>2. work[w].pc = "mark" \/ work[w].id \in contested'
  BY DEF Fails, At
<1>3. CASE work[w].pc = "mark"
  BY <1>1, <1>3, IdleIsWork, NoneTells DEF Exists
<1>4. CASE work[w].id \in contested'
  <2>1. PICK j : j = work[w].id
    OBVIOUS
  <2> QED BY <1>1, <1>4, <2>1, IdleIsWork, AtOne DEF Exists
<1> QED BY <1>2, <1>3, <1>4

(* Nothing moves but the bucket. *)
LEMMA NothingTold ==
    ASSUME ToldInv, UNCHANGED <<minted, told, messages, contested, work>>
    PROVE  ToldInv'
BY DEF ToldInv, ToldAt, Busy, Sees, Actual, Exists, Deleted

LEMMA ToldStep == WorkInv /\ ToldInv /\ [Next]_vars => ToldInv'
<1> SUFFICES ASSUME WorkInv, ToldInv, [Next]_vars PROVE ToldInv'
  OBVIOUS
<1>1. CASE UNCHANGED vars
  BY <1>1, NothingTold DEF vars
<1>2. ASSUME NEW w \in Workers,
             \/ \E u \in Senders, c \in Chains, S \in {{}} \cup {{f} : f \in Files} : Send(w, u, c, S)
             \/ \E u \in Senders, c \in Chains, i \in Ids : SendEdit(w, u, c, i)
             \/ \E u \in Users \ Senders, i \in Ids : MarkLastRead(w, u, i)
             \/ \E i \in Ids : DeleteFind(w, i)
      PROVE  ToldInv'
  <2>1. \A S \in {{}} \cup {{f} : f \in Files} : S \in SUBSET Files
    OBVIOUS
  <2> QED BY <1>2, <2>1, SendTells, SendEditTells, MarkLastReadTells, DeleteFindTells
<1>3. ASSUME NEW w \in Workers,
             \/ Insert(w) \/ Tell(w) \/ EditFind(w) \/ EditWrite(w) \/ EditReread(w)
             \/ DeleteOne(w) \/ Look(w) \/ Reap(w) \/ MarkRead(w) \/ Fails(w)
      PROVE  ToldInv'
  BY <1>3, InsertTells, TellTells, EditFindTells, EditWriteTells, EditRereadTells,
     DeleteOneTells, LookTells, ReapTells, MarkReadTells, FailsTells
<1>4. CASE SweepStart \/ \E f \in Files : Upload(f) \/ GetsOld(f) \/ SweepLook(f)
  <2>1. UNCHANGED <<minted, told, messages, contested, work>>
    BY <1>4 DEF SweepStart, Upload, GetsOld, SweepLook
  <2> QED BY <2>1, NothingTold
<1> QED BY <1>1, <1>2, <1>3, <1>4 DEF Next
----------------------------------------------------------------------------
(* What has been sealed.                                                   *)

(* A step that leaves message i alone. *)
LEMMA SealElsewhere ==
    ASSUME NEW i, SealedAt(i), NEW w \in Workers, ~Carries(w, i), ~Carries(w, i)',
           \A v \in Workers \ {w} : work'[v] = work[v],
           sealed'[i] = sealed[i], Exists(i)' <=> Exists(i),
           Exists(i) => messages'[i].env = messages[i].env /\ messages'[i].skid = messages[i].skid
    PROVE  SealedAt(i)'
<1>1. \A v \in Workers : /\ Carries(v, i)' => Carries(v, i) /\ work'[v] = work[v] /\ work[v].id = i
                         /\ Carries(v, i) => Carries(v, i)' /\ work'[v] = work[v]
  BY DEF Carries
<1>2. ASSUME NEW v \in Workers, Carries(v, i)' PROVE SealOf(work[v])' \in sealed'[i]
  BY <1>1, <1>2 DEF SealedAt, SealOf
<1>3. ASSUME NEW v \in Workers, Carries(v, i)', work'[v].pc = "insert"
      PROVE  \A e \in sealed'[i] : e.env <= work'[v].env
  BY <1>1, <1>3 DEF SealedAt
<1>4. ASSUME NEW v \in Workers, Carries(v, i)', work'[v].pc = "write" PROVE MayEdit(work[v])'
  <2>1. MayEdit(work[v]) /\ work'[v] = work[v] /\ work[v].id = i
    BY <1>1, <1>4 DEF SealedAt
  <2> QED BY <2>1 DEF MayEdit
<1>5. ASSUME Exists(i)' PROVE SealOf(messages[i])' \in sealed'[i]
  BY <1>5 DEF SealedAt, SealOf
<1>6. ASSUME Exists(i)', \A e \in sealed'[i] : e.skid = messages'[i].skid PROVE NewestAt(i)'
  <2>1. NewestAt(i)
    BY <1>6 DEF SealedAt
  <2> QED BY <1>1, <1>6, <2>1 DEF NewestAt
<1> QED BY <1>2, <1>3, <1>4, <1>5, <1>6 DEF SealedAt

(* A request carries an envelope for no message but j, before the step and after. *)
LEMMA SealAtOne ==
    ASSUME WorkInv, SealInv, NEW w \in Workers, NEW r \in Work, NEW j, Become(w, r), contested \subseteq contested',
           minted' = minted, j \notin Ids \/ j <= minted,
           work[w].pc \notin {"insert", "edit", "write"} \/ work[w].id = j,
           r.pc \notin {"insert", "edit", "write"} \/ r.id = j,
           \A i \in Ids \ {j} : sealed'[i] = sealed[i],
           \A i \in (1..minted) \ {j} :
              /\ Exists(i)' <=> Exists(i)
              /\ Exists(i) => messages'[i].env = messages[i].env /\ messages'[i].skid = messages[i].skid,
           j \in (1..minted) \ contested' => SealedAt(j)'
    PROVE  SealInv'
<1>1. work'[w] = r /\ \A v \in Workers \ {w} : work'[v] = work[v]
  BY Becomes DEF WorkInv, TypeOK
<1>2. ASSUME NEW i \in (1..minted) \ contested', i # j PROVE SealedAt(i)'
  <2>1. i \in (1..minted) \ contested /\ i \in Ids
    BY <1>2, StoreAssumption DEF WorkInv, TypeOK, Ids
  <2>2. SealedAt(i) /\ ~Carries(w, i) /\ ~Carries(w, i)'
    BY <1>1, <1>2, <2>1 DEF SealInv, Carries
  <2>3. /\ sealed'[i] = sealed[i] /\ (Exists(i)' <=> Exists(i))
        /\ Exists(i) => messages'[i].env = messages[i].env /\ messages'[i].skid = messages[i].skid
    BY <1>2, <2>1
  <2> QED BY <1>1, <2>2, <2>3, SealElsewhere
<1>3. \A i \in Ids : i > minted' => sealed'[i] = {}
  BY StoreAssumption DEF SealInv, WorkInv, TypeOK, Ids
<1> QED BY <1>2, <1>3 DEF SealInv

(* A request that carries nothing, before and after. *)
LEMMA NoneSeals ==
    ASSUME WorkInv, SealInv, NEW w \in Workers, NEW r \in Work, Become(w, r), contested \subseteq contested',
           minted' = minted, sealed' = sealed,
           work[w].pc \notin {"insert", "edit", "write"}, r.pc \notin {"insert", "edit", "write"},
           \A i \in 1..minted :
              /\ Exists(i)' <=> Exists(i)
              /\ Exists(i) => messages'[i].env = messages[i].env /\ messages'[i].skid = messages[i].skid
    PROVE  SealInv'
<1>1. 0 \notin 1..minted /\ 0 \notin Ids
  BY StoreAssumption DEF WorkInv, TypeOK, Ids
<1> QED BY <1>1, SealAtOne

(* Who carries an envelope for a message that is not contested, and what it knows. *)
LEMMA CarriesIt ==
    ASSUME WorkInv, SealInv, NEW w \in Workers, work[w].pc \in {"insert", "edit", "write"},
           work[w].id \notin contested
    PROVE  SealedAt(work[w].id) /\ Carries(w, work[w].id)
<1>1. work[w].id \in 1..minted
  BY AtWork
<1> QED BY <1>1 DEF SealInv, Carries

(* Only requests that are busy at a message insert or write it. *)
LEMMA WritersAreBusy ==
    ASSUME NEW i, NEW v \in Workers, ~Busy(v, i), Carries(v, i)
    PROVE  work[v].pc = "edit"
BY DEF Busy, Carries

(* Envelopes have numbers. *)
LEMMA SealsAreNumbers ==
    ASSUME WorkInv, NEW i \in Ids, NEW e \in sealed[i]
    PROVE  e.env \in Nat /\ e.skid \in Chains
<1>1. e \in [env : Envelope, skid : Chains]
  BY DEF WorkInv, TypeOK
<1> QED BY <1>1 DEF Envelope

LEMMA SendSeals ==
    ASSUME WorkInv, SealInv, NEW w \in Workers, NEW u \in Senders, NEW c \in Chains, NEW S \in SUBSET Files,
           Send(w, u, c, S)
    PROVE  SealInv'
<1>1. PICK r \in Work : Become(w, r) /\ r.pc = "insert" /\ r.id = minted + 1 /\ r.env = next[u] /\ r.skid = c
  BY SendBecomes DEF WorkInv
<1>2. /\ UNCHANGED <<messages, contested>> /\ minted' = minted + 1 /\ work[w].pc = "idle"
      /\ minted \in Nat /\ minted < MaxMessages
  BY StoreAssumption DEF Send, At, WorkInv, TypeOK
<1>3. work'[w] = r /\ \A v \in Workers \ {w} : work'[v] = work[v]
  BY <1>1, Becomes DEF WorkInv, TypeOK
<1>4. PICK j : j = minted + 1
  OBVIOUS
<1>5. PICK e : e = [env |-> next[u], skid |-> c]
  OBVIOUS
<1>6. sealed' = [sealed EXCEPT ![j] = @ \cup {e}] /\ sealed \in [Ids -> SUBSET [env : Envelope, skid : Chains]]
  BY <1>4, <1>5 DEF Send, Seal, WorkInv, TypeOK
<1>7. j \in Ids /\ j > minted
  BY <1>2, <1>4, StoreAssumption DEF Ids
<1>8. sealed'[j] = {e} /\ \A i \in Ids \ {j} : sealed'[i] = sealed[i]
  BY <1>6, <1>7 DEF SealInv
<1>9. \A v \in Workers : ~Carries(v, j)
  BY <1>2, <1>4, AtWork DEF Carries, Placed
<1>10. ~Exists(j)'
  BY <1>2, <1>4 DEF WorkInv, TypeOK, Exists
<1>11. \A v \in Workers : Carries(v, j)' => v = w
  BY <1>3, <1>9 DEF Carries
<1>12. SealedAt(j)'
  <2>1. SealOf(work[w])' = e /\ r.env <= r.env
    BY <1>1, <1>3, <1>5 DEF SealOf, Work
  <2>2. e.env = work'[w].env /\ work'[w].pc = "insert"
    BY <1>1, <1>3, <1>5
  <2> QED BY <1>1, <1>3, <1>8, <1>10, <1>11, <2>1, <2>2 DEF SealedAt
<1>13. ASSUME NEW i \in (1..minted) \ contested PROVE SealedAt(i)'
  <2>1. i \in Ids \ {j} /\ SealedAt(i) /\ ~Carries(w, i) /\ ~Carries(w, i)'
    BY <1>1, <1>2, <1>3, <1>4, <1>13, StoreAssumption DEF SealInv, Carries, Ids
  <2> QED BY <1>2, <1>3, <1>8, <2>1, SealElsewhere DEF Exists
<1>14. \A i \in Ids : i > minted' => sealed'[i] = {}
  BY <1>2, <1>4, <1>8 DEF SealInv, Ids
<1>15. \A i \in (1..minted') \ contested' : i \in (1..minted) \ contested \/ i = j
  BY <1>2, <1>4
<1> QED BY <1>12, <1>13, <1>14, <1>15 DEF SealInv

(* The envelope of an edit is the newest: nothing is lost, and the new one is under way. *)
LEMMA SendEditSeals ==
    ASSUME WorkInv, ToldInv, SealInv, NEW w \in Workers, NEW u \in Senders, NEW c \in Chains, NEW j \in Ids,
           SendEdit(w, u, c, j)
    PROVE  SealInv'
<1>1. PICK r \in Work : Become(w, r) /\ r.pc = "edit" /\ r.id = j /\ r.env = next[u] /\ r.skid = c
  BY SendEditBecomes DEF WorkInv
<1>2. UNCHANGED <<messages, contested, minted>> /\ work[w].pc = "idle" /\ Exists(j)
  BY DEF SendEdit, At
<1>3. work'[w] = r /\ \A v \in Workers \ {w} : work'[v] = work[v]
  BY <1>1, Becomes DEF WorkInv, TypeOK
<1>4. PICK e : e = [env |-> next[u], skid |-> c]
  OBVIOUS
<1>5. sealed' = [sealed EXCEPT ![j] = @ \cup {e}] /\ sealed \in [Ids -> SUBSET [env : Envelope, skid : Chains]]
  BY <1>4 DEF SendEdit, Seal, WorkInv, TypeOK
<1>6. sealed'[j] = sealed[j] \cup {e} /\ \A i \in Ids \ {j} : sealed'[i] = sealed[i]
  BY <1>5
<1>7. j \in 1..minted
  BY <1>2 DEF Exists, WorkInv, TypeOK
<1>8. /\ \A v \in Workers : /\ Carries(v, j)' /\ v # w => Carries(v, j) /\ work'[v] = work[v]
                            /\ Carries(v, j) => v # w /\ Carries(v, j)' /\ work'[v] = work[v]
      /\ Carries(w, j)' /\ work'[w].pc = "edit" /\ work'[w].env = e.env /\ r.env \in Nat
  BY <1>1, <1>2, <1>3, <1>4 DEF Carries, Work
<1>9. ASSUME j \notin contested PROVE SealedAt(j)'
  <2>0. SealedAt(j) /\ ToldAt(j)
    BY <1>7, <1>9 DEF SealInv, ToldInv
  <2>1. ASSUME NEW v \in Workers, Carries(v, j)' PROVE SealOf(work[v])' \in sealed'[j]
    <3>1. CASE v = w
      BY <1>1, <1>3, <1>4, <1>6, <3>1 DEF SealOf
    <3>2. CASE v # w
      BY <1>6, <1>8, <2>0, <2>1, <3>2 DEF SealedAt, SealOf
    <3> QED BY <3>1, <3>2
  <2>2. ASSUME NEW v \in Workers, Carries(v, j)' PROVE work'[v].pc # "insert"
    <3>1. CASE v = w
      BY <1>8, <3>1
    <3>2. CASE v # w
      <4>1. Carries(v, j) /\ work'[v] = work[v]
        BY <1>8, <2>2, <3>2
      <4>2. work[v].pc = "insert" => Busy(v, j)
        BY <4>1 DEF Carries, Busy
      <4> QED BY <1>2, <2>0, <4>1, <4>2 DEF ToldAt, Sees, Carries
    <3> QED BY <3>1, <3>2
  <2>3. ASSUME NEW v \in Workers, Carries(v, j)', work'[v].pc = "write" PROVE MayEdit(work[v])'
    <3>1. Carries(v, j) /\ work'[v] = work[v] /\ work[v].pc = "write"
      BY <1>8, <2>3
    <3>2. MayEdit(work[v])
      BY <2>0, <3>1 DEF SealedAt
    <3> QED BY <1>2, <3>1, <3>2 DEF MayEdit, Exists
  <2>4. SealOf(messages[j])' \in sealed'[j]
    BY <1>2, <1>6, <2>0 DEF SealedAt, SealOf
  <2>5. ASSUME \A f \in sealed'[j] : f.skid = messages'[j].skid PROVE NewestAt(j)'
    <3>1. NewestAt(j)
      BY <1>2, <1>6, <2>0, <2>5 DEF SealedAt
    <3>2. ASSUME NEW f \in sealed[j]
          PROVE  \/ f.env <= messages'[j].env
                 \/ \E v \in Workers : Carries(v, j)' /\ work'[v].pc # "insert" /\ f.env <= work'[v].env
      BY <1>2, <1>8, <3>1 DEF NewestAt
    <3>3. Carries(w, j)' /\ work'[w].pc # "insert" /\ e.env <= work'[w].env
      BY <1>1, <1>3, <1>8
    <3> QED BY <1>6, <3>2, <3>3 DEF NewestAt
  <2> QED BY <2>1, <2>2, <2>3, <2>4, <2>5 DEF SealedAt
<1>10. j <= minted
  BY <1>7
<1> QED BY <1>1, <1>2, <1>6, <1>9, <1>10, SealAtOne DEF Exists

(* What is stored first is what was sealed first, or an edit is under way. *)
LEMMA InsertSeals ==
    ASSUME WorkInv, ToldInv, SealInv, NEW w \in Workers, Insert(w)
    PROVE  SealInv'
<1>0. work[w] \in Work /\ work[w].pc = "insert"
  BY AtWork DEF Insert, At
<1>1. PICK j : j = work[w].id
  OBVIOUS
<1>2. PICK r : r = [work[w] EXCEPT !.pc = "tell", !.skid = 0, !.files = {}]
  OBVIOUS
<1>3. r \in Work /\ r.pc = "tell" /\ r.id = j
  BY <1>0, <1>1, <1>2, ChainDropped DEF Work
<1>4. Become(w, r) /\ UNCHANGED <<minted, sealed, contested>>
  BY <1>2 DEF Insert, sealing
<1>5. work'[w] = r /\ \A v \in Workers \ {w} : work'[v] = work[v]
  BY <1>3, <1>4, Becomes DEF WorkInv, TypeOK
<1>6. messages' = [i \in DOMAIN messages \cup {j} |->
                     IF i = j THEN [sender |-> work[w].user, env |-> work[w].env, skid |-> work[w].skid,
                                    files |-> work[w].files, read |-> FALSE]
                     ELSE messages[i]]
  BY <1>1 DEF Insert
<1>7. Exists(j)' /\ messages'[j].env = work[w].env /\ messages'[j].skid = work[w].skid
  BY <1>6 DEF Exists
<1>8. ASSUME j \notin contested PROVE SealedAt(j)'
  <2>1. /\ \A v \in Workers \ {w} : ~Busy(v, j)
        /\ SealedAt(j) /\ Carries(w, j)
    BY <1>0, <1>1, <1>8, AtAMessage, CarriesIt
  <2>2. \A v \in Workers : Carries(v, j)' => v # w /\ Carries(v, j) /\ work'[v] = work[v] /\ work[v].pc = "edit"
    BY <1>3, <1>5, <2>1, WritersAreBusy DEF Carries
  <2>3. \A v \in Workers : Carries(v, j)' => SealOf(work[v])' \in sealed'[j]
    BY <1>4, <2>1, <2>2 DEF SealedAt, SealOf
  <2>4. SealOf(messages[j])' \in sealed'[j]
    BY <1>4, <1>7, <2>1 DEF SealedAt, SealOf
  <2>5. NewestAt(j)'
    BY <1>0, <1>4, <1>7, <2>1 DEF SealedAt, NewestAt
  <2> QED BY <2>2, <2>3, <2>4, <2>5 DEF SealedAt
<1>9. \A i \in (1..minted) \ {j} : (Exists(i)' <=> Exists(i))
                                   /\ (Exists(i) => messages'[i].env = messages[i].env
                                                    /\ messages'[i].skid = messages[i].skid)
  BY <1>6 DEF Exists
<1>10. j <= minted
  BY <1>0, <1>1, AtWork
<1> QED BY <1>1, <1>3, <1>4, <1>8, <1>9, <1>10, SealAtOne

(* An edit is taken up, and still under way; or refused, since what is stored is as late. *)
LEMMA EditFindSeals ==
    ASSUME WorkInv, SealInv, NEW w \in Workers, EditFind(w)
    PROVE  SealInv'
<1>0. /\ work[w] \in Work /\ work[w].pc = "edit" /\ work[w].id \in Ids
      /\ UNCHANGED <<minted, sealed, messages>> /\ contested \subseteq contested'
  BY AtWork DEF EditFind, At, TakeUp, sealing
<1>1. PICK j : j = work[w].id
  OBVIOUS
<1>2. j <= minted /\ j \in 1..minted
  BY <1>0, <1>1, AtWork
<1>3. CASE MayEdit(work[w])
  <2>1. PICK r : r = [work[w] EXCEPT !.pc = "write"]
    OBVIOUS
  <2>2. r \in Work /\ r.pc = "write" /\ r.id = j /\ r.env = work[w].env /\ r.skid = work[w].skid
    BY <1>0, <1>1, <2>1 DEF Work
  <2>3. Become(w, r)
    BY <1>3, <2>1 DEF EditFind
  <2>4. work'[w] = r /\ \A v \in Workers \ {w} : work'[v] = work[v]
    BY <2>2, <2>3, Becomes DEF WorkInv, TypeOK
  <2>5. ASSUME j \notin contested PROVE SealedAt(j)'
    <3>1. SealedAt(j) /\ Carries(w, j)
      BY <1>0, <1>1, <2>5, CarriesIt
    <3>2. \A v \in Workers : /\ Carries(v, j)' <=> Carries(v, j)
                             /\ work'[v].env = work[v].env /\ work'[v].skid = work[v].skid /\ work'[v].id = work[v].id
                             /\ work'[v].pc = "insert" <=> work[v].pc = "insert"
                             /\ work'[v].pc = "write" /\ v # w => work[v].pc = "write"
      BY <1>0, <1>1, <2>2, <2>4, <3>1 DEF Carries
    <3>3. \A v \in Workers : Carries(v, j)' => SealOf(work[v])' \in sealed'[j]
      BY <1>0, <3>1, <3>2 DEF SealedAt, SealOf
    <3>4. \A v \in Workers : Carries(v, j)' /\ work'[v].pc = "insert" => \A e \in sealed'[j] : e.env <= work'[v].env
      BY <1>0, <3>1, <3>2 DEF SealedAt
    <3>5. ASSUME NEW v \in Workers, Carries(v, j)', work'[v].pc = "write" PROVE MayEdit(work[v])'
      <4>1. MayEdit(work[v])
        BY <1>3, <3>1, <3>2, <3>5 DEF SealedAt
      <4> QED BY <1>0, <3>2, <4>1 DEF MayEdit, Exists
    <3>6. Exists(j)' /\ SealOf(messages[j])' \in sealed'[j]
      BY <1>0, <1>1, <1>3, <3>1 DEF SealedAt, SealOf, MayEdit, Exists
    <3>7. ASSUME \A e \in sealed'[j] : e.skid = messages'[j].skid PROVE NewestAt(j)'
      <4>1. NewestAt(j)
        BY <1>0, <3>1, <3>6, <3>7 DEF SealedAt, Exists
      <4> QED BY <1>0, <3>2, <4>1 DEF NewestAt
    <3> QED BY <3>3, <3>4, <3>5, <3>6, <3>7 DEF SealedAt
  <2>6. \A i \in (1..minted) \ {j} : (Exists(i)' <=> Exists(i))
                                     /\ (Exists(i) => messages'[i].env = messages[i].env
                                                      /\ messages'[i].skid = messages[i].skid)
    BY <1>0 DEF Exists
  <2> QED BY <1>0, <1>1, <1>2, <2>2, <2>3, <2>5, <2>6, SealAtOne
<1>4. CASE ~MayEdit(work[w])
  <2>1. Become(w, Idle)
    BY <1>4 DEF EditFind
  <2>2. work'[w] = Idle /\ \A v \in Workers \ {w} : work'[v] = work[v]
    BY <2>1, IdleIsWork, Becomes DEF WorkInv, TypeOK
  <2>3. ASSUME j \notin contested PROVE SealedAt(j)'
    <3>1. SealedAt(j) /\ Carries(w, j)
      BY <1>0, <1>1, <2>3, CarriesIt
    <3>2. \A v \in Workers : /\ Carries(v, j)' => v # w /\ Carries(v, j) /\ work'[v] = work[v]
                             /\ Carries(v, j) /\ v # w => Carries(v, j)' /\ work'[v] = work[v]
      BY <2>2, IdleIsWork DEF Carries
    <3>3. \A v \in Workers : Carries(v, j)' => SealOf(work[v])' \in sealed'[j]
      BY <1>0, <3>1, <3>2 DEF SealedAt, SealOf
    <3>4. \A v \in Workers : Carries(v, j)' /\ work'[v].pc = "insert" => \A e \in sealed'[j] : e.env <= work'[v].env
      BY <1>0, <3>1, <3>2 DEF SealedAt
    <3>5. ASSUME NEW v \in Workers, Carries(v, j)', work'[v].pc = "write" PROVE MayEdit(work[v])'
      <4>1. MayEdit(work[v]) /\ work'[v] = work[v]
        BY <3>1, <3>2, <3>5 DEF SealedAt
      <4> QED BY <1>0, <4>1 DEF MayEdit, Exists
    <3>6. Exists(j)' => SealOf(messages[j])' \in sealed'[j]
      BY <1>0, <3>1 DEF SealedAt, SealOf, Exists
    <3>7. ASSUME Exists(j)', \A e \in sealed'[j] : e.skid = messages'[j].skid PROVE NewestAt(j)'
      <4>1. Exists(j) /\ NewestAt(j)
        BY <1>0, <3>1, <3>7 DEF SealedAt, Exists
      <4>2. work[w].skid = messages[j].skid /\ work[w].env <= messages[j].env
        <5>1. work[w].skid = messages[j].skid
          BY <1>0, <3>1, <3>7 DEF SealedAt, SealOf
        <5>2. work[w].env \in Nat /\ messages[j].env \in Nat
          BY <1>0, <4>1 DEF Work, Exists, WorkInv, TypeOK, Message, Envelope
        <5> QED BY <1>1, <1>4, <4>1, <5>1, <5>2 DEF MayEdit
      <4>3. work[w].env \in Nat /\ messages[j].env \in Nat /\ \A e \in sealed[j] : e.env \in Nat
        BY <1>0, <1>1, <4>1, SealsAreNumbers DEF Work, Exists, WorkInv, TypeOK, Message, Envelope
      <4>4. ASSUME NEW e \in sealed[j]
            PROVE  \/ e.env <= messages'[j].env
                   \/ \E v \in Workers : Carries(v, j)' /\ work'[v].pc # "insert" /\ e.env <= work'[v].env
        <5>1. CASE e.env <= messages[j].env
          BY <1>0, <5>1
        <5>2. ASSUME NEW v \in Workers, Carries(v, j), work[v].pc # "insert", e.env <= work[v].env
              PROVE  \/ e.env <= messages'[j].env
                     \/ \E x \in Workers : Carries(x, j)' /\ work'[x].pc # "insert" /\ e.env <= work'[x].env
          <6>1. CASE v = w
            BY <1>0, <4>2, <4>3, <5>2, <6>1
          <6>2. CASE v # w
            BY <3>2, <5>2, <6>2
          <6> QED BY <6>1, <6>2
        <5> QED BY <4>1, <5>1, <5>2 DEF NewestAt
      <4> QED BY <1>0, <4>4 DEF NewestAt
    <3> QED BY <3>3, <3>4, <3>5, <3>6, <3>7 DEF SealedAt
  <2>4. \A i \in (1..minted) \ {j} : (Exists(i)' <=> Exists(i))
                                     /\ (Exists(i) => messages'[i].env = messages[i].env
                                                      /\ messages'[i].skid = messages[i].skid)
    BY <1>0 DEF Exists
  <2> QED BY <1>0, <1>1, <1>2, <2>1, <2>3, <2>4, IdleIsWork, SealAtOne
<1> QED BY <1>3, <1>4

(* What is written is later than what was stored, if it is of the same chain. *)
LEMMA EditWriteSeals ==
    ASSUME WorkInv, ToldInv, SealInv, NEW w \in Workers, EditWrite(w)
    PROVE  SealInv'
<1>0. work[w] \in Work /\ work[w].pc = "write" /\ work[w].id \in Ids
  BY AtWork DEF EditWrite, At
<1>1. PICK j : j = work[w].id
  OBVIOUS
<1>2. PICK r : r = [work[w] EXCEPT !.pc = "reread", !.skid = 0]
  OBVIOUS
<1>3. r \in Work /\ r.pc = "reread" /\ r.id = j
  BY <1>0, <1>1, <1>2, ChainDropped DEF Work
<1>4. Become(w, r) /\ UNCHANGED <<minted, sealed, contested>>
  BY <1>2 DEF EditWrite, sealing
<1>5. work'[w] = r /\ \A v \in Workers \ {w} : work'[v] = work[v]
  BY <1>3, <1>4, Becomes DEF WorkInv, TypeOK
<1>6. messages' = [i \in DOMAIN messages |->
                     IF i = j THEN [messages[i] EXCEPT !.env = work[w].env, !.skid = work[w].skid]
                     ELSE messages[i]]
  BY <1>1 DEF EditWrite
<1>7. ASSUME j \notin contested PROVE SealedAt(j)'
  <2>1. /\ \A v \in Workers \ {w} : ~Busy(v, j)
        /\ SealedAt(j) /\ Carries(w, j) /\ MayEdit(work[w])
    BY <1>0, <1>1, <1>7, AtAMessage, CarriesIt DEF SealedAt
  <2>2. \A v \in Workers : /\ Carries(v, j)' => v # w /\ Carries(v, j) /\ work'[v] = work[v] /\ work[v].pc = "edit"
                           /\ Carries(v, j) /\ v # w => Carries(v, j)' /\ work'[v] = work[v]
    BY <1>3, <1>5, <2>1, WritersAreBusy DEF Carries
  <2>3. /\ Exists(j) /\ messages[j] \in Message /\ Exists(j)'
        /\ messages'[j].env = work[w].env /\ messages'[j].skid = work[w].skid
    <3>1. Exists(j) /\ messages[j] \in Message
      BY <1>1, <2>1 DEF MayEdit, Exists, WorkInv, TypeOK
    <3>2. [messages[j] EXCEPT !.env = work[w].env, !.skid = work[w].skid].env = work[w].env
          /\ [messages[j] EXCEPT !.env = work[w].env, !.skid = work[w].skid].skid = work[w].skid
      BY <3>1 DEF Message
    <3> QED BY <1>6, <3>1, <3>2 DEF Exists
  <2>4. \A v \in Workers : Carries(v, j)' => SealOf(work[v])' \in sealed'[j]
    BY <1>4, <2>1, <2>2 DEF SealedAt, SealOf
  <2>5. SealOf(messages[j])' \in sealed'[j]
    BY <1>4, <2>1, <2>3 DEF SealedAt, SealOf
  <2>6. ASSUME \A e \in sealed'[j] : e.skid = messages'[j].skid PROVE NewestAt(j)'
    <3>1. messages[j].skid = work[w].skid /\ \A e \in sealed[j] : e.skid = messages[j].skid
      <4>1. SealOf(messages[j]) \in sealed[j] /\ SealOf(messages[j]).skid = messages[j].skid
        BY <2>1, <2>3 DEF SealedAt, SealOf
      <4> QED BY <1>4, <2>3, <2>6, <4>1
    <3>2. work[w].env > messages[j].env
      BY <1>1, <2>1, <3>1 DEF MayEdit
    <3>3. NewestAt(j)
      BY <2>1, <2>3, <3>1 DEF SealedAt
    <3>4. work[w].env \in Nat /\ messages[j].env \in Nat /\ \A e \in sealed[j] : e.env \in Nat
      BY <1>0, <1>1, <2>3, SealsAreNumbers DEF Work, Message, Envelope
    <3>5. ASSUME NEW e \in sealed[j]
          PROVE  \/ e.env <= messages'[j].env
                 \/ \E v \in Workers : Carries(v, j)' /\ work'[v].pc # "insert" /\ e.env <= work'[v].env
      <4>1. CASE e.env <= messages[j].env
        BY <2>3, <3>2, <3>4, <4>1
      <4>2. ASSUME NEW v \in Workers, Carries(v, j), work[v].pc # "insert", e.env <= work[v].env
            PROVE  \/ e.env <= messages'[j].env
                   \/ \E x \in Workers : Carries(x, j)' /\ work'[x].pc # "insert" /\ e.env <= work'[x].env
        <5>1. CASE v = w
          BY <2>3, <4>2, <5>1
        <5>2. CASE v # w
          BY <2>2, <4>2, <5>2
        <5> QED BY <5>1, <5>2
      <4> QED BY <3>3, <4>1, <4>2 DEF NewestAt
    <3> QED BY <1>4, <3>5 DEF NewestAt
  <2> QED BY <2>2, <2>4, <2>5, <2>6 DEF SealedAt
<1>8. \A i \in (1..minted) \ {j} : (Exists(i)' <=> Exists(i))
                                   /\ (Exists(i) => messages'[i].env = messages[i].env
                                                    /\ messages'[i].skid = messages[i].skid)
  BY <1>6 DEF Exists
<1>9. j <= minted
  BY <1>0, <1>1, AtWork
<1> QED BY <1>1, <1>3, <1>4, <1>7, <1>8, <1>9, SealAtOne

LEMMA DeleteOneSeals ==
    ASSUME WorkInv, ToldInv, SealInv, NEW w \in Workers, DeleteOne(w)
    PROVE  SealInv'
<1>0. work[w] \in Work /\ work[w].pc = "remove" /\ UNCHANGED <<minted, sealed, contested>>
  BY AtWork DEF DeleteOne, At, sealing
<1>1. PICK j : j = work[w].id
  OBVIOUS
<1>2. PICK pc \in {"tell", "look"} : Become(w, [work[w] EXCEPT !.pc = pc])
  BY DEF DeleteOne
<1>3. PICK r : r = [work[w] EXCEPT !.pc = pc]
  OBVIOUS
<1>4. r \in Work /\ r.pc = pc
  BY <1>0, <1>3 DEF Work
<1>5. work'[w] = r /\ \A v \in Workers \ {w} : work'[v] = work[v]
  BY <1>2, <1>3, <1>4, Becomes DEF WorkInv, TypeOK
<1>6. messages' = [i \in DOMAIN messages \ {j} |-> messages[i]]
  BY <1>1 DEF DeleteOne
<1>7. ASSUME j \in (1..minted) \ contested PROVE SealedAt(j)'
  <2>1. \A v \in Workers \ {w} : ~Busy(v, j)
    BY <1>0, <1>1, <1>7, AtAMessage
  <2>2. SealedAt(j)
    BY <1>7 DEF SealInv
  <2>3. \A v \in Workers : Carries(v, j)' => Carries(v, j) /\ work'[v] = work[v] /\ work[v].pc = "edit"
    BY <1>0, <1>4, <1>5, <2>1, WritersAreBusy DEF Carries
  <2>4. \A v \in Workers : Carries(v, j)' => SealOf(work[v])' \in sealed'[j]
    BY <1>0, <2>2, <2>3 DEF SealedAt, SealOf
  <2>5. ~Exists(j)'
    BY <1>6 DEF Exists
  <2> QED BY <2>3, <2>4, <2>5 DEF SealedAt
<1>8. \A i \in (1..minted) \ {j} : (Exists(i)' <=> Exists(i))
                                   /\ (Exists(i) => messages'[i].env = messages[i].env
                                                    /\ messages'[i].skid = messages[i].skid)
  BY <1>6 DEF Exists
<1>9. j <= minted
  BY <1>0, <1>1, AtWork
<1> QED BY <1>0, <1>2, <1>3, <1>4, <1>7, <1>8, <1>9, SealAtOne

LEMMA MarkReadSeals ==
    ASSUME WorkInv, SealInv, NEW w \in Workers, MarkRead(w)
    PROVE  SealInv'
<1>1. work[w].pc = "mark" /\ UNCHANGED <<minted, sealed, contested>> /\ Become(w, Idle)
  BY DEF MarkRead, At, sealing
<1>2. messages' = [i \in DOMAIN messages |->
                      IF i <= work[w].id /\ messages[i].sender # work[w].user
                      THEN [messages[i] EXCEPT !.read = TRUE] ELSE messages[i]]
  BY DEF MarkRead
<1>3. \A m \in Message : [m EXCEPT !.read = TRUE].env = m.env /\ [m EXCEPT !.read = TRUE].skid = m.skid
  BY DEF Message
<1>4. \A i \in DOMAIN messages : messages'[i].env = messages[i].env /\ messages'[i].skid = messages[i].skid
  BY <1>2, <1>3 DEF WorkInv, TypeOK
<1> QED BY <1>1, <1>2, <1>4, IdleIsWork, NoneSeals DEF Exists

LEMMA FailsSeals ==
    ASSUME WorkInv, SealInv, NEW w \in Workers, Fails(w)
    PROVE  SealInv'
<1>1. UNCHANGED <<minted, sealed, messages>> /\ Become(w, Idle) /\ contested \subseteq contested'
  BY DEF Fails, sealing
<1>2. work[w].pc = "mark" \/ work[w].id \in contested'
  BY DEF Fails, At
<1>3. CASE work[w].pc = "mark"
  BY <1>1, <1>3, IdleIsWork, NoneSeals DEF Exists
<1>4. CASE work[w].id \in contested'
  <2>1. PICK j : j = work[w].id
    OBVIOUS
  <2>2. j <= minted
    BY <2>1, AtWork DEF Placed
  <2> QED BY <1>1, <1>4, <2>1, <2>2, IdleIsWork, SealAtOne DEF Exists
<1> QED BY <1>2, <1>3, <1>4

(* What only looks, tells or deletes has no envelope to store. *)
LEMMA RestSeals ==
    ASSUME WorkInv, SealInv, NEW w \in Workers,
           \/ \E u \in Users \ Senders, i \in Ids : MarkLastRead(w, u, i)
           \/ \E i \in Ids : DeleteFind(w, i)
           \/ Tell(w) \/ EditReread(w) \/ Look(w) \/ Reap(w)
    PROVE  SealInv'
<1>1. /\ UNCHANGED <<minted, sealed, messages>> /\ contested \subseteq contested'
      /\ work[w].pc \notin {"insert", "edit", "write"}
  BY DEF MarkLastRead, DeleteFind, Tell, EditReread, Look, Reap, At, TakeUp, sealing
<1>2. \E r \in Work : Become(w, r) /\ r.pc \notin {"insert", "edit", "write"}
  <2>1. ASSUME NEW u \in Users \ Senders, NEW i \in Ids, MarkLastRead(w, u, i)
        PROVE  \E r \in Work : Become(w, r) /\ r.pc \notin {"insert", "edit", "write"}
    BY <2>1, MarkBecomes DEF WorkInv
  <2>2. ASSUME NEW i \in Ids, DeleteFind(w, i)
        PROVE  \E r \in Work : Become(w, r) /\ r.pc \notin {"insert", "edit", "write"}
    BY <2>2, DeleteFindBecomes DEF WorkInv
  <2>3. CASE Tell(w)
    BY <2>3, IdleIsWork DEF Tell
  <2>4. CASE EditReread(w)
    <3>1. CASE Exists(work[w].id)
      <4>1. messages[work[w].id].env \in 0..(MaxSeals + 1)
        BY <3>1, StoreAssumption DEF Exists, WorkInv, TypeOK, Message, Envelope
      <4>2. PICK r : r = [work[w] EXCEPT !.pc = "tell", !.env = messages[work[w].id].env]
        OBVIOUS
      <4>3. r \in Work /\ r.pc = "tell"
        BY <4>1, <4>2, AtWork DEF Work
      <4> QED BY <2>4, <3>1, <4>2, <4>3 DEF EditReread
    <3>2. CASE ~Exists(work[w].id)
      BY <2>4, <3>2, IdleIsWork DEF EditReread
    <3> QED BY <3>1, <3>2
  <2>5. CASE Look(w)
    <3>1. PICK r : Become(w, r) /\ r \in {[work[w] EXCEPT !.pc = "tell", !.files = {}], [work[w] EXCEPT !.pc = "reap"]}
      BY <2>5 DEF Look
    <3>2. r \in Work /\ r.pc \in {"tell", "reap"}
      BY <3>1, AtWork DEF Work
    <3> QED BY <3>1, <3>2
  <2>6. CASE Reap(w)
    <3>1. PICK r : r = [work[w] EXCEPT !.pc = "tell", !.files = {}]
      OBVIOUS
    <3>2. r \in Work /\ r.pc = "tell"
      BY <3>1, AtWork DEF Work
    <3> QED BY <2>6, <3>1, <3>2 DEF Reap
  <2> QED BY <2>1, <2>2, <2>3, <2>4, <2>5, <2>6
<1> QED BY <1>1, <1>2, NoneSeals DEF Exists

(* Nothing moves but the bucket. *)
LEMMA NothingSealed ==
    ASSUME SealInv, UNCHANGED <<minted, sealed, messages, contested, work>>
    PROVE  SealInv'
<1>1. ASSUME NEW i, SealedAt(i) PROVE SealedAt(i)'
  <2>1. \A v \in Workers : (Carries(v, i)' <=> Carries(v, i)) /\ work'[v] = work[v]
    BY DEF Carries
  <2>2. NewestAt(i) => NewestAt(i)'
    BY <2>1 DEF NewestAt
  <2>3. \A v \in Workers : Carries(v, i)' => SealOf(work[v])' \in sealed'[i]
    BY <1>1, <2>1 DEF SealedAt, SealOf
  <2>4. \A v \in Workers : Carries(v, i)' /\ work'[v].pc = "insert" => \A e \in sealed'[i] : e.env <= work'[v].env
    BY <1>1, <2>1 DEF SealedAt
  <2>5. \A v \in Workers : Carries(v, i)' /\ work'[v].pc = "write" => MayEdit(work[v])'
    BY <1>1, <2>1 DEF SealedAt, MayEdit, Exists
  <2>6. Exists(i)' => SealOf(messages[i])' \in sealed'[i]
    BY <1>1 DEF SealedAt, SealOf, Exists
  <2>7. Exists(i)' /\ (\A e \in sealed'[i] : e.skid = messages'[i].skid) => NewestAt(i)'
    BY <1>1, <2>2 DEF SealedAt, Exists
  <2> QED BY <2>3, <2>4, <2>5, <2>6, <2>7 DEF SealedAt
<1> QED BY <1>1 DEF SealInv

LEMMA SealStep == WorkInv /\ ToldInv /\ SealInv /\ [Next]_vars => SealInv'
<1> SUFFICES ASSUME WorkInv, ToldInv, SealInv, [Next]_vars PROVE SealInv'
  OBVIOUS
<1>1. CASE UNCHANGED vars
  BY <1>1, NothingSealed DEF vars, sealing
<1>2. ASSUME NEW w \in Workers,
             \/ \E u \in Senders, c \in Chains, S \in {{}} \cup {{f} : f \in Files} : Send(w, u, c, S)
             \/ \E u \in Senders, c \in Chains, i \in Ids : SendEdit(w, u, c, i)
      PROVE  SealInv'
  <2>1. \A S \in {{}} \cup {{f} : f \in Files} : S \in SUBSET Files
    OBVIOUS
  <2> QED BY <1>2, <2>1, SendSeals, SendEditSeals
<1>3. ASSUME NEW w \in Workers,
             \/ \E u \in Users \ Senders, i \in Ids : MarkLastRead(w, u, i)
             \/ \E i \in Ids : DeleteFind(w, i)
             \/ Tell(w) \/ EditReread(w) \/ Look(w) \/ Reap(w)
      PROVE  SealInv'
  BY <1>3, RestSeals
<1>4. ASSUME NEW w \in Workers,
             Insert(w) \/ EditFind(w) \/ EditWrite(w) \/ DeleteOne(w) \/ MarkRead(w) \/ Fails(w)
      PROVE  SealInv'
  BY <1>4, InsertSeals, EditFindSeals, EditWriteSeals, DeleteOneSeals, MarkReadSeals, FailsSeals
<1>5. CASE SweepStart \/ \E f \in Files : Upload(f) \/ GetsOld(f) \/ SweepLook(f)
  <2>1. UNCHANGED <<minted, sealed, messages, contested, work>>
    BY <1>5 DEF SweepStart, Upload, GetsOld, SweepLook, sealing
  <2> QED BY <2>1, NothingSealed
<1> QED BY <1>1, <1>2, <1>3, <1>4, <1>5 DEF Next
----------------------------------------------------------------------------
(* Theorems.                                                               *)

LEMMA InitialStores == Init => StoreInv
<1> SUFFICES ASSUME Init PROVE StoreInv
  OBVIOUS
<1>1. /\ DOMAIN messages = {} /\ minted = 0 /\ contested = {} /\ astray = {} /\ late = {} /\ half = {}
      /\ work = [w \in Workers |-> Idle] /\ told = [i \in Ids |-> Unheard]
  BY DEF Init
<1>2. TypeOK
  <2>1. sweep \in [used : SUBSET Files, todo : SUBSET Files] /\ blob \in [Files -> {"none", "new", "old", "gone"}]
    BY DEF Init
  <2>2. work \in [Workers -> Work]
    BY <1>1, IdleIsWork
  <2>3. lastRead \in [Users -> 0..MaxMessages] /\ next \in [Users -> 1..(MaxSeals + 1)]
        /\ told \in [Ids -> 0..(MaxSeals + 1)] /\ minted \in 0..MaxMessages
        /\ sealed \in [Ids -> SUBSET [env : Envelope, skid : Chains]]
    BY <1>1, StoreAssumption DEF Init, Unheard
  <2> QED BY <1>1, <2>1, <2>2, <2>3 DEF TypeOK
<1>3. WorkInv
  BY <1>1, <1>2, IdleIsWork DEF WorkInv, Placed
<1>4. ToldInv
  BY <1>1 DEF ToldInv
<1>5. BlobInv /\ ReadInv
  BY <1>1 DEF BlobInv, ReadInv, InUse
<1>6. SealInv
  BY <1>1 DEF SealInv, Init
<1> QED BY <1>3, <1>4, <1>5, <1>6 DEF StoreInv

(* StoreInvariant: what every handler relies on at each of its places (WorkInv, ToldInv), which    *)
(* edit is stored or still to come (SealInv), what keeps the bucket in step with the messages      *)
(* (BlobInv) and the ticks with the marks (ReadInv).                                               *)
THEOREM StoreInvariant == Spec => []StoreInv
<1>1. StoreInv /\ [Next]_vars => StoreInv'
  BY WorkStep, ToldStep, SealStep, BlobStep, ReadStep DEF StoreInv
<1> QED BY <1>1, InitialStores, PTL DEF Spec

(* StoreWellTyped: the stores and the requests hold what they are declared to hold; an id below   *)
(* the last given out is all a message can have.                                                  *)
THEOREM StoreWellTyped == Spec => []TypeOK
<1>1. StoreInv => TypeOK
  BY DEF StoreInv, WorkInv
<1> QED BY <1>1, StoreInvariant, PTL

(* AttachmentsAreKept: an attachment of a stored message can be downloaded unless it was named     *)
(* when its deletion had been decided (delete_message, cleanup_minio_orphans).                     *)
THEOREM AttachmentsAreKept == Spec => []AttachmentsKept
<1>1. StoreInv => AttachmentsKept
  <2> SUFFICES ASSUME StoreInv, NEW i \in DOMAIN messages, NEW f \in messages[i].files \ astray
               PROVE  Downloadable(f)
    BY DEF AttachmentsKept
  <2>1. f \in Files \ astray /\ InUse(f)
    BY DEF StoreInv, WorkInv, TypeOK, Message, InUse
  <2> QED BY <2>1 DEF StoreInv, BlobInv, Downloadable
<1> QED BY <1>1, StoreInvariant, PTL

(* ToldIsCurrent: participants know of every message how it is stored, once nothing is in progress *)
(* for it, if no two requests for it overlapped and none was broken off.                           *)
THEOREM ToldIsCurrent == Spec => []ToldCurrent
<1>1. StoreInv => ToldCurrent
  <2> SUFFICES ASSUME StoreInv, NEW i \in (1..minted) \ contested,
                      \A w \in Workers : work[w].id = i => At(w, "edit") \/ At(w, "mark")
               PROVE  told[i] = Actual(i)
    BY DEF ToldCurrent, Actual
  <2>1. \A w \in Workers : ~Busy(w, i)
    BY DEF Busy, At
  <2> QED BY <2>1 DEF StoreInv, ToldInv, ToldAt
<1> QED BY <1>1, StoreInvariant, PTL

(* UnreadsAgree: a message nobody has read counts as unread for everyone who did not send it,      *)
(* although ticks and badges are kept in two stores and written in two steps.                      *)
THEOREM UnreadsAgree == Spec => []UnreadAgrees
<1>1. StoreInv => UnreadAgrees
  <2> SUFFICES ASSUME StoreInv, NEW u \in Users \ half,
                      \A w \in Workers : ~(At(w, "mark") /\ work[w].user = u),
                      NEW i \in DOMAIN messages \ late, ~messages[i].read, messages[i].sender # u
               PROVE  i \in Unread(u)
    BY DEF UnreadAgrees
  <2>1. i > lastRead[u]
    BY DEF StoreInv, ReadInv
  <2> QED BY <2>1 DEF Unread
<1> QED BY <1>1, StoreInvariant, PTL

(* NewestEditIsKept: once no edit of a message is under way, the message has the envelope sealed   *)
(* last for it, in whatever order the edits arrived, were refused and were sent again; unless two  *)
(* requests were at the message at once, one was broken off, or the envelopes are of two chains.   *)
THEOREM NewestEditIsKept == Spec => []NewestEditStands
<1>1. StoreInv => NewestEditStands
  <2> SUFFICES ASSUME StoreInv, NEW i \in DOMAIN messages \ contested,
                      \A w \in Workers : work[w].id = i => At(w, "mark"),
                      \A e \in sealed[i] : e.skid = messages[i].skid,
                      NEW e \in sealed[i]
               PROVE  e.env <= messages[i].env
    BY DEF NewestEditStands
  <2>1. SealedAt(i)
    BY DEF StoreInv, SealInv, WorkInv, TypeOK
  <2>2. \A w \in Workers : ~Carries(w, i)
    BY DEF Carries, At
  <2> QED BY <2>1, <2>2 DEF SealedAt, NewestAt, Exists
<1> QED BY <1>1, StoreInvariant, PTL
==============================================================================
