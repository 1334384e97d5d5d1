----------------------------- MODULE TabProofs -----------------------------
(***************************************************************************)
(* The safety of a browser tab: its conversation list, then its session    *)
(* and socket.  ConversationInv and SessionInv are inductive: one lemma    *)
(* per action of the conversation keeps the former, one step per action of *)
(* the session the latter.  The lemmas on sequences come first.            *)
(***************************************************************************)
EXTENDS ConversationProps, SessionProps, SequenceTheorems, FiniteSetTheorems, WellFoundedInduction, TLAPS

----------------------------------------------------------------------------
(* What the tab holds.                                                     *)

Sends == {t \in tasks : t.kind = "send"}

Kinds == {"open", "older", "send", "edit", "delete", "incoming"}

Task == [kind : Kinds, chat : Chats \cup {NoChat}, id : Nat, text : Nat, page : Seq(Nat),
         answered : BOOLEAN, opening : Nat]

ListsInv ==
    /\ texts \in Seq(Chats) /\ active \in Chats \cup {NoChat}
    /\ server \in Seq([chat : Chats, text : Nat]) /\ gone \subseteq DOMAIN server
    /\ pending \in Seq([text : Nat, status : {"sending", "failed"}])
    /\ rows \in Seq(Nat) /\ Range(rows) \subseteq DOMAIN server
    /\ opens \in Nat /\ crossed \in BOOLEAN /\ top \in {0} \cup DOMAIN server /\ editing \in Nat
    /\ events \in Seq([kind : {"new_message", "message_deleted"}, id : Nat])
    /\ tasks \subseteq Task

(***************************************************************************)
(* Texts.                                                                  *)
(***************************************************************************)

(* Bubbles, requests and messages of a text are of the chat it was submitted in; bubbles go when   *)
(* another is opened.                                                                             *)
HomeInv ==
    /\ \A b \in Range(pending) : b.text \in DOMAIN texts /\ texts[b.text] = active
    /\ \A t \in Sends :
          /\ t.text \in DOMAIN texts /\ t.chat = texts[t.text]
          /\ t.answered => t.id \in Posted(t.text)
    /\ \A i \in DOMAIN server :
          server[i].text # 0 => server[i].text \in DOMAIN texts /\ server[i].chat = texts[server[i].text]

(* What the tab may post again has not been stored as far as it can know: there is one request for  *)
(* a text, and none if its bubble offers to retry.                                                *)
OnceInv ==
    /\ \A t, u \in Sends : t.text = u.text => t = u
    /\ \A n \in DOMAIN texts : FailedBubble(n) =>
          (\A t \in Sends : t.text # n) /\ (n \in unheard \/ Posted(n) = {})
    /\ \A t \in Sends : t.answered \/ t.text \in unheard \/ Posted(t.text) = {}
    /\ \A n \in DOMAIN texts \ unheard : \A i, j \in Posted(n) : i = j

(* A text is stored, or given up, or still on screen. *)
KeptInv ==
    \A n \in DOMAIN texts : Posted(n) # {} \/ n \in abandoned \/ \E b \in Range(pending) : b.text = n

(***************************************************************************)
(* Rows.                                                                   *)
(***************************************************************************)

Once(s) == \A k, l \in DOMAIN s : s[k] = s[l] => k = l

(* From any item of it on, a page has all there was before its cursor. *)
IsPage(t) ==
    /\ Once(t.page)
    /\ \A i \in Range(t.page) :
          /\ i \in DOMAIN server /\ server[i].chat = t.chat
          /\ t.kind = "older" => i < t.id
    /\ \A j \in Range(t.page) : \A i \in InChat(t.chat) :
          j <= i /\ ((t.kind = "older" /\ i < t.id) \/ \E k \in Range(t.page) : i <= k)
              => i \in Range(t.page)

(* What a request brings, and for which screen. *)
TaskInv(t) ==
    /\ IsPage(t)
    /\ t.opening <= opens
    /\ t.kind \in {"open", "older"} /\ ~Late(t) => t.chat = active
    /\ t.kind \in {"older", "delete"} => t.id \in DOMAIN server
    /\ t.kind = "incoming" \/ (t.kind = "send" /\ t.answered) =>
          t.id \in DOMAIN server /\ server[t.id].chat = t.chat
    /\ t.kind = "delete" /\ t.answered => t.id \in gone

EventInv(e) == e.id \in DOMAIN server /\ (e.kind = "message_deleted" => e.id \in gone)

LandingInv == (\A t \in tasks : TaskInv(t)) /\ \A e \in Range(events) : EventInv(e)

(* The list: one bubble for a text, and from any of the rows on, all that the first page reached to. *)
BubblesInv == Once(pending) /\ \A a, b \in Range(pending) : a.text = b.text => a = b

RowsInv ==
    \/ crossed
    \/ /\ Once(rows)
       /\ \A i \in Range(rows) : server[i].chat = active
       /\ \A j \in Range(rows) : \A i \in InChat(active) : j <= i /\ i <= top => i \in Range(rows)

TextsInv == HomeInv /\ OnceInv /\ KeptInv

ConversationInv == ListsInv /\ TextsInv /\ LandingInv /\ BubblesInv /\ RowsInv

----------------------------------------------------------------------------
Less == {p \in Nat \X Nat : p[1] < p[2]}

(* The numbers are well founded under <. *)
LEMMA LessIsWellFounded == IsWellFoundedOn(Less, Nat)
BY NatLessThanWellFounded, Zenon DEF OpToRel, Less

(* Induction over a set of numbers. *)
LEMMA NumbersByInduction ==
    ASSUME NEW S \in SUBSET Nat, 0 \in S, \A n \in S : n + 1 \in S
    PROVE  S = Nat
<1> SUFFICES ASSUME Nat \ S # {} PROVE FALSE
  OBVIOUS
<1>1. PICK x \in Nat \ S : \A y \in Nat \ S : ~(<<y, x>> \in Less)
  <2>1. Nat \ S \subseteq Nat
    OBVIOUS
  <2> QED BY <2>1, LessIsWellFounded, WFMin
<1>2. x # 0 /\ x - 1 \in Nat /\ <<x - 1, x>> \in Less
  BY DEF Less
<1> QED BY <1>1, <1>2

----------------------------------------------------------------------------
(* Filtering a list.                                                       *)

(* The empty list has no item. *)
LEMMA RangeOfNothing == Range(<<>>) = {}
BY DEF Range

(* What a list and one item more hold. *)
LEMMA RangeAppend ==
    ASSUME NEW T, NEW s \in Seq(T), NEW e \in T
    PROVE  /\ Append(s, e) \in Seq(T) /\ Range(Append(s, e)) = Range(s) \cup {e}
           /\ Once(s) /\ e \notin Range(s) => Once(Append(s, e))
<1>1. PICK a : a = Append(s, e)
  OBVIOUS
<1>2. /\ a \in Seq(T) /\ Len(a) = Len(s) + 1 /\ a[Len(s) + 1] = e
      /\ \A i \in 1..Len(s) : a[i] = s[i]
  BY <1>1, AppendProperties
<1>3. DOMAIN s = 1..Len(s) /\ DOMAIN a = 1..(Len(s) + 1) /\ Len(s) \in Nat
  BY <1>2, LenProperties
<1>4. Range(a) = Range(s) \cup {e}
  <2>1. ASSUME NEW x \in Range(a) PROVE x \in Range(s) \cup {e}
    BY <1>2, <1>3 DEF Range
  <2>2. ASSUME NEW x \in Range(s) PROVE x \in Range(a)
    <3>1. PICK i \in 1..Len(s) : x = s[i]
      BY <1>3 DEF Range
    <3>2. i \in DOMAIN a /\ a[i] = x
      BY <1>2, <1>3, <3>1
    <3> QED BY <3>2 DEF Range
  <2>3. e \in Range(a)
    <3>1. Len(s) + 1 \in DOMAIN a
      BY <1>3
    <3> QED BY <1>2, <3>1 DEF Range
  <2> QED BY <2>1, <2>2, <2>3
<1>5. Once(s) /\ e \notin Range(s) => Once(a)
  <2> SUFFICES ASSUME Once(s), e \notin Range(s), NEW k \in 1..(Len(s) + 1), NEW l \in 1..(Len(s) + 1),
                      a[k] = a[l]
               PROVE  k = l
    BY <1>3 DEF Once
  <2>1. \A i \in 1..Len(s) : a[i] = s[i] /\ s[i] # e
    BY <1>2, <1>3 DEF Range
  <2>2. CASE k \in 1..Len(s) /\ l \in 1..Len(s)
    BY <1>3, <2>1, <2>2 DEF Once
  <2>3. CASE k = Len(s) + 1 \/ l = Len(s) + 1
    BY <1>2, <1>3, <2>1, <2>3
  <2> QED BY <1>3, <2>2, <2>3
<1> QED BY <1>1, <1>2, <1>4, <1>5

(* A list without its first item. *)
LEMMA RangeTail ==
    ASSUME NEW T, NEW s \in Seq(T), s # <<>>
    PROVE  Tail(s) \in Seq(T) /\ Range(Tail(s)) \subseteq Range(s) /\ s[1] \in Range(s)
<1>1. PICK t : t = Tail(s)
  OBVIOUS
<1>2. t \in Seq(T) /\ Len(t) = Len(s) - 1 /\ \A i \in 1..Len(t) : t[i] = s[i + 1]
  BY <1>1, HeadTailProperties
<1>3. DOMAIN s = 1..Len(s) /\ DOMAIN t = 1..Len(t) /\ Len(s) \in Nat \ {0} /\ Len(t) \in Nat
  BY <1>2, LenProperties, EmptySeq
<1>4. ASSUME NEW x \in Range(t) PROVE x \in Range(s)
  <2>1. PICK i \in 1..Len(t) : x = t[i]
    BY <1>3 DEF Range
  <2>2. x = s[i + 1] /\ i + 1 \in DOMAIN s
    BY <1>2, <1>3, <2>1
  <2> QED BY <2>2 DEF Range
<1>5. s[1] \in Range(s)
  <2>1. 1 \in DOMAIN s
    BY <1>3
  <2> QED BY <2>1 DEF Range
<1> QED BY <1>1, <1>2, <1>4, <1>5

(* The items of two lists joined, by index. *)
LEMMA ConcatAt ==
    ASSUME NEW T, NEW s \in Seq(T), NEW t \in Seq(T), NEW a, a = s \o t
    PROVE  /\ a \in Seq(T) /\ Len(a) = Len(s) + Len(t)
           /\ \A i \in 1..(Len(s) + Len(t)) : a[i] = IF i <= Len(s) THEN s[i] ELSE t[i - Len(s)]
BY ConcatProperties

(* Two lists joined hold what both hold, and nothing twice if they are disjoint. *)
LEMMA RangeConcat ==
    ASSUME NEW T, NEW s \in Seq(T), NEW t \in Seq(T)
    PROVE  /\ s \o t \in Seq(T) /\ Range(s \o t) = Range(s) \cup Range(t)
           /\ Once(s) /\ Once(t) /\ Range(s) \cap Range(t) = {} => Once(s \o t)
<1>1. PICK a : a = s \o t
  OBVIOUS
<1>2. /\ a \in Seq(T) /\ Len(a) = Len(s) + Len(t)
      /\ \A i \in 1..(Len(s) + Len(t)) : a[i] = IF i <= Len(s) THEN s[i] ELSE t[i - Len(s)]
  BY <1>1, ConcatAt
<1>3. /\ DOMAIN s = 1..Len(s) /\ DOMAIN t = 1..Len(t) /\ DOMAIN a = 1..(Len(s) + Len(t))
      /\ Len(s) \in Nat /\ Len(t) \in Nat
  BY <1>2, LenProperties
<1>4. \A i \in 1..Len(s) : i \in DOMAIN a /\ a[i] = s[i] /\ s[i] \in Range(s)
  BY <1>2, <1>3 DEF Range
<1>5. \A i \in 1..Len(t) : Len(s) + i \in DOMAIN a /\ a[Len(s) + i] = t[i] /\ t[i] \in Range(t)
  <2> TAKE i \in 1..Len(t)
  <2>1. Len(s) + i \in 1..(Len(s) + Len(t)) /\ ~(Len(s) + i <= Len(s)) /\ (Len(s) + i) - Len(s) = i
    BY <1>3
  <2>2. t[i] \in Range(t)
    BY <1>3 DEF Range
  <2> QED BY <1>2, <1>3, <2>1, <2>2
<1>6. \A i \in DOMAIN a : i \in 1..Len(s) \/ i - Len(s) \in 1..Len(t)
  BY <1>3
<1>7. Range(a) = Range(s) \cup Range(t)
  <2>1. ASSUME NEW x \in Range(a) PROVE x \in Range(s) \cup Range(t)
    <3>1. PICK i \in DOMAIN a : x = a[i]
      BY DEF Range
    <3>2. CASE i \in 1..Len(s)
      BY <1>4, <3>1, <3>2
    <3>3. CASE i - Len(s) \in 1..Len(t)
      <4>1. a[Len(s) + (i - Len(s))] = t[i - Len(s)] /\ Len(s) + (i - Len(s)) = i
        BY <1>3, <1>5, <3>3
      <4> QED BY <1>5, <3>1, <3>3, <4>1
    <3> QED BY <1>6, <3>2, <3>3
  <2>2. ASSUME NEW x \in Range(s) PROVE x \in Range(a)
    BY <1>3, <1>4 DEF Range
  <2>3. ASSUME NEW x \in Range(t) PROVE x \in Range(a)
    <3>1. PICK i \in 1..Len(t) : x = t[i]
      BY <1>3 DEF Range
    <3>2. Len(s) + i \in DOMAIN a /\ a[Len(s) + i] = x
      BY <1>5, <3>1
    <3> QED BY <3>2 DEF Range
  <2> QED BY <2>1, <2>2, <2>3
<1>8. Once(s) /\ Once(t) /\ Range(s) \cap Range(t) = {} => Once(a)
  <2> SUFFICES ASSUME Once(s), Once(t), Range(s) \cap Range(t) = {},
                      NEW k \in DOMAIN a, NEW l \in DOMAIN a, a[k] = a[l]
               PROVE  k = l
    BY DEF Once
  <2>0. \A i \in DOMAIN a : i - Len(s) \in 1..Len(t) => a[i] = t[i - Len(s)] /\ a[i] \in Range(t)
    <3> TAKE i \in DOMAIN a
    <3> HAVE i - Len(s) \in 1..Len(t)
    <3>1. Len(s) + (i - Len(s)) = i
      BY <1>3
    <3> QED BY <1>5, <3>1
  <2>1. CASE k \in 1..Len(s) /\ l \in 1..Len(s)
    BY <1>3, <1>4, <2>1 DEF Once
  <2>2. CASE k - Len(s) \in 1..Len(t) /\ l - Len(s) \in 1..Len(t)
    <3>1. k - Len(s) = l - Len(s)
      BY <1>3, <2>0, <2>2 DEF Once
    <3> QED BY <1>3, <3>1
  <2>3. CASE k \in 1..Len(s) /\ l - Len(s) \in 1..Len(t)
    BY <1>4, <2>0, <2>3
  <2>4. CASE l \in 1..Len(s) /\ k - Len(s) \in 1..Len(t)
    BY <1>4, <2>0, <2>4
  <2> QED BY <1>6, <2>1, <2>2, <2>3, <2>4
<1> QED BY <1>1, <1>2, <1>7, <1>8

(* What has been kept of the first k items. *)
Kept(s, D, k, f) ==
    f = [j \in 0..k |-> IF j = 0 THEN <<>> ELSE IF s[j] \in D THEN f[j - 1] ELSE Append(f[j - 1], s[j])]

(* The loop of Dropping can be run for any number of items. *)
LEMMA KeptExists ==
    ASSUME NEW s, NEW D, NEW k \in Nat
    PROVE  \E f : Kept(s, D, k, f)
<1> DEFINE S == {n \in Nat : \E f : Kept(s, D, n, f)}
<1>1. 0 \in S
  <2>1. PICK f : f = [j \in 0..0 |-> <<>>]
    OBVIOUS
  <2>2. Kept(s, D, 0, f)
    BY <2>1 DEF Kept
  <2> QED BY <2>2
<1>2. ASSUME NEW n \in S PROVE n + 1 \in S
  <2>1. PICK f : Kept(s, D, n, f)
    OBVIOUS
  <2>2. PICK last : last = IF s[n + 1] \in D THEN f[n] ELSE Append(f[n], s[n + 1])
    OBVIOUS
  <2>3. PICK g : g = [j \in 0..(n + 1) |-> IF j = n + 1 THEN last ELSE f[j]]
    OBVIOUS
  <2>4. \A j \in 0..n : g[j] = f[j]
    BY <2>3
  <2>5. \A j \in 0..n : f[j] = IF j = 0 THEN <<>> ELSE IF s[j] \in D THEN f[j - 1] ELSE Append(f[j - 1], s[j])
    BY <2>1 DEF Kept
  <2>6. \A j \in 0..(n + 1) :
           g[j] = IF j = 0 THEN <<>> ELSE IF s[j] \in D THEN g[j - 1] ELSE Append(g[j - 1], s[j])
    <3> TAKE j \in 0..(n + 1)
    <3>1. CASE j = n + 1
      <4>1. g[j] = last /\ j - 1 = n /\ g[j - 1] = f[n] /\ j # 0
        BY <2>3, <2>4, <3>1
      <4> QED BY <2>2, <3>1, <4>1
    <3>2. CASE j # n + 1
      <4>1. j \in 0..n /\ (j # 0 => j - 1 \in 0..n)
        BY <3>2
      <4> QED BY <2>4, <2>5, <4>1
    <3> QED BY <3>1, <3>2
  <2>7. g = [j \in 0..(n + 1) |-> g[j]]
    BY <2>3
  <2>8. Kept(s, D, n + 1, g)
    BY <2>6, <2>7 DEF Kept
  <2> QED BY <2>8
<1> HIDE DEF S
<1>3. S = Nat
  BY <1>1, <1>2, NumbersByInduction DEF S
<1> QED BY <1>3 DEF S

(* Dropping takes the members of D out of a list, and nothing else. *)
LEMMA Dropped ==
    ASSUME NEW T, NEW s \in Seq(T), NEW D
    PROVE  /\ Dropping(s, D) \in Seq(T) /\ Range(Dropping(s, D)) = Range(s) \ D
           /\ Once(s) => Once(Dropping(s, D))
<1>1. PICK f : Kept(s, D, Len(s), f) /\ Dropping(s, D) = f[Len(s)]
  <2> DEFINE f == CHOOSE f : Kept(s, D, Len(s), f)
  <2>1. Kept(s, D, Len(s), f)
    BY KeptExists
  <2>2. Dropping(s, D) = f[Len(s)]
    BY DEF Dropping, Kept
  <2> QED BY <2>1, <2>2
<1> DEFINE S == {k \in Nat : k <= Len(s) =>
                    /\ f[k] \in Seq(T) /\ Range(f[k]) = {s[j] : j \in 1..k} \ D
                    /\ Once(s) => Once(f[k])}
<1>2. \A k \in 0..Len(s) : f[k] = IF k = 0 THEN <<>> ELSE IF s[k] \in D THEN f[k - 1] ELSE Append(f[k - 1], s[k])
  BY <1>1 DEF Kept
<1>3. 0 \in S
  <2>1. f[0] = <<>>
    BY <1>2
  <2>2. {s[j] : j \in 1..0} = {} /\ <<>> \in Seq(T) /\ Once(<<>>)
    BY DEF Once
  <2> QED BY <2>1, <2>2, RangeOfNothing
<1>4. ASSUME NEW k \in S PROVE k + 1 \in S
  <2> SUFFICES ASSUME k + 1 <= Len(s)
               PROVE  /\ f[k + 1] \in Seq(T) /\ Range(f[k + 1]) = {s[j] : j \in 1..(k + 1)} \ D
                      /\ Once(s) => Once(f[k + 1])
    OBVIOUS
  <2>1. f[k] \in Seq(T) /\ Range(f[k]) = {s[j] : j \in 1..k} \ D /\ s[k + 1] \in T /\ (Once(s) => Once(f[k]))
    OBVIOUS
  <2>0. k + 1 \in 0..Len(s) /\ (k + 1) - 1 = k /\ k + 1 # 0
    OBVIOUS
  <2>2. {s[j] : j \in 1..(k + 1)} = {s[j] : j \in 1..k} \cup {s[k + 1]}
    OBVIOUS
  <2>3. CASE s[k + 1] \in D
    <3>1. f[k + 1] = f[k]
      BY <1>2, <2>0, <2>3
    <3> QED BY <2>1, <2>2, <2>3, <3>1
  <2>4. CASE s[k + 1] \notin D
    <3>1. f[k + 1] = Append(f[k], s[k + 1])
      BY <1>2, <2>0, <2>4
    <3>2. /\ Append(f[k], s[k + 1]) \in Seq(T) /\ Range(Append(f[k], s[k + 1])) = Range(f[k]) \cup {s[k + 1]}
          /\ Once(f[k]) /\ s[k + 1] \notin Range(f[k]) => Once(Append(f[k], s[k + 1]))
      BY <2>1, RangeAppend
    <3>3. Once(s) => s[k + 1] \notin Range(f[k])
      <4>1. DOMAIN s = 1..Len(s) /\ Len(s) \in Nat
        BY LenProperties
      <4>2. Once(s) => \A j \in 1..k : s[j] # s[k + 1]
        BY <4>1, <2>0 DEF Once
      <4> QED BY <2>1, <4>2
    <3> QED BY <2>1, <2>2, <2>4, <3>1, <3>2, <3>3
  <2> QED BY <2>3, <2>4
<1> HIDE DEF S
<1>5. S = Nat
  BY <1>3, <1>4, NumbersByInduction DEF S
<1>6. Len(s) \in S
  BY <1>5
<1> QED BY <1>1, <1>6 DEF S, Range

----------------------------------------------------------------------------
(* Pages.                                                                  *)

Ascends(s) == \A i, j \in DOMAIN s : i < j => s[i] < s[j]

(* Any set of numbers up to n can be listed in ascending order. *)
LEMMA AscendingExists ==
    ASSUME NEW n \in Nat
    PROVE  \A S \in SUBSET (1..n) : \E k \in Nat : \E s \in [1..k -> S] : Ascends(s) /\ Range(s) = S
<1> DEFINE P == {m \in Nat : \A S \in SUBSET (1..m) :
                    \E k \in Nat : \E s \in [1..k -> S] : Ascends(s) /\ Range(s) = S}
<1>1. 0 \in P
  <2> SUFFICES ASSUME NEW S \in SUBSET (1..0)
               PROVE  \E k \in Nat : \E s \in [1..k -> S] : Ascends(s) /\ Range(s) = S
    OBVIOUS
  <2> DEFINE s == [i \in 1..0 |-> i]
  <2>1. S = {} /\ s \in [1..0 -> S]
    OBVIOUS
  <2>2. Ascends(s) /\ Range(s) = {}
    BY DEF Ascends, Range
  <2> HIDE DEF s
  <2> QED BY <2>1, <2>2
<1>2. ASSUME NEW m \in P PROVE m + 1 \in P
  <2> SUFFICES ASSUME NEW S \in SUBSET (1..(m + 1))
               PROVE  \E k \in Nat : \E s \in [1..k -> S] : Ascends(s) /\ Range(s) = S
    <3>1. m + 1 \in Nat
      OBVIOUS
    <3> QED BY <3>1, Zenon
  <2>0. \A R \in SUBSET (1..m) : \E k \in Nat : \E s \in [1..k -> R] : Ascends(s) /\ Range(s) = R
    BY <1>2, Zenon
  <2> HIDE DEF P
  <2>1. CASE m + 1 \notin S
    <3>1. S \in SUBSET (1..m)
      BY <2>1, m \in Nat DEF P
    <3> QED BY <2>0, <3>1
  <2>2. CASE m + 1 \in S
    <3> DEFINE R == S \ {m + 1}
    <3>0. R \in SUBSET (1..m) /\ m \in Nat
      BY DEF P
    <3>k. PICK k \in Nat : \E s \in [1..k -> R] : Ascends(s) /\ Range(s) = R
      BY <2>0, <3>0
    <3>1. PICK s \in [1..k -> R] : Ascends(s) /\ Range(s) = R
      BY <3>k
    <3>2. PICK t : t = [i \in 1..(k + 1) |-> IF i = k + 1 THEN m + 1 ELSE s[i]]
      OBVIOUS
    <3>r. \A x \in R : x \in 1..m /\ x < m + 1
      BY <3>0
    <3>s. \A i \in 1..k : s[i] \in R
      BY <3>1
    <3>t. \A i \in 1..k : t[i] = s[i]
      BY <3>2
    <3> HIDE DEF R
    <3>3. \A i \in 1..k : t[i] = s[i] /\ s[i] \in R /\ s[i] < m + 1
      BY <3>t, <3>r, <3>s
    <3> USE DEF R
    <3>4. t[k + 1] = m + 1 /\ DOMAIN t = 1..(k + 1) /\ \A i \in 1..(k + 1) : i \in 1..k \/ i = k + 1
      BY <3>2
    <3>5. t \in [1..(k + 1) -> S]
      BY <2>2, <3>2, <3>3, <3>4
    <3>6. Ascends(t)
      <4> SUFFICES ASSUME NEW i \in 1..(k + 1), NEW j \in 1..(k + 1), i < j PROVE t[i] < t[j]
        BY <3>4 DEF Ascends
      <4>1. i \in 1..k
        OBVIOUS
      <4>2. CASE j \in 1..k
        BY <3>1, <3>3, <4>1, <4>2 DEF Ascends
      <4>3. CASE j = k + 1
        BY <3>3, <3>4, <4>1, <4>3
      <4> QED BY <3>4, <4>2, <4>3
    <3>7. Range(t) = S
      <4>1. ASSUME NEW x \in Range(t) PROVE x \in S
        BY <3>4, <3>5 DEF Range
      <4>2. ASSUME NEW x \in S PROVE x \in Range(t)
        <5>1. CASE x = m + 1
          BY <3>4, <5>1 DEF Range
        <5>2. CASE x # m + 1
          <6>1. x \in Range(s)
            BY <3>1, <5>2
          <6>2. PICK i \in 1..k : s[i] = x
            BY <6>1 DEF Range
          <6>3. t[i] = x /\ i \in DOMAIN t
            BY <3>3, <3>4, <6>2
          <6> QED BY <6>3 DEF Range
        <5> QED BY <5>1, <5>2
      <4> QED BY <4>1, <4>2
    <3> HIDE DEF R
    <3> QED BY <3>5, <3>6, <3>7
  <2> QED BY <2>1, <2>2
<1> HIDE DEF P
<1>3. P = Nat
  BY <1>1, <1>2, NumbersByInduction DEF P
<1> QED BY <1>3 DEF P

(* Ascending lists a set of ids, each once. *)
LEMMA AscendingLists ==
    ASSUME NEW n \in Nat, NEW S \in SUBSET (1..n)
    PROVE  Ascending(S) \in Seq(Nat) /\ Range(Ascending(S)) = S /\ Once(Ascending(S))
<1>1. IsFiniteSet(S)
  BY FS_Interval, FS_Subset, 1 \in Int, n \in Int
<1>k. PICK k \in Nat : \E s \in [1..k -> S] : Ascends(s) /\ Range(s) = S
  BY AscendingExists
<1>2. PICK s \in [1..k -> S] : Ascends(s) /\ Range(s) = S
  BY <1>k
<1>3. ASSUME NEW m \in Nat, NEW t \in [1..m -> S], Ascends(t)
      PROVE  t \in Injection(1..m, S) /\ Once(t)
  <2>1. \A i, j \in 1..m : t[i] = t[j] => i = j
    <3> SUFFICES ASSUME NEW i \in 1..m, NEW j \in 1..m, t[i] = t[j], i # j PROVE FALSE
      OBVIOUS
    <3>0. t[i] \in S /\ t[j] \in S /\ S \subseteq Int
      OBVIOUS
    <3>1. t[i] \in Int /\ t[j] \in Int
      BY <3>0, Zenon
    <3>j. i < j \/ j < i
      OBVIOUS
    <3>2. t[i] < t[j] \/ t[j] < t[i]
      BY <1>3, <3>j DEF Ascends
    <3> QED BY <3>1, <3>2
  <2> QED BY <2>1 DEF Injection, IsInjective, Once
<1>4. s \in Bijection(1..k, S)
  BY <1>2, <1>3 DEF Bijection, Surjection, Injection, Range
<1>5. Cardinality(S) = k
  BY <1>4, FS_CountingElements DEF ExistsBijection
<1> DEFINE a == CHOOSE a \in [1..Cardinality(S) -> S] : \A i, j \in DOMAIN a : i < j => a[i] < a[j]
<1>6. a \in [1..k -> S] /\ Ascends(a)
  BY <1>2, <1>5 DEF Ascends
<1>7. Ascending(S) = a
  BY DEF Ascending
<1> HIDE DEF a
<1>8. a \in Injection(1..k, S) /\ Once(a)
  BY <1>3, <1>6
<1>9. a \in Surjection(1..k, S)
  <2>1. Cardinality(1..k) = k
    BY FS_Interval, 1 \in Int, k \in Int
  <2> QED BY <1>1, <1>5, <1>8, <2>1, FS_Injection
<1>10. Range(a) = S /\ a \in Seq(Nat)
  <2>1. Range(a) = S
    BY <1>6, <1>9 DEF Surjection, Range
  <2>2. S \subseteq Nat
    OBVIOUS
  <2>3. a \in [1..k -> Nat]
    BY <1>6, <2>2
  <2> QED BY <2>1, <2>3 DEF Seq
<1> QED BY <1>7, <1>8, <1>10

(* A page has, from any of its messages on, all there is before the cursor. *)
LEMMA PagesAreWhole ==
    ASSUME ListsInv, NEW c, NEW before \in Nat
    PROVE  /\ PageOf(c, before) \in Seq(Nat) /\ Once(PageOf(c, before))
           /\ Range(PageOf(c, before)) \subseteq {i \in InChat(c) : i < before}
           /\ \A j \in Range(PageOf(c, before)) : \A i \in InChat(c) :
                 j <= i /\ i < before => i \in Range(PageOf(c, before))
<1> DEFINE After(i) == {j \in InChat(c) : i < j /\ j < before}
           S == {i \in InChat(c) : i < before /\ Cardinality(After(i)) < PageSize}
<1>1. DOMAIN server = 1..Len(server) /\ Len(server) \in Nat /\ PageSize \in Nat
  BY LenProperties, ConversationAssumption DEF ListsInv
<1>2. InChat(c) \subseteq 1..Len(server)
  BY <1>1 DEF InChat
<1>3. PageOf(c, before) = Ascending(S) /\ S \in SUBSET (1..Len(server))
  BY <1>2 DEF PageOf
<1>4. PageOf(c, before) \in Seq(Nat) /\ Range(PageOf(c, before)) = S /\ Once(PageOf(c, before))
  BY <1>1, <1>3, AscendingLists
<1>5. ASSUME NEW j \in S, NEW i \in InChat(c), j <= i, i < before
      PROVE  i \in S
  <2>1. After(i) \subseteq After(j)
    BY <1>1, <1>2, <1>5
  <2>2. IsFiniteSet(1..Len(server)) /\ After(j) \subseteq 1..Len(server)
    BY <1>1, <1>2, FS_Interval, 1 \in Int, Len(server) \in Int
  <2>3. IsFiniteSet(After(j))
    BY <2>2, FS_Subset
  <2>4. Cardinality(After(i)) <= Cardinality(After(j)) /\ IsFiniteSet(After(i))
    BY <2>1, <2>3, FS_Subset
  <2>5. Cardinality(After(i)) \in Nat /\ Cardinality(After(j)) \in Nat
    BY <2>3, <2>4, FS_CardinalityType
  <2>6. Cardinality(After(j)) < PageSize
    OBVIOUS
  <2>7. Cardinality(After(i)) < PageSize
    BY <1>1, <2>4, <2>5, <2>6
  <2> QED BY <1>5, <2>7
<1> HIDE DEF After
<1> QED BY <1>4, <1>5

----------------------------------------------------------------------------
(* What lasts while the server moves on.                                   *)

ServerGrows ==
    /\ DOMAIN server \subseteq DOMAIN server' /\ DOMAIN server' \subseteq Nat /\ gone \subseteq gone'
    /\ \A i \in DOMAIN server : server'[i] = server[i]
    /\ \A i \in DOMAIN server' \ DOMAIN server : \A j \in DOMAIN server : j < i

(* A request stays sound while the server grows and no chat is opened, or when one is. *)
LEMMA TaskKept ==
    ASSUME ListsInv, ServerGrows, (opens' = opens /\ active' = active) \/ opens' = opens + 1,
           NEW t \in tasks, TaskInv(t)
    PROVE  TaskInv(t)'
<1>1. IsPage(t)'
  <2>1. \A i \in Range(t.page) : i \in DOMAIN server /\ server[i].chat = t.chat /\ (t.kind = "older" => i < t.id)
    BY DEF TaskInv, IsPage
  <2>2. \A i \in Range(t.page) : i \in DOMAIN server' /\ server'[i].chat = t.chat
    BY <2>1 DEF ServerGrows
  <2>3. ASSUME NEW j \in Range(t.page), NEW i \in InChat(t.chat)', j <= i,
               (t.kind = "older" /\ i < t.id) \/ \E k \in Range(t.page) : i <= k
        PROVE  i \in Range(t.page)
    <3>0. DOMAIN server = 1..Len(server) /\ DOMAIN server' \subseteq DOMAIN server' /\ Len(server) \in Nat
      BY LenProperties DEF ListsInv
    <3>1. i \in DOMAIN server' \ gone' /\ server'[i].chat = t.chat
      BY <2>3 DEF InChat
    <3>2. i \in DOMAIN server
      <4>1. CASE t.kind = "older" /\ i < t.id
        <5>1. t.id \in DOMAIN server
          BY <4>1 DEF TaskInv
        <5>2. t.id \in Nat /\ (i \notin DOMAIN server => t.id < i)
          BY <3>0, <3>1, <5>1 DEF ServerGrows
        <5>3. i \in Nat
          BY <3>1 DEF ServerGrows
        <5> QED BY <4>1, <5>2, <5>3
      <4>2. CASE \E k \in Range(t.page) : i <= k
        <5>1. PICK k \in Range(t.page) : i <= k
          BY <4>2
        <5>2. k \in DOMAIN server /\ k \in Nat /\ i \in Nat /\ (i \notin DOMAIN server => k < i)
          BY <2>1, <3>0, <3>1, <5>1 DEF ServerGrows
        <5> QED BY <5>1, <5>2
      <4> QED BY <2>3, <4>1, <4>2
    <3>3. i \in InChat(t.chat)
      BY <3>1, <3>2 DEF InChat, ServerGrows
    <3> QED BY <2>3, <3>3 DEF TaskInv, IsPage
  <2> QED BY <2>1, <2>2, <2>3 DEF TaskInv, IsPage
<1>2. t.opening <= opens' /\ (~Late(t)' => ~Late(t) /\ active' = active)
  <2>1. opens \in Nat /\ t.opening \in Nat /\ t.opening <= opens
    BY DEF ListsInv, Task, TaskInv
  <2> QED BY <2>1 DEF Late
<1>3. t.kind \in {"open", "older"} /\ ~Late(t)' => t.chat = active'
  BY <1>2 DEF TaskInv
<1>4. /\ t.kind \in {"older", "delete"} => t.id \in DOMAIN server'
      /\ t.kind = "incoming" \/ (t.kind = "send" /\ t.answered) =>
            t.id \in DOMAIN server' /\ server'[t.id].chat = t.chat
      /\ t.kind = "delete" /\ t.answered => t.id \in gone'
  BY DEF TaskInv, ServerGrows
<1> QED BY <1>1, <1>2, <1>3, <1>4 DEF TaskInv

(* So does all that is still to land, if what is new is sound. *)
LEMMA LandingKept ==
    ASSUME ListsInv, LandingInv, ServerGrows, (opens' = opens /\ active' = active) \/ opens' = opens + 1,
           \A t \in tasks' \ tasks : TaskInv(t)',
           \A e \in Range(events') \ Range(events) : EventInv(e)'
    PROVE  LandingInv'
<1>1. ASSUME NEW t \in tasks' PROVE TaskInv(t)'
  <2>1. CASE t \in tasks
    BY <2>1, TaskKept DEF LandingInv
  <2> QED BY <2>1
<1>2. ASSUME NEW e \in Range(events') PROVE EventInv(e)'
  <2>1. CASE e \in Range(events)
    BY <2>1 DEF LandingInv, EventInv, ServerGrows
  <2> QED BY <2>1
<1>3. \A e \in Range(events)' : EventInv(e)'
  BY <1>2 DEF Range
<1> QED BY <1>1, <1>3 DEF LandingInv

(* Rows the step leaves alone stay sound while the server grows. *)
LEMMA RowsKept ==
    ASSUME ListsInv, RowsInv, ServerGrows, UNCHANGED <<rows, active, crossed, top>>
    PROVE  RowsInv'
<1>1. CASE crossed
  BY <1>1 DEF RowsInv
<1>2. CASE ~crossed
  <2>0. DOMAIN server = 1..Len(server) /\ Len(server) \in Nat /\ Range(rows) \subseteq DOMAIN server
        /\ top \in {0} \cup DOMAIN server
    BY LenProperties DEF ListsInv
  <2>1. \A i \in Range(rows) : server'[i].chat = active
    BY <1>2, <2>0 DEF RowsInv, ServerGrows
  <2>2. ASSUME NEW j \in Range(rows), NEW i \in InChat(active)', j <= i, i <= top
        PROVE  i \in Range(rows)
    <3>1. i \in DOMAIN server' \ gone' /\ server'[i].chat = active
      BY <2>2 DEF InChat
    <3>2. j \in DOMAIN server /\ j \in Nat /\ j >= 1
      BY <2>0
    <3>3. i \in DOMAIN server
      <4> SUFFICES ASSUME i \notin DOMAIN server PROVE FALSE
        OBVIOUS
      <4>1. i \in Nat /\ \A m \in DOMAIN server : m < i
        BY <3>1 DEF ServerGrows
      <4>2. CASE top \in DOMAIN server
        BY <2>0, <2>2, <4>1, <4>2
      <4>3. CASE top = 0
        BY <2>0, <2>2, <3>2, <4>1, <4>3
      <4> QED BY <2>0, <4>2, <4>3
    <3>4. i \in InChat(active)
      BY <3>1, <3>3 DEF InChat, ServerGrows
    <3> QED BY <1>2, <2>2, <3>4 DEF RowsInv
  <2> QED BY <1>2, <2>1, <2>2 DEF RowsInv, InChat, Once, Range
<1> QED BY <1>1, <1>2

(* A step that writes and posts nothing. *)
LEMMA TextsKept ==
    ASSUME TextsInv, UNCHANGED <<server, pending, texts, active, abandoned, unheard>>, Sends' = Sends
    PROVE  TextsInv'
<1>1. \A n : Posted(n)' = Posted(n) /\ (FailedBubble(n)' <=> FailedBubble(n))
  BY DEF Posted, FailedBubble, Bubble, Range
<1>2. HomeInv'
  BY <1>1 DEF TextsInv, HomeInv, Range
<1>3. OnceInv'
  BY <1>1 DEF TextsInv, OnceInv
<1>4. KeptInv'
  BY <1>1 DEF TextsInv, KeptInv, Range
<1> QED BY <1>2, <1>3, <1>4 DEF TextsInv

Event == [kind : {"new_message", "message_deleted"}, id : Nat]

TasksStep == tasks' \subseteq Task /\ Sends' = Sends /\ \A t \in tasks' \ tasks : TaskInv(t)'

EventsStep == events' \in Seq(Event) /\ \A e \in Range(events') \ Range(events) : EventInv(e)'

RowsStep ==
    /\ rows' \in Seq(Nat) /\ Range(rows') \subseteq DOMAIN server
    /\ crossed' \in BOOLEAN /\ top' \in {0} \cup DOMAIN server /\ RowsInv'

(* A step that writes neither texts nor messages: its part in tasks, events and rows is all. *)
LEMMA NothingWritten ==
    ASSUME ConversationInv, UNCHANGED <<server, pending, texts, abandoned, unheard, opens, active>>,
           gone \subseteq gone', gone' \subseteq DOMAIN server, editing' \in Nat,
           TasksStep, EventsStep, RowsStep
    PROVE  ConversationInv'
<1>0. DOMAIN server \subseteq Nat
  BY LenProperties DEF ConversationInv, ListsInv
<1>1. ServerGrows
  BY <1>0 DEF ServerGrows
<1>2. ListsInv'
  BY DEF ConversationInv, ListsInv, Event, Range, TasksStep, EventsStep, RowsStep
<1>3. TextsInv'
  BY TextsKept DEF ConversationInv, TasksStep
<1>4. LandingInv'
  BY <1>1, LandingKept DEF ConversationInv, TasksStep, EventsStep
<1>5. BubblesInv'
  BY DEF ConversationInv, BubblesInv, Once, Range
<1> QED BY <1>2, <1>3, <1>4, <1>5 DEF ConversationInv, RowsStep

(* A step that leaves the rows alone. *)
LEMMA ScreenKept ==
    ASSUME ConversationInv, UNCHANGED <<server, rows, active, crossed, top>>, gone \subseteq gone'
    PROVE  RowsStep
<1>0. DOMAIN server \subseteq Nat
  BY LenProperties DEF ConversationInv, ListsInv
<1>1. ServerGrows
  BY <1>0 DEF ServerGrows
<1>2. RowsInv'
  BY <1>1, RowsKept DEF ConversationInv
<1> QED BY <1>2 DEF ConversationInv, ListsInv, Range, RowsStep

(* A request starts without a page. *)
LEMMA RequestStarts ==
    ASSUME ListsInv, NEW k \in Kinds, NEW c \in Chats \cup {NoChat}, NEW i \in Nat
    PROVE  /\ Request(k, c, i) \in Task
           /\ Request(k, c, i).kind = k /\ Request(k, c, i).chat = c /\ Request(k, c, i).id = i
           /\ Request(k, c, i).page = <<>> /\ ~Request(k, c, i).answered
           /\ Request(k, c, i).opening = opens
<1>1. <<>> \in Seq(Nat) /\ opens \in Nat
  BY DEF ListsInv
<1> QED BY <1>1 DEF Request, Task

(* A request without its answer has no page. *)
LEMMA NoPage == ASSUME NEW t, t.page = <<>> PROVE IsPage(t)'
BY RangeOfNothing DEF IsPage, Once

----------------------------------------------------------------------------
(* Steps that write nothing.                                               *)

(* A step may leave the requests alone, *)
LEMMA TasksStay == ASSUME ListsInv, UNCHANGED tasks PROVE TasksStep
BY DEF TasksStep, ListsInv, Sends

(* end one that is not a send, *)
LEMMA TaskGone == ASSUME ListsInv, NEW t \in tasks, t.kind # "send", Landed(t) PROVE TasksStep
<1>1. Sends' = Sends
  BY DEF Sends, Landed
<1> QED BY <1>1 DEF TasksStep, ListsInv, Landed

(* start one, *)
LEMMA TaskAsked ==
    ASSUME ListsInv, NEW u \in Task, u.kind # "send", TaskInv(u)', Ask(tasks, u)
    PROVE  TasksStep
<1>1. Sends' = Sends
  BY DEF Sends, Ask
<1> QED BY <1>1 DEF TasksStep, ListsInv, Ask

(* or answer one. *)
LEMMA TaskAnswered ==
    ASSUME ListsInv, NEW t \in tasks, t.kind # "send", NEW u \in Task, u.kind # "send", TaskInv(u)',
           tasks' = (tasks \ {t}) \cup {u}
    PROVE  TasksStep
<1>1. Sends' = Sends
  BY DEF Sends
<1> QED BY <1>1 DEF TasksStep, ListsInv

(* It may leave the events alone, *)
LEMMA EventsStay == ASSUME ListsInv, UNCHANGED events PROVE EventsStep
BY DEF EventsStep, ListsInv, Event, Range

(* take the first, *)
LEMMA EventsTaken ==
    ASSUME ListsInv, LandingInv, NEW k, NextEvent(k)
    PROVE  EventsStep /\ events[1].kind = k /\ events[1] \in Event /\ EventInv(events[1])
<1>1. events # <<>> /\ events[1].kind = k /\ events' = Tail(events) /\ events \in Seq(Event)
  BY DEF NextEvent, ListsInv, Event
<1>2. events' \in Seq(Event) /\ Range(events') \subseteq Range(events) /\ events[1] \in Range(events)
  BY <1>1, RangeTail
<1>3. events[1] \in Event
  <2>1. Len(events) \in Nat \ {0}
    BY <1>1, LenProperties, EmptySeq
  <2> QED BY <1>1, <2>1, ElementOfSeq
<1> QED BY <1>1, <1>2, <1>3 DEF EventsStep, LandingInv

(* or publish one of a message the server has. *)
LEMMA EventsPublished ==
    ASSUME ListsInv, NEW k \in {"new_message", "message_deleted"}, NEW i \in Nat, Published(k, i),
           i \in DOMAIN server', k = "message_deleted" => i \in gone'
    PROVE  EventsStep
<1> DEFINE e == [kind |-> k, id |-> i]
<1>1. e \in Event /\ events \in Seq(Event) /\ events' = Append(events, e)
  BY DEF Event, ListsInv, Published
<1>2. EventInv(e)'
  BY DEF EventInv
<1> HIDE DEF e
<1>3. events' \in Seq(Event) /\ Range(events') = Range(events) \cup {e}
  BY <1>1, RangeAppend
<1> QED BY <1>2, <1>3 DEF EventsStep

(* appendDecrypted *)
LEMMA ShowKeeps ==
    ASSUME ConversationInv, UNCHANGED <<server, gone>>, NEW t \in tasks, Show(t),
           t.id \in DOMAIN server, server[t.id].chat = t.chat
    PROVE  RowsStep
<1>0. /\ rows \in Seq(Nat) /\ Range(rows) \subseteq DOMAIN server /\ t.id \in Nat /\ DOMAIN server \subseteq Nat
      /\ crossed \in BOOLEAN /\ top \in {0} \cup DOMAIN server
  BY LenProperties DEF ConversationInv, ListsInv, Task
<1>1. UNCHANGED <<active, top>> /\ rows' = Appended(t.id) /\ crossed' = (crossed \/ Misplaced(t))
  BY DEF Show
<1>2. /\ rows' \in Seq(Nat) /\ Range(rows') = Range(rows) \cup {t.id}
      /\ Once(rows) => Once(rows')
  <2>1. CASE t.id \in Range(rows)
    BY <1>0, <1>1, <2>1 DEF Appended
  <2>2. CASE t.id \notin Range(rows)
    BY <1>0, <1>1, <2>2, RangeAppend DEF Appended
  <2> QED BY <2>1, <2>2
<1>3. crossed' \in BOOLEAN
  BY <1>1, Zenon
<1>4. RowsInv'
  <2> SUFFICES ASSUME ~crossed' PROVE RowsInv'
    BY DEF RowsInv
  <2>1. ~crossed /\ ~Misplaced(t)
    BY <1>1, Zenon
  <2>2. t.id \in Range(rows) \/ (t.chat = active /\ t.id >= top)
    BY <1>0, <2>1 DEF Misplaced
  <2>3. /\ Once(rows) /\ \A i \in Range(rows) : server[i].chat = active
        /\ \A j \in Range(rows) : \A i \in InChat(active) : j <= i /\ i <= top => i \in Range(rows)
    BY <2>1 DEF ConversationInv, RowsInv
  <2>4. \A i \in Range(rows') : server'[i].chat = active'
    BY <1>1, <1>2, <2>2, <2>3
  <2>5. ASSUME NEW j \in Range(rows'), NEW i \in InChat(active'), j <= i, i <= top'
        PROVE  i \in Range(rows')
    <3>1. i \in DOMAIN server /\ i \in Nat /\ top \in Nat
      BY <1>0 DEF InChat
    <3>2. CASE j \in Range(rows)
      BY <1>1, <1>2, <2>3, <2>5, <3>2
    <3>3. CASE j \notin Range(rows)
      <4>1. j = t.id /\ t.id >= top
        BY <1>2, <2>2, <3>3
      <4>2. i = t.id
        BY <1>0, <1>1, <2>5, <3>1, <4>1
      <4> QED BY <1>2, <4>2
    <3> QED BY <3>2, <3>3
  <2>6. InChat(active') = InChat(active)'
    BY DEF InChat
  <2>7. Range(rows)' = Range(rows') /\ Once(rows')
    BY <1>2, <2>3 DEF Range
  <2> QED BY <2>4, <2>5, <2>6, <2>7 DEF RowsInv, Once
<1> QED BY <1>0, <1>1, <1>2, <1>3, <1>4 DEF RowsStep

(* Dropping the row of a deleted message. *)
LEMMA DropKeeps ==
    ASSUME ConversationInv, UNCHANGED <<server, gone, active, crossed, top>>, NEW g \in gone, DropRow(g)
    PROVE  RowsStep
<1>0. /\ rows \in Seq(Nat) /\ Range(rows) \subseteq DOMAIN server
      /\ crossed \in BOOLEAN /\ top \in {0} \cup DOMAIN server
  BY DEF ConversationInv, ListsInv
<1>1. rows' \in Seq(Nat) /\ Range(rows') = Range(rows) \ {g} /\ (Once(rows) => Once(rows'))
  BY <1>0, Dropped DEF DropRow
<1>2. RowsInv'
  <2> SUFFICES ASSUME ~crossed PROVE RowsInv'
    BY DEF RowsInv
  <2>1. /\ Once(rows) /\ \A i \in Range(rows) : server[i].chat = active
        /\ \A j \in Range(rows) : \A i \in InChat(active) : j <= i /\ i <= top => i \in Range(rows)
    BY DEF ConversationInv, RowsInv
  <2>2. InChat(active)' = InChat(active) /\ g \notin InChat(active)
    BY DEF InChat
  <2>3. \A j \in Range(rows') : \A i \in InChat(active) : j <= i /\ i <= top => i \in Range(rows')
    BY <1>1, <2>1, <2>2
  <2>4. Range(rows)' = Range(rows') /\ Once(rows')
    BY <1>1, <2>1 DEF Range
  <2> QED BY <1>1, <2>1, <2>2, <2>3, <2>4 DEF RowsInv, Once
<1> QED BY <1>0, <1>1, <1>2 DEF RowsStep

(* The user moves about, edits and deletes. *)

(* What the reader asks for: older messages, an edit, a deletion. *)
LEMMA UserReads ==
    ASSUME ConversationInv,
           \/ LoadOlder \/ CancelCompose \/ SubmitEdit
           \/ \E i \in DOMAIN server : StartEdit(i) \/ AskDelete(i)
    PROVE  ConversationInv'
<1>0. /\ ListsInv /\ EventsStep /\ RowsStep /\ DOMAIN server \subseteq Nat /\ gone \subseteq DOMAIN server
      /\ UNCHANGED <<server, gone, pending, texts, abandoned, unheard, opens, active>>
  <2>1. /\ ListsInv /\ DOMAIN server \subseteq Nat /\ gone \subseteq DOMAIN server
    BY LenProperties DEF ConversationInv, ListsInv
  <2>2. UNCHANGED <<server, gone, events, pending, texts, abandoned, unheard, opens, rows, active, crossed, top>>
    BY DEF LoadOlder, CancelCompose, SubmitEdit, StartEdit, AskDelete, screen, writing
  <2> QED BY <2>1, <2>2, EventsStay, ScreenKept
<1>1. ASSUME NEW k \in {"older", "edit", "delete"}, NEW i \in Nat,
             k # "edit" => i \in DOMAIN server, Ask(tasks, Request(k, active, i))
      PROVE  TasksStep
  <2>1. PICK u : u = Request(k, active, i)
    OBVIOUS
  <2>2. /\ u \in Task /\ u.kind = k /\ u.id = i /\ u.chat = active /\ u.page = <<>> /\ ~u.answered
        /\ u.opening = opens
    <3>1. active \in Chats \cup {NoChat} /\ k \in Kinds
      BY <1>0 DEF ListsInv, Kinds
    <3> QED BY <1>0, <2>1, <3>1, RequestStarts
  <2>3. TaskInv(u)'
    BY <1>0, <1>1, <2>2, NoPage DEF TaskInv, Late, ListsInv
  <2> QED BY <1>0, <1>1, <2>1, <2>2, <2>3, TaskAsked
<1>2. CASE LoadOlder
  <2>1. rows[1] \in DOMAIN server
    <3>1. rows # <<>> /\ rows \in Seq(Nat) /\ Range(rows) \subseteq DOMAIN server
      BY <1>0, <1>2 DEF LoadOlder, ListsInv
    <3> QED BY <3>1, RangeTail
  <2>2. TasksStep
    BY <1>0, <1>1, <1>2, <2>1 DEF LoadOlder
  <2>3. editing' \in Nat
    BY <1>0, <1>2 DEF LoadOlder, ListsInv
  <2> QED BY <1>0, <2>2, <2>3, NothingWritten
<1>3. CASE CancelCompose
  <2>1. TasksStep
    BY <1>0, <1>3, TasksStay DEF CancelCompose
  <2> QED BY <1>0, <1>3, <2>1, NothingWritten DEF CancelCompose
<1>4. CASE SubmitEdit
  <2>1. TasksStep
    BY <1>0, <1>1, <1>4 DEF SubmitEdit, ListsInv
  <2> QED BY <1>0, <1>4, <2>1, NothingWritten DEF SubmitEdit
<1>5. CASE \E i \in DOMAIN server : StartEdit(i)
  <2>1. TasksStep
    BY <1>0, <1>5, TasksStay DEF StartEdit
  <2> QED BY <1>0, <1>5, <2>1, NothingWritten DEF StartEdit
<1>6. CASE \E i \in DOMAIN server : AskDelete(i)
  <2>1. TasksStep
    BY <1>0, <1>1, <1>6 DEF AskDelete
  <2>2. editing' \in Nat
    BY <1>0, <1>6 DEF AskDelete, ListsInv
  <2> QED BY <1>0, <2>1, <2>2, NothingWritten
<1> QED BY <1>2, <1>3, <1>4, <1>5, <1>6

(* get_chat_messages *)
LEMMA PageKeeps == ASSUME ConversationInv, NEW t \in tasks, Page(t) PROVE ConversationInv'
<1>0. /\ ListsInv /\ t \in Task /\ TaskInv(t) /\ t.kind \in {"open", "older"} /\ t.id \in Nat
      /\ UNCHANGED <<server, gone, events, pending, texts, abandoned, unheard, opens, rows, active, crossed,
                     top, editing>>
  BY DEF ConversationInv, LandingInv, ListsInv, Task, Page, screen, writing
<1>1. PICK u : u = [t EXCEPT !.answered = TRUE, !.page = PageOf(t.chat, t.id)]
  OBVIOUS
<1>2. /\ u.page \in Seq(Nat) /\ Once(u.page) /\ Range(u.page) \subseteq {i \in InChat(t.chat) : i < t.id}
      /\ \A j \in Range(u.page) : \A i \in InChat(t.chat) : j <= i /\ i < t.id => i \in Range(u.page)
      /\ u.kind = t.kind /\ u.chat = t.chat /\ u.id = t.id /\ u.opening = t.opening /\ u \in Task
  <2>1. PICK p : p = PageOf(t.chat, t.id)
    OBVIOUS
  <2>2. /\ p \in Seq(Nat) /\ Once(p) /\ Range(p) \subseteq {i \in InChat(t.chat) : i < t.id}
        /\ \A j \in Range(p) : \A i \in InChat(t.chat) : j <= i /\ i < t.id => i \in Range(p)
    BY <1>0, <2>1, PagesAreWhole
  <2>3. /\ u.page = p /\ u.kind = t.kind /\ u.chat = t.chat /\ u.id = t.id /\ u.opening = t.opening
        /\ u \in Task
    BY <1>0, <1>1, <2>1, <2>2 DEF Task
  <2> QED BY <2>2, <2>3
<1>3. IsPage(u)'
  <2>1. \A i \in Range(u.page) : i \in DOMAIN server /\ server[i].chat = t.chat /\ i < t.id
    BY <1>2 DEF InChat
  <2>2. ASSUME NEW j \in Range(u.page), NEW i \in InChat(t.chat), j <= i,
               (t.kind = "older" /\ i < t.id) \/ \E k \in Range(u.page) : i <= k
        PROVE  i \in Range(u.page)
    <3>1. \A k \in Range(u.page) : k < t.id /\ k \in Nat
      <4>1. DOMAIN server \subseteq Nat
        BY <1>0, LenProperties DEF ListsInv
      <4> QED BY <2>1, <4>1
    <3>2. i \in Nat
      BY <1>0, LenProperties DEF InChat, ListsInv
    <3>3. i < t.id
      BY <1>0, <2>2, <3>1, <3>2
    <3> QED BY <1>2, <2>2, <3>3
  <2>3. InChat(t.chat)' = InChat(t.chat)
    BY <1>0 DEF InChat
  <2> QED BY <1>0, <1>2, <2>1, <2>2, <2>3 DEF IsPage
<1>4. TaskInv(u)'
  BY <1>0, <1>2, <1>3 DEF TaskInv, Late
<1>5. TasksStep
  <2>1. tasks' = (tasks \ {t}) \cup {u}
    BY <1>1 DEF Page
  <2> QED BY <1>0, <1>2, <1>4, <2>1, TaskAnswered
<1>6. EventsStep /\ RowsStep
  BY <1>0, EventsStay, ScreenKept
<1> QED BY <1>0, <1>5, <1>6, NothingWritten DEF ListsInv

(* A message is deleted: its rows go when the tab is told. *)
LEMMA EraseKeeps ==
    ASSUME ConversationInv, NEW i \in DOMAIN server, Erase(i), TasksStep,
           UNCHANGED <<server, pending, texts, abandoned, unheard, opens, rows, active, crossed, top, editing>>
    PROVE  ConversationInv'
<1>1. /\ ListsInv /\ gone \subseteq DOMAIN server /\ i \in Nat /\ editing \in Nat
      /\ gone' = gone \cup {i} /\ Published("message_deleted", i)
  BY LenProperties DEF ConversationInv, ListsInv, Erase
<1>2. EventsStep /\ RowsStep
  BY <1>1, EventsPublished, ScreenKept
<1> QED BY <1>1, <1>2, NothingWritten

(* A message is deleted, by another tab or at the request of this one. *)
LEMMA DeletesKeep ==
    ASSUME ConversationInv,
           (\E i \in DOMAIN server : PeerDeletes(i)) \/ (\E t \in tasks : Delete(t))
    PROVE  ConversationInv'
<1>0. ListsInv /\ LandingInv /\ tasks \subseteq Task
  BY DEF ConversationInv, ListsInv
<1>1. CASE \E i \in DOMAIN server : PeerDeletes(i)
  <2>1. PICK i \in DOMAIN server : PeerDeletes(i)
    BY <1>1
  <2>2. TasksStep
    BY <1>0, <2>1, TasksStay DEF PeerDeletes
  <2> QED BY <2>1, <2>2, EraseKeeps DEF PeerDeletes, screen
<1>2. CASE \E t \in tasks : Delete(t)
  <2>1. PICK t \in tasks : Delete(t)
    BY <1>2
  <2>2. PICK u : u = [t EXCEPT !.answered = TRUE, !.id = t.id]
    OBVIOUS
  <2>3. /\ t \in Task /\ TaskInv(t) /\ t.kind = "delete" /\ t.id \in DOMAIN server /\ t.id \in gone'
        /\ UNCHANGED <<server, opens, active>> /\ tasks' = (tasks \ {t}) \cup {u}
    BY <1>0, <2>1, <2>2 DEF LandingInv, TaskInv, Delete, Erase, Answered, screen
  <2>4. /\ u \in Task /\ u.kind = "delete" /\ u.id = t.id /\ u.chat = t.chat /\ u.page = t.page
        /\ u.opening = t.opening
    BY <2>2, <2>3 DEF Task
  <2>5. IsPage(u)'
    <3>1. ServerGrows
      BY <1>0, <2>1, LenProperties DEF ServerGrows, Delete, Erase, ListsInv
    <3>2. IsPage(t)'
      BY <1>0, <2>3, <3>1, TaskKept DEF TaskInv
    <3> QED BY <2>3, <2>4, <3>2 DEF IsPage
  <2>6. TaskInv(u)'
    BY <2>3, <2>4, <2>5 DEF TaskInv, Late
  <2>7. TasksStep
    BY <1>0, <2>3, <2>4, <2>6, TaskAnswered
  <2> QED BY <2>1, <2>3, <2>7, EraseKeeps DEF Delete, screen, writing
<1> QED BY <1>1, <1>2

(* openChat: the page makes the screen. *)
LEMMA OpensLand ==
    ASSUME ConversationInv, NEW t \in tasks, OpenLands(t) \/ OpenFails(t)
    PROVE  ConversationInv'
<1>0. /\ ListsInv /\ t \in Task /\ TaskInv(t) /\ gone \subseteq DOMAIN server /\ editing' \in Nat
      /\ t.kind = "open" /\ Landed(t)
      /\ UNCHANGED <<server, gone, events, pending, texts, abandoned, unheard, opens, active>>
  BY DEF ConversationInv, LandingInv, ListsInv, OpenLands, OpenFails, writing
<1>1. TasksStep /\ EventsStep
  BY <1>0, TaskGone, EventsStay
<1>2. CASE OpenLands(t)
  <2>1. /\ rows' = t.page /\ crossed' = Late(t)
        /\ top' = IF t.page = <<>> THEN 0 ELSE Last(t.page)
    BY <1>2 DEF OpenLands
  <2>2. t.page \in Seq(Nat) /\ Once(t.page)
        /\ \A i \in Range(t.page) : i \in DOMAIN server /\ server[i].chat = t.chat
    BY <1>0 DEF Task, TaskInv, IsPage
  <2>3. t.page # <<>> => top' \in Range(t.page)
    <3> SUFFICES ASSUME t.page # <<>> PROVE top' \in Range(t.page)
      OBVIOUS
    <3>1. top' = t.page[Len(t.page)]
      BY <2>1 DEF Last
    <3>2. Len(t.page) \in DOMAIN t.page
      BY <2>2, LenProperties, EmptySeq
    <3> QED BY <3>1, <3>2 DEF Range
  <2>4. t.page = <<>> => Range(t.page) = {} /\ top' = 0
    BY <2>1, RangeOfNothing
  <2>5. RowsInv'
    <3> SUFFICES ASSUME ~crossed' PROVE RowsInv'
      BY DEF RowsInv
    <3>1. t.chat = active /\ InChat(active)' = InChat(active)
      BY <1>0, <2>1 DEF TaskInv, InChat
    <3>2. ASSUME NEW j \in Range(t.page), NEW i \in InChat(active), j <= i, i <= top'
          PROVE  i \in Range(t.page)
      BY <1>0, <2>3, <2>4, <3>1, <3>2 DEF TaskInv, IsPage
    <3>3. Range(rows)' = Range(t.page) /\ Once(rows)'
      BY <2>1, <2>2 DEF Range, Once
    <3> QED BY <1>0, <2>2, <3>1, <3>2, <3>3 DEF RowsInv
  <2>6. crossed' \in BOOLEAN
    BY <2>1, Zenon DEF Late
  <2>7. RowsStep
    BY <2>1, <2>2, <2>3, <2>4, <2>5, <2>6 DEF RowsStep
  <2> QED BY <1>0, <1>1, <2>7, NothingWritten
<1>3. CASE OpenFails(t)
  <2>1. rows' = <<>> /\ top' = 0 /\ UNCHANGED crossed /\ <<>> \in Seq(Nat)
    BY <1>3 DEF OpenFails
  <2>2. RowsInv'
    BY <2>1, RangeOfNothing DEF RowsInv, Once, Range
  <2>3. RowsStep
    BY <1>0, <2>1, <2>2, RangeOfNothing DEF RowsStep, ListsInv
  <2> QED BY <1>0, <1>1, <2>3, NothingWritten
<1> QED BY <1>2, <1>3

(* loadOlder: the page is joined to the rows it was asked for. *)
LEMMA OlderLandsKeeps ==
    ASSUME ConversationInv, NEW t \in tasks, OlderLands(t)
    PROVE  ConversationInv'
<1>0. /\ ListsInv /\ t \in Task /\ TaskInv(t) /\ gone \subseteq DOMAIN server /\ editing' \in Nat
      /\ t.kind = "older" /\ Landed(t) /\ DOMAIN server \subseteq Nat
      /\ UNCHANGED <<server, gone, events, pending, texts, abandoned, unheard, opens, active, top>>
      /\ top \in {0} \cup DOMAIN server
  BY LenProperties DEF ConversationInv, LandingInv, ListsInv, OlderLands, writing
<1>1. TasksStep /\ EventsStep
  BY <1>0, TaskGone, EventsStay
<1>2. rows' = t.page \o rows /\ crossed' = (crossed \/ ~Joins(t))
  BY DEF OlderLands
<1>3. /\ t.page \in Seq(Nat) /\ Once(t.page) /\ t.id \in DOMAIN server
      /\ \A i \in Range(t.page) : i \in DOMAIN server /\ server[i].chat = t.chat /\ i < t.id
      /\ \A j \in Range(t.page) : \A i \in InChat(t.chat) : j <= i /\ i < t.id => i \in Range(t.page)
  BY <1>0 DEF Task, TaskInv, IsPage
<1>4. /\ rows' \in Seq(Nat) /\ Range(rows') = Range(t.page) \cup Range(rows)
      /\ Once(rows) /\ Range(t.page) \cap Range(rows) = {} => Once(rows')
  BY <1>0, <1>2, <1>3, RangeConcat DEF ListsInv
<1>5. RowsInv'
  <2> SUFFICES ASSUME ~crossed' PROVE RowsInv'
    BY DEF RowsInv
  <2>1. ~crossed /\ Joins(t)
    BY <1>2, Zenon
  <2>2. t.chat = active /\ rows # <<>> /\ t.id = rows[1] /\ \A i \in Range(rows) : t.id <= i
    BY <1>0, <2>1 DEF TaskInv, Joins
  <2>3. /\ Once(rows) /\ \A i \in Range(rows) : server[i].chat = active
        /\ \A j \in Range(rows) : \A i \in InChat(active) : j <= i /\ i <= top => i \in Range(rows)
    BY <2>1 DEF ConversationInv, RowsInv
  <2>4. t.id \in Range(rows)
    BY <1>0, <2>2, RangeTail DEF ListsInv
  <2>5. Range(t.page) \cap Range(rows) = {} /\ Range(rows) \subseteq Nat
    <3>1. Range(rows) \subseteq DOMAIN server
      BY <1>0 DEF ListsInv
    <3>2. \A x \in Range(t.page) : x \in Nat /\ x < t.id /\ t.id \in Nat
      BY <1>0, <1>3
    <3>3. \A x \in Range(rows) : x \in Nat /\ t.id <= x
      BY <1>0, <2>2, <3>1
    <3> QED BY <3>2, <3>3
  <2>6. ASSUME NEW j \in Range(rows'), NEW i \in InChat(active), j <= i, i <= top
        PROVE  i \in Range(rows')
    <3>1. i \in Nat /\ t.id \in Nat /\ top \in Nat
      BY <1>0, <1>3 DEF InChat
    <3>2. CASE i < t.id
      <4>1. j \in Range(t.page)
        <5> SUFFICES ASSUME j \in Range(rows) PROVE FALSE
          BY <1>4
        <5>1. t.id <= j /\ j \in Nat
          BY <2>2, <2>5
        <5> QED BY <2>6, <3>1, <3>2, <5>1
      <4> QED BY <1>3, <1>4, <2>2, <2>6, <3>2, <4>1
    <3>3. CASE t.id <= i
      BY <1>4, <2>3, <2>4, <2>6, <3>3
    <3> QED BY <3>1, <3>2, <3>3
  <2>7. InChat(active)' = InChat(active) /\ Range(rows)' = Range(rows') /\ Once(rows')
    BY <1>0, <1>4, <2>3, <2>5 DEF InChat, Range
  <2>8. \A i \in Range(rows') : server[i].chat = active
    BY <1>3, <1>4, <2>2, <2>3
  <2> QED BY <1>0, <2>6, <2>7, <2>8 DEF RowsInv, Once
<1>6. crossed' \in BOOLEAN
  BY <1>2, Zenon
<1>7. RowsStep
  BY <1>0, <1>3, <1>4, <1>5, <1>6 DEF RowsStep, ListsInv
<1> QED BY <1>0, <1>1, <1>7, NothingWritten

(* The rest of what lands leaves the texts alone. *)
LEMMA OthersLand ==
    ASSUME ConversationInv, NEW t \in tasks,
           OlderFails(t) \/ EditSettles(t) \/ DeleteLands(t) \/ DeleteFails(t) \/ IncomingLands(t)
    PROVE  ConversationInv'
<1>0. /\ ListsInv /\ t \in Task /\ TaskInv(t) /\ gone \subseteq DOMAIN server /\ editing' \in Nat
      /\ t.kind # "send" /\ Landed(t)
      /\ UNCHANGED <<server, gone, events, pending, texts, abandoned, unheard, opens, active, top>>
  BY DEF ConversationInv, LandingInv, ListsInv, OlderFails, EditSettles, DeleteLands, DeleteFails,
         IncomingLands, Show, screen, writing
<1>1. TasksStep /\ EventsStep
  BY <1>0, TaskGone, EventsStay
<1>2. RowsStep
  <2>1. CASE OlderFails(t) \/ EditSettles(t) \/ DeleteFails(t)
    <3>1. UNCHANGED <<rows, crossed>>
      BY <2>1 DEF OlderFails, EditSettles, DeleteFails, screen
    <3> QED BY <1>0, <3>1, ScreenKept
  <2>2. CASE DeleteLands(t)
    <3>1. t.id \in gone /\ DropRow(t.id) /\ UNCHANGED crossed
      BY <1>0, <2>2 DEF TaskInv, DeleteLands
    <3> QED BY <1>0, <3>1, DropKeeps
  <2>3. CASE IncomingLands(t)
    <3>1. t.id \in DOMAIN server /\ server[t.id].chat = t.chat /\ Show(t)
      BY <1>0, <2>3 DEF TaskInv, IncomingLands
    <3> QED BY <1>0, <3>1, ShowKeeps
  <2> QED BY <2>1, <2>2, <2>3
<1> QED BY <1>0, <1>1, <1>2, NothingWritten

(* onIncomingMessage and the deletion event, and the time the socket is down. *)
LEMMA SocketKeeps ==
    ASSUME ConversationInv, OnIncoming \/ OnDeleted \/ EventsLost
    PROVE  ConversationInv'
<1>0. /\ ListsInv /\ LandingInv /\ gone \subseteq DOMAIN server /\ editing' \in Nat
      /\ UNCHANGED <<server, gone, pending, texts, abandoned, unheard, opens, active, crossed, top>>
      /\ server \in Seq([chat : Chats, text : Nat])
  BY DEF ConversationInv, ListsInv, OnIncoming, OnDeleted, EventsLost, screen, writing
<1>1. CASE OnIncoming
  <2>1. NextEvent("new_message") /\ UNCHANGED rows
    BY <1>1 DEF OnIncoming, screen
  <2>2. EventsStep /\ events[1].id \in DOMAIN server
    BY <1>0, <2>1, EventsTaken DEF EventInv
  <2> DEFINE i == events[1].id
  <2>3. i \in Nat /\ server[i].chat \in Chats
    <3>1. DOMAIN server = 1..Len(server) /\ Len(server) \in Nat
      BY <1>0, LenProperties
    <3>2. i \in 1..Len(server)
      BY <2>2, <3>1
    <3>3. server[i] \in [chat : Chats, text : Nat]
      BY <1>0, <3>2, ElementOfSeq
    <3> QED BY <3>1, <3>2, <3>3
  <2>4. TasksStep
    <3>1. CASE server[i].chat = active
      <4>1. PICK u : u = Request("incoming", active, i)
        OBVIOUS
      <4>2. /\ u \in Task /\ u.kind = "incoming" /\ u.id = i /\ u.chat = active /\ u.page = <<>>
            /\ u.opening = opens
        BY <1>0, <2>3, <3>1, <4>1, RequestStarts DEF Kinds
      <4>3. TaskInv(u)'
        BY <1>0, <2>2, <3>1, <4>2, NoPage DEF TaskInv, Late, ListsInv
      <4>4. Ask(tasks, u)
        BY <1>1, <3>1, <4>1 DEF OnIncoming
      <4> QED BY <1>0, <4>2, <4>3, <4>4, TaskAsked
    <3>2. CASE server[i].chat # active
      BY <1>0, <1>1, <3>2, TasksStay DEF OnIncoming
    <3> QED BY <3>1, <3>2
  <2>5. RowsStep
    BY <1>0, <2>1, ScreenKept
  <2> QED BY <1>0, <2>2, <2>4, <2>5, NothingWritten
<1>2. CASE OnDeleted
  <2>1. NextEvent("message_deleted") /\ DropRow(events[1].id) /\ UNCHANGED tasks
    BY <1>2 DEF OnDeleted
  <2>2. EventsStep /\ events[1].id \in gone
    BY <1>0, <2>1, EventsTaken DEF EventInv
  <2>3. RowsStep
    BY <1>0, <2>1, <2>2, DropKeeps
  <2> QED BY <1>0, <2>1, <2>2, <2>3, TasksStay, NothingWritten
<1>3. CASE EventsLost
  <2>1. events' = <<>> /\ UNCHANGED <<rows, tasks>>
    BY <1>3 DEF EventsLost, screen
  <2>2. EventsStep
    BY <2>1, RangeOfNothing DEF EventsStep
  <2>3. RowsStep
    BY <1>0, <2>1, ScreenKept
  <2> QED BY <1>0, <2>1, <2>2, <2>3, TasksStay, NothingWritten
<1> QED BY <1>1, <1>2, <1>3

----------------------------------------------------------------------------
(* Steps that write.                                                       *)

(* A message is stored, and no other changes. *)
LEMMA Stored ==
    ASSUME ListsInv, NEW c \in Chats, NEW n \in Nat, Store(c, n), UNCHANGED gone
    PROVE  /\ ServerGrows /\ EventsStep /\ gone' \subseteq DOMAIN server'
           /\ server' \in Seq([chat : Chats, text : Nat])
           /\ Len(server) + 1 \in DOMAIN server' /\ server'[Len(server) + 1] = [chat |-> c, text |-> n]
           /\ \A i \in DOMAIN server' : i \in DOMAIN server \/ i = Len(server) + 1
           /\ \A m : m # n => Posted(m)' = Posted(m)
           /\ Posted(n)' = Posted(n) \cup {Len(server) + 1}
<1> DEFINE e == [chat |-> c, text |-> n]
<1>1. /\ server \in Seq([chat : Chats, text : Nat]) /\ server' = Append(server, e)
      /\ e \in [chat : Chats, text : Nat] /\ gone \subseteq DOMAIN server
      /\ Published("new_message", Len(server) + 1)
  BY DEF ListsInv, Store
<1>2. /\ server' \in Seq([chat : Chats, text : Nat]) /\ Len(server') = Len(server) + 1
      /\ server'[Len(server) + 1] = e /\ \A i \in 1..Len(server) : server'[i] = server[i]
  BY <1>1, AppendProperties
<1>3. DOMAIN server = 1..Len(server) /\ DOMAIN server' = 1..(Len(server) + 1) /\ Len(server) \in Nat
  BY <1>1, <1>2, LenProperties
<1>4. e.text = n
  OBVIOUS
<1> HIDE DEF e
<1>5. ServerGrows /\ gone' \subseteq DOMAIN server'
  BY <1>1, <1>2, <1>3 DEF ServerGrows
<1>6. EventsStep
  BY <1>1, <1>3, EventsPublished
<1>7. \A m : Posted(m)' = IF m = n THEN Posted(m) \cup {Len(server) + 1} ELSE Posted(m)
  BY <1>2, <1>3, <1>4 DEF Posted
<1> QED BY <1>2, <1>3, <1>5, <1>6, <1>7 DEF e

(* Another member posts. *)
LEMMA PeerPostsKeeps == ASSUME ConversationInv, NEW c \in Chats, PeerPosts(c) PROVE ConversationInv'
<1>0. /\ ListsInv /\ TextsInv /\ Store(c, 0) /\ 0 \in Nat
      /\ UNCHANGED <<gone, pending, texts, abandoned, unheard, opens, rows, active, crossed, top, editing,
                     tasks>>
  BY DEF ConversationInv, PeerPosts, screen, writing
<1>1. /\ ServerGrows /\ EventsStep /\ gone' \subseteq DOMAIN server'
      /\ server' \in Seq([chat : Chats, text : Nat])
      /\ server'[Len(server) + 1] = [chat |-> c, text |-> 0]
      /\ \A i \in DOMAIN server' : i \in DOMAIN server \/ i = Len(server) + 1
      /\ \A m : m # 0 => Posted(m)' = Posted(m)
  BY <1>0, Stored
<1>2. TasksStep
  BY <1>0, TasksStay
<1>3. ListsInv'
  BY <1>0, <1>1, <1>2 DEF ListsInv, ServerGrows, EventsStep, TasksStep, Event, Range
<1>4. TextsInv'
  <2>1. \A n \in DOMAIN texts : n # 0 /\ Posted(n)' = Posted(n)
    BY <1>0, <1>1, LenProperties DEF ListsInv
  <2>2. \A n : FailedBubble(n)' <=> FailedBubble(n)
    BY <1>0 DEF FailedBubble, Bubble, Range
  <2>3. HomeInv'
    BY <1>0, <1>1, <1>2, <2>1 DEF TextsInv, HomeInv, ServerGrows, TasksStep, Range
  <2>4. OnceInv'
    <3>1. \A t \in Sends : t.text \in DOMAIN texts
      BY <1>0 DEF TextsInv, HomeInv
    <3> QED BY <1>0, <1>2, <2>1, <2>2, <3>1 DEF TextsInv, OnceInv, TasksStep
  <2>5. KeptInv'
    BY <1>0, <2>1 DEF TextsInv, KeptInv, Range
  <2> QED BY <2>3, <2>4, <2>5 DEF TextsInv
<1>5. LandingInv'
  BY <1>0, <1>1, <1>2, LandingKept DEF ConversationInv, EventsStep, TasksStep
<1>6. RowsInv'
  BY <1>0, <1>1, RowsKept DEF ConversationInv
<1>7. BubblesInv'
  BY <1>0 DEF ConversationInv, BubblesInv, Once, Range
<1> QED BY <1>3, <1>4, <1>5, <1>6, <1>7 DEF ConversationInv

(* send_message *)
LEMMA PostKeeps == ASSUME ConversationInv, NEW t \in tasks, Post(t) PROVE ConversationInv'
<1>0. /\ ListsInv /\ TextsInv /\ t \in Task /\ TaskInv(t) /\ t \in Sends /\ ~t.answered
      /\ Store(t.chat, t.text) /\ Answered(t, Len(server) + 1)
      /\ UNCHANGED <<gone, pending, texts, abandoned, unheard, opens, rows, active, crossed, top, editing>>
  BY DEF ConversationInv, LandingInv, ListsInv, Sends, Post, screen, writing
<1> DEFINE n == t.text
           i == Len(server) + 1
<1>1. n \in DOMAIN texts /\ t.chat = texts[n] /\ t.chat \in Chats /\ n \in Nat /\ n # 0
  <2>1. n \in DOMAIN texts /\ t.chat = texts[n] /\ texts \in Seq(Chats)
    BY <1>0 DEF TextsInv, HomeInv, ListsInv
  <2>2. DOMAIN texts = 1..Len(texts) /\ Len(texts) \in Nat
    BY <2>1, LenProperties
  <2> QED BY <2>1, <2>2, ElementOfSeq
<1>2. /\ ServerGrows /\ EventsStep /\ gone' \subseteq DOMAIN server'
      /\ server' \in Seq([chat : Chats, text : Nat])
      /\ i \in DOMAIN server' /\ server'[i] = [chat |-> t.chat, text |-> n]
      /\ \A k \in DOMAIN server' : k \in DOMAIN server \/ k = i
      /\ \A m : m # n => Posted(m)' = Posted(m)
      /\ Posted(n)' = Posted(n) \cup {i}
  BY <1>0, <1>1, Stored
<1>3. PICK u : u = [t EXCEPT !.answered = TRUE, !.id = i]
  OBVIOUS
<1>4. /\ u \in Task /\ u.kind = "send" /\ u.id = i /\ u.chat = t.chat /\ u.text = n /\ u.page = t.page
      /\ u.opening = t.opening /\ u.answered /\ i \in Nat
  <2>1. i \in Nat /\ t.kind = "send"
    BY <1>0, LenProperties DEF ListsInv, Sends
  <2> QED BY <1>0, <1>3, <2>1 DEF Task
<1>5. tasks' = (tasks \ {t}) \cup {u}
  BY <1>0, <1>3 DEF Answered
<1>6. Sends' = (Sends \ {t}) \cup {u}
  BY <1>4, <1>5 DEF Sends
<1> HIDE DEF n, i
<1>7. TaskInv(u)'
  <2>1. IsPage(t)' /\ t.opening <= opens
    BY <1>0, <1>2, TaskKept DEF TaskInv
  <2>2. IsPage(u)'
    BY <1>0, <1>4, <2>1 DEF IsPage, Sends
  <2> QED BY <1>0, <1>2, <1>4, <2>1, <2>2 DEF TaskInv
<1>8. ListsInv'
  BY <1>0, <1>2, <1>4, <1>5 DEF ListsInv, ServerGrows, EventsStep, Event, Range
<1>9. TextsInv'
  <2>1. \A s \in Sends : s # t => s.text # n
    BY <1>0 DEF TextsInv, OnceInv, n
  <2>2. \A m : (FailedBubble(m)' <=> FailedBubble(m)) /\ Posted(m) \subseteq Posted(m)'
    BY <1>0, <1>2 DEF FailedBubble, Bubble, Range
  <2>3. ~FailedBubble(n)
    BY <1>0, <1>1 DEF TextsInv, OnceInv, n
  <2>4. HomeInv'
    <3>1. \A b \in Range(pending)' : b.text \in DOMAIN texts' /\ texts'[b.text] = active'
      BY <1>0 DEF TextsInv, HomeInv, Range
    <3>2. \A s \in Sends' :
             /\ s.text \in DOMAIN texts /\ s.chat = texts[s.text]
             /\ s.answered => s.id \in Posted(s.text)'
      BY <1>0, <1>1, <1>2, <1>4, <1>6, <2>2 DEF TextsInv, HomeInv
    <3>3. \A k \in DOMAIN server' : server'[k].text # 0 =>
             server'[k].text \in DOMAIN texts /\ server'[k].chat = texts[server'[k].text]
      BY <1>0, <1>1, <1>2 DEF TextsInv, HomeInv, ServerGrows
    <3> QED BY <1>0, <3>1, <3>2, <3>3 DEF HomeInv
  <2>5. OnceInv'
    <3>1. \A s, v \in Sends' : s.text = v.text => s = v
      BY <1>0, <1>4, <1>6, <2>1 DEF TextsInv, OnceInv
    <3>2. \A m \in DOMAIN texts : FailedBubble(m) =>
             (\A s \in Sends' : s.text # m) /\ (m \in unheard \/ Posted(m)' = {})
      BY <1>0, <1>2, <1>4, <1>6, <2>3 DEF TextsInv, OnceInv
    <3>3. \A s \in Sends' : s.answered \/ s.text \in unheard \/ Posted(s.text)' = {}
      BY <1>0, <1>2, <1>4, <1>6, <2>1 DEF TextsInv, OnceInv
    <3>4. \A m \in DOMAIN texts \ unheard : \A j, k \in Posted(m)' : j = k
      <4>1. n \in unheard \/ Posted(n) = {}
        BY <1>0 DEF TextsInv, OnceInv, n
      <4> QED BY <1>0, <1>2, <4>1 DEF TextsInv, OnceInv
    <3> QED BY <1>0, <2>2, <3>1, <3>2, <3>3, <3>4 DEF OnceInv
  <2>6. KeptInv'
    BY <1>0, <2>2 DEF TextsInv, KeptInv, Range
  <2> QED BY <2>4, <2>5, <2>6 DEF TextsInv
<1>10. LandingInv'
  BY <1>0, <1>2, <1>5, <1>7, LandingKept DEF ConversationInv, EventsStep
<1>11. RowsInv'
  BY <1>0, <1>2, RowsKept DEF ConversationInv
<1>12. BubblesInv'
  BY <1>0 DEF ConversationInv, BubblesInv, Once, Range
<1> QED BY <1>8, <1>9, <1>10, <1>11, <1>12 DEF ConversationInv

(* resetConversation gives up what has not been sent, and clears the screen. *)
LEMMA ResetKeeps ==
    ASSUME ConversationInv, ResetConversation, active' \in Chats \cup {NoChat},
           UNCHANGED <<server, gone, events, texts, unheard>>, editing' \in Nat, TasksStep
    PROVE  ConversationInv'
<1>0. /\ ListsInv /\ TextsInv /\ opens' = opens + 1 /\ rows' = <<>> /\ pending' = <<>>
      /\ abandoned' = abandoned \cup {pending[i].text : i \in DOMAIN pending}
      /\ crossed' = FALSE /\ top' = 0
  BY DEF ConversationInv, ResetConversation
<1>1. Range(<<>>) = {} /\ Once(<<>>) /\ <<>> \in Seq(Nat)
      /\ <<>> \in Seq([text : Nat, status : {"sending", "failed"}])
  BY RangeOfNothing DEF Once
<1>2. ServerGrows /\ EventsStep
  <2>1. DOMAIN server \subseteq Nat
    BY <1>0, LenProperties DEF ListsInv
  <2> QED BY <1>0, <2>1, EventsStay DEF ServerGrows
<1>3. ListsInv'
  <2>1. Range(rows') = {} /\ opens' \in Nat
    BY <1>0, <1>1 DEF ListsInv
  <2> QED BY <1>0, <1>1, <2>1 DEF ListsInv, TasksStep, Range
<1>4. TextsInv'
  <2>1. Range(pending)' = {} /\ \A m : ~FailedBubble(m)' /\ Posted(m)' = Posted(m)
    BY <1>0, <1>1 DEF FailedBubble, Posted, Range
  <2>2. HomeInv'
    BY <1>0, <2>1 DEF TextsInv, HomeInv, TasksStep
  <2>3. OnceInv'
    BY <1>0, <2>1 DEF TextsInv, OnceInv, TasksStep
  <2>4. KeptInv'
    BY <1>0, <2>1 DEF TextsInv, KeptInv, Range
  <2> QED BY <2>2, <2>3, <2>4 DEF TextsInv
<1>5. LandingInv'
  BY <1>0, <1>2, LandingKept DEF ConversationInv, TasksStep, EventsStep
<1>6. RowsInv'
  BY <1>0, <1>1 DEF RowsInv, Once, Range
<1>7. BubblesInv'
  BY <1>0, <1>1 DEF BubblesInv, Once, Range
<1> QED BY <1>3, <1>4, <1>5, <1>6, <1>7 DEF ConversationInv

(* A chat is opened, *)
LEMMA OpenChatKeeps == ASSUME ConversationInv, NEW c \in Chats, OpenChat(c) PROVE ConversationInv'
<1>0. /\ ListsInv /\ ResetConversation /\ active' = c /\ opens \in Nat /\ opens' = opens + 1
      /\ UNCHANGED <<server, gone, events, editing, texts, unheard>> /\ editing \in Nat
  BY DEF ConversationInv, ListsInv, OpenChat, ResetConversation
<1>1. MaxMessages + 1 \in Nat
  BY ConversationAssumption
<1>2. PICK r : r = Request("open", c, MaxMessages + 1)
  OBVIOUS
<1>3. PICK u : u = [r EXCEPT !.opening = opens + 1]
  OBVIOUS
<1>4. /\ u \in Task /\ u.kind = "open" /\ u.chat = c /\ u.page = <<>> /\ u.opening = opens + 1
  <2>1. r \in Task /\ r.kind = "open" /\ r.chat = c /\ r.page = <<>>
    BY <1>0, <1>1, <1>2, RequestStarts DEF Kinds
  <2> QED BY <1>0, <1>3, <2>1 DEF Task
<1>5. TaskInv(u)'
  BY <1>0, <1>4, NoPage DEF TaskInv, Late
<1>6. TasksStep
  <2>1. Ask(tasks, u)
    BY <1>2, <1>3 DEF OpenChat
  <2> QED BY <1>0, <1>4, <1>5, <2>1, TaskAsked
<1> QED BY <1>0, <1>6, ResetKeeps

(* or the conversation is closed. *)
LEMMA CloseKeeps == ASSUME ConversationInv, Close PROVE ConversationInv'
<1>1. TasksStep
  BY TasksStay DEF Close, ConversationInv
<1> QED BY <1>1, ResetKeeps DEF Close

----------------------------------------------------------------------------
(* The composer.                                                           *)

Bubbles == [text : Nat, status : {"sending", "failed"}]

(* Without a text, the bubbles of the others stay. *)
LEMMA WithoutDrops ==
    ASSUME ListsInv, NEW n \in Nat
    PROVE  /\ Without(n) \in Seq(Bubbles) /\ Range(Without(n)) = {b \in Range(pending) : b.text # n}
           /\ Once(pending) => Once(Without(n))
<1>1. pending \in Seq(Bubbles)
  BY DEF ListsInv, Bubbles
<1>2. /\ Without(n) \in Seq(Bubbles)
      /\ Range(Without(n)) = Range(pending) \ {Bubble(n, "sending"), Bubble(n, "failed")}
      /\ Once(pending) => Once(Without(n))
  BY <1>1, Dropped DEF Without
<1>3. Range(pending) \subseteq Bubbles
  BY <1>1 DEF Range
<1>4. \A b \in Bubbles : b.text = n <=> b \in {Bubble(n, "sending"), Bubble(n, "failed")}
  BY DEF Bubbles, Bubble
<1> QED BY <1>2, <1>3, <1>4

(* A step that posts nothing: the screen and what lands on it do not depend on the bubbles. *)
LEMMA NothingPosted ==
    ASSUME ConversationInv, UNCHANGED <<server, gone, events, editing, opens, active>>,
           tasks' \subseteq Task, \A t \in tasks' \ tasks : TaskInv(t)', RowsStep,
           texts' \in Seq(Chats), pending' \in Seq(Bubbles), TextsInv', BubblesInv'
    PROVE  ConversationInv'
<1>0. DOMAIN server \subseteq Nat /\ ListsInv /\ LandingInv
  BY LenProperties DEF ConversationInv, ListsInv
<1>1. ServerGrows /\ EventsStep
  BY <1>0, EventsStay DEF ServerGrows
<1>2. ListsInv'
  BY <1>0 DEF ListsInv, Bubbles, Range, RowsStep
<1>3. LandingInv'
  BY <1>0, <1>1, LandingKept DEF EventsStep
<1> QED BY <1>2, <1>3 DEF ConversationInv, RowsStep

(* A bubble and its request are the only news of a text. *)
LEMMA SendStarts ==
    ASSUME ConversationInv, NEW bubbles, NEW n \in Nat, Send(bubbles, n),
           UNCHANGED <<server, gone, opens, active>>,
           bubbles \in Seq(Bubbles), \A b \in Range(bubbles) : b.text # n, Once(bubbles)
    PROVE  /\ tasks' \subseteq Task /\ \A t \in tasks' \ tasks : TaskInv(t)'
           /\ \E u : /\ Sends' = Sends \cup {u} /\ u.text = n /\ u.chat = active /\ ~u.answered
           /\ pending' \in Seq(Bubbles) /\ Once(pending')
           /\ Range(pending') = Range(bubbles) \cup {Bubble(n, "sending")}
<1>0. ListsInv /\ active \in Chats \cup {NoChat} /\ 0 \in Nat
  BY DEF ConversationInv, ListsInv
<1>1. PICK r : r = Request("send", active, 0)
  OBVIOUS
<1>2. PICK u : u = [r EXCEPT !.text = n]
  OBVIOUS
<1>3. /\ r \in Task /\ r.kind = "send" /\ r.chat = active /\ r.page = <<>> /\ ~r.answered
      /\ r.opening = opens
  BY <1>0, <1>1, RequestStarts DEF Kinds
<1>4. /\ u \in Task /\ u.kind = "send" /\ u.chat = active /\ u.page = <<>> /\ ~u.answered
      /\ u.opening = opens /\ u.text = n
  BY <1>2, <1>3 DEF Task
<1>5. TaskInv(u)'
  BY <1>0, <1>4, NoPage DEF TaskInv, Late, ListsInv
<1>6. tasks' = tasks \cup {u}
  BY <1>1, <1>2 DEF Send, Ask
<1>7. Sends' = Sends \cup {u}
  BY <1>4, <1>6 DEF Sends
<1>8. Bubble(n, "sending") \in Bubbles /\ Bubble(n, "sending").text = n
  BY DEF Bubble, Bubbles
<1>9. /\ pending' \in Seq(Bubbles) /\ Once(pending')
      /\ Range(pending') = Range(bubbles) \cup {Bubble(n, "sending")}
  <2>1. pending' = Append(bubbles, Bubble(n, "sending")) /\ Bubble(n, "sending") \notin Range(bubbles)
    BY <1>8 DEF Send
  <2> QED BY <1>8, <2>1, RangeAppend
<1> QED BY <1>0, <1>4, <1>5, <1>6, <1>7, <1>9 DEF ListsInv

(* A new text is submitted, *)
LEMMA SubmitKeeps == ASSUME ConversationInv, Submit PROVE ConversationInv'
<1>n. PICK n : n = Len(texts) + 1
  OBVIOUS
<1>0. /\ ListsInv /\ TextsInv /\ BubblesInv /\ Send(pending, n) /\ texts' = Append(texts, active)
      /\ UNCHANGED <<server, gone, events, rows, active, crossed, top, editing, opens, abandoned, unheard>>
      /\ active \in Chats /\ texts \in Seq(Chats) /\ pending \in Seq(Bubbles)
  BY <1>n DEF ConversationInv, ListsInv, Submit, screen, Bubbles
<1>1. /\ DOMAIN texts = 1..Len(texts) /\ DOMAIN texts' = 1..n /\ Len(texts) \in Nat /\ texts' \in Seq(Chats)
      /\ texts'[n] = active /\ \A m \in DOMAIN texts : texts'[m] = texts[m]
  <2>1. /\ texts' \in Seq(Chats) /\ Len(texts') = n /\ texts'[n] = active
        /\ \A m \in 1..Len(texts) : texts'[m] = texts[m]
    BY <1>0, <1>n, AppendProperties
  <2> QED BY <1>0, <1>n, <2>1, LenProperties
<1>2. n \in Nat /\ n # 0 /\ n \notin DOMAIN texts /\ DOMAIN texts' = DOMAIN texts \cup {n}
  BY <1>1, <1>n
<1>3. \A b \in Range(pending) : b.text \in DOMAIN texts /\ b.text # n
  BY <1>0, <1>2 DEF TextsInv, HomeInv
<1>4. PICK u : Sends' = Sends \cup {u} /\ u.text = n /\ u.chat = active /\ ~u.answered
  BY <1>0, <1>2, <1>3, SendStarts DEF BubblesInv
<1>5. /\ tasks' \subseteq Task /\ \A t \in tasks' \ tasks : TaskInv(t)'
      /\ pending' \in Seq(Bubbles) /\ Once(pending')
      /\ Range(pending') = Range(pending) \cup {Bubble(n, "sending")}
  BY <1>0, <1>2, <1>3, SendStarts DEF BubblesInv
<1>6. Range(pending)' = Range(pending') /\ Bubble(n, "sending").text = n
  BY DEF Range, Bubble
<1>7. BubblesInv'
  BY <1>0, <1>3, <1>5, <1>6 DEF BubblesInv, Once
<1>8. \A m : Posted(m)' = Posted(m)
  BY <1>0 DEF Posted
<1>9. Posted(n) = {}
  BY <1>0, <1>2 DEF TextsInv, HomeInv, Posted
<1>10. /\ ~FailedBubble(n)' /\ \A m : FailedBubble(m)' => FailedBubble(m)
  <2>1. Bubble(n, "failed").text = n /\ Bubble(n, "failed") \notin Range(pending)
    BY <1>3 DEF Bubble
  <2>2. \A m : Bubble(m, "failed") # Bubble(n, "sending")
    BY DEF Bubble
  <2>3. \A m : (FailedBubble(m)' <=> Bubble(m, "failed") \in Range(pending'))
    BY <1>6 DEF FailedBubble, Bubble
  <2>4. \A m : (FailedBubble(m) <=> Bubble(m, "failed") \in Range(pending))
    BY DEF FailedBubble
  <2>5. \A m : Bubble(m, "failed") \in Range(pending') => Bubble(m, "failed") \in Range(pending)
    BY <1>5, <2>2
  <2> QED BY <2>1, <2>3, <2>4, <2>5
<1>11. HomeInv'
  <2>1. \A b \in Range(pending') : b.text \in DOMAIN texts' /\ texts'[b.text] = active
    BY <1>0, <1>1, <1>2, <1>3, <1>5, <1>6 DEF TextsInv, HomeInv
  <2>2. \A t \in Sends' :
          /\ t.text \in DOMAIN texts' /\ t.chat = texts'[t.text]
          /\ t.answered => t.id \in Posted(t.text)'
    BY <1>0, <1>1, <1>2, <1>4, <1>8 DEF TextsInv, HomeInv
  <2>3. \A i \in DOMAIN server :
          server[i].text # 0 => server[i].text \in DOMAIN texts' /\ server[i].chat = texts'[server[i].text]
    BY <1>0, <1>1, <1>2 DEF TextsInv, HomeInv
  <2> QED BY <1>0, <1>6, <2>1, <2>2, <2>3 DEF HomeInv
<1>12. OnceInv'
  <2>0. \A t \in Sends : t.text \in DOMAIN texts /\ t.text # n
    BY <1>0, <1>2 DEF TextsInv, HomeInv
  <2>1. \A t, v \in Sends' : t.text = v.text => t = v
    BY <1>0, <1>4, <2>0 DEF TextsInv, OnceInv
  <2>2. \A m \in DOMAIN texts' : FailedBubble(m)' =>
           (\A t \in Sends' : t.text # m) /\ (m \in unheard \/ Posted(m)' = {})
    <3> SUFFICES ASSUME NEW m \in DOMAIN texts', FailedBubble(m)'
                 PROVE  (\A t \in Sends' : t.text # m) /\ (m \in unheard \/ Posted(m)' = {})
      OBVIOUS
    <3>1. m # n /\ m \in DOMAIN texts /\ FailedBubble(m)
      BY <1>2, <1>10
    <3>2. (\A t \in Sends : t.text # m) /\ (m \in unheard \/ Posted(m) = {})
      BY <1>0, <3>1 DEF TextsInv, OnceInv
    <3> QED BY <1>4, <1>8, <3>1, <3>2
  <2>3. \A t \in Sends' : t.answered \/ t.text \in unheard \/ Posted(t.text)' = {}
    BY <1>0, <1>4, <1>8, <1>9 DEF TextsInv, OnceInv
  <2>4. \A m \in DOMAIN texts' \ unheard : \A i, j \in Posted(m)' : i = j
    BY <1>0, <1>2, <1>8, <1>9 DEF TextsInv, OnceInv
  <2> QED BY <1>0, <2>1, <2>2, <2>3, <2>4 DEF OnceInv
<1>13. KeptInv'
  <2>1. \A m \in DOMAIN texts' : Posted(m)' # {} \/ m \in abandoned \/ \E b \in Range(pending') : b.text = m
    BY <1>0, <1>2, <1>5, <1>6, <1>8 DEF TextsInv, KeptInv
  <2> QED BY <1>0, <1>6, <2>1 DEF KeptInv
<1> QED BY <1>0, <1>1, <1>5, <1>7, <1>11, <1>12, <1>13, ScreenKept, NothingPosted DEF TextsInv

(* a failed one is sent again, *)
LEMMA RetryKeeps == ASSUME ConversationInv, NEW n \in DOMAIN texts, Retry(n) PROVE ConversationInv'
<1>0. /\ ListsInv /\ TextsInv /\ BubblesInv /\ Send(Without(n), n) /\ FailedBubble(n) /\ n \in Nat
      /\ UNCHANGED <<server, gone, events, rows, active, crossed, top, editing, opens, texts, abandoned,
                     unheard>>
      /\ texts \in Seq(Chats)
  BY LenProperties DEF ConversationInv, ListsInv, Retry, screen
<1>1. /\ Without(n) \in Seq(Bubbles) /\ Range(Without(n)) = {b \in Range(pending) : b.text # n}
      /\ Once(Without(n))
  BY <1>0, WithoutDrops DEF BubblesInv
<1>2. texts[n] = active
  <2>1. Bubble(n, "failed") \in Range(pending) /\ Bubble(n, "failed").text = n
    BY <1>0 DEF FailedBubble, Bubble
  <2> QED BY <1>0, <2>1 DEF TextsInv, HomeInv
<1>3. PICK u : Sends' = Sends \cup {u} /\ u.text = n /\ u.chat = active /\ ~u.answered
  BY <1>0, <1>1, SendStarts
<1>4. /\ tasks' \subseteq Task /\ \A t \in tasks' \ tasks : TaskInv(t)'
      /\ pending' \in Seq(Bubbles) /\ Once(pending')
      /\ Range(pending') = Range(Without(n)) \cup {Bubble(n, "sending")}
  BY <1>0, <1>1, SendStarts
<1>5. Range(pending)' = Range(pending') /\ Bubble(n, "sending").text = n
  BY DEF Range, Bubble
<1>6. BubblesInv'
  BY <1>0, <1>1, <1>4, <1>5 DEF BubblesInv, Once
<1>7. \A m : Posted(m)' = Posted(m)
  BY <1>0 DEF Posted
<1>8. ~FailedBubble(n)' /\ \A m : FailedBubble(m)' => FailedBubble(m)
  <2>1. Bubble(n, "failed").text = n
    BY DEF Bubble
  <2>2. \A m : Bubble(m, "failed") # Bubble(n, "sending")
    BY DEF Bubble
  <2>3. \A m : (FailedBubble(m)' <=> Bubble(m, "failed") \in Range(pending'))
    BY <1>5 DEF FailedBubble, Bubble
  <2> QED BY <1>1, <1>4, <2>1, <2>2, <2>3 DEF FailedBubble
<1>9. HomeInv'
  <2>1. \A b \in Range(pending') : b.text \in DOMAIN texts /\ texts[b.text] = active
    BY <1>0, <1>1, <1>2, <1>4, <1>5 DEF TextsInv, HomeInv
  <2>2. \A t \in Sends' :
          /\ t.text \in DOMAIN texts /\ t.chat = texts[t.text]
          /\ t.answered => t.id \in Posted(t.text)'
    BY <1>0, <1>2, <1>3, <1>7 DEF TextsInv, HomeInv
  <2> QED BY <1>0, <1>5, <2>1, <2>2 DEF TextsInv, HomeInv
<1>10. OnceInv'
  <2>0. (\A t \in Sends : t.text # n) /\ (n \in unheard \/ Posted(n) = {})
    BY <1>0 DEF TextsInv, OnceInv
  <2>1. \A t, v \in Sends' : t.text = v.text => t = v
    BY <1>0, <1>3, <2>0 DEF TextsInv, OnceInv
  <2>2. \A m \in DOMAIN texts : FailedBubble(m)' =>
           (\A t \in Sends' : t.text # m) /\ (m \in unheard \/ Posted(m)' = {})
    BY <1>0, <1>3, <1>7, <1>8 DEF TextsInv, OnceInv
  <2>3. \A t \in Sends' : t.answered \/ t.text \in unheard \/ Posted(t.text)' = {}
    BY <1>0, <1>3, <1>7, <2>0 DEF TextsInv, OnceInv
  <2>4. \A m \in DOMAIN texts \ unheard : \A i, j \in Posted(m)' : i = j
    BY <1>0, <1>7 DEF TextsInv, OnceInv
  <2> QED BY <1>0, <2>1, <2>2, <2>3, <2>4 DEF OnceInv
<1>11. KeptInv'
  <2>1. \A m \in DOMAIN texts : Posted(m)' # {} \/ m \in abandoned \/ \E b \in Range(pending') : b.text = m
    BY <1>0, <1>1, <1>4, <1>5, <1>7 DEF TextsInv, KeptInv
  <2> QED BY <1>0, <1>5, <2>1 DEF KeptInv
<1> QED BY <1>0, <1>4, <1>6, <1>9, <1>10, <1>11, ScreenKept, NothingPosted DEF TextsInv

(* or given up. *)
LEMMA DiscardKeeps == ASSUME ConversationInv, NEW n \in DOMAIN texts, Discard(n) PROVE ConversationInv'
<1>0. /\ ListsInv /\ TextsInv /\ BubblesInv /\ n \in Nat
      /\ pending' = Without(n) /\ abandoned' = abandoned \cup {n}
      /\ UNCHANGED <<server, gone, events, rows, active, crossed, top, editing, tasks, opens, texts, unheard>>
      /\ texts \in Seq(Chats) /\ tasks \subseteq Task
  BY LenProperties DEF ConversationInv, ListsInv, Discard, screen
<1>1. /\ pending' \in Seq(Bubbles) /\ Range(pending') = {b \in Range(pending) : b.text # n}
      /\ Once(pending') /\ Range(pending)' = Range(pending')
  BY <1>0, WithoutDrops DEF BubblesInv, Range
<1>2. BubblesInv'
  BY <1>0, <1>1 DEF BubblesInv, Once
<1>3. /\ Sends' = Sends
      /\ \A m : Posted(m)' = Posted(m) /\ (FailedBubble(m)' => FailedBubble(m))
  BY <1>0, <1>1 DEF Sends, Posted, FailedBubble, Bubble
<1>4. HomeInv'
  BY <1>0, <1>1, <1>3 DEF TextsInv, HomeInv
<1>5. OnceInv'
  BY <1>0, <1>3 DEF TextsInv, OnceInv
<1>6. KeptInv'
  BY <1>0, <1>1, <1>3 DEF TextsInv, KeptInv
<1> QED BY <1>0, <1>1, <1>2, <1>4, <1>5, <1>6, ScreenKept, NothingPosted DEF TextsInv

(* The answer takes the bubble away, and its message is shown. *)
LEMMA SendLandsKeeps == ASSUME ConversationInv, NEW t \in tasks, SendLands(t) PROVE ConversationInv'
<1> DEFINE n == t.text
<1>0. /\ ListsInv /\ TextsInv /\ BubblesInv /\ t \in Sends /\ t.answered /\ n \in Nat /\ TaskInv(t)
      /\ pending' = Without(n) /\ Show(t) /\ tasks' = tasks \ {t}
      /\ UNCHANGED <<server, gone, events, active, editing, opens, texts, abandoned, unheard>>
      /\ texts \in Seq(Chats) /\ tasks \subseteq Task
  BY DEF ConversationInv, LandingInv, ListsInv, Task, SendLands, Show, Landed, Sends
<1>1. /\ pending' \in Seq(Bubbles) /\ Range(pending') = {b \in Range(pending) : b.text # n}
      /\ Once(pending') /\ Range(pending)' = Range(pending')
  BY <1>0, WithoutDrops DEF BubblesInv, Range
<1>2. BubblesInv'
  BY <1>0, <1>1 DEF BubblesInv, Once
<1>3. /\ Sends' = Sends \ {t}
      /\ \A m : Posted(m)' = Posted(m) /\ (FailedBubble(m)' => FailedBubble(m))
  BY <1>0, <1>1 DEF Sends, Posted, FailedBubble, Bubble
<1>4. Posted(n) # {}
  BY <1>0 DEF TextsInv, HomeInv
<1>5. HomeInv'
  BY <1>0, <1>1, <1>3 DEF TextsInv, HomeInv
<1>6. OnceInv'
  BY <1>0, <1>3 DEF TextsInv, OnceInv
<1>7. KeptInv'
  BY <1>0, <1>1, <1>3, <1>4 DEF TextsInv, KeptInv
<1>8. RowsStep
  <2>1. t.id \in DOMAIN server /\ server[t.id].chat = t.chat
    BY <1>0 DEF TaskInv, Sends
  <2> QED BY <1>0, <2>1, ShowKeeps
<1> QED BY <1>0, <1>1, <1>2, <1>5, <1>6, <1>7, <1>8, NothingPosted DEF TextsInv

(* The bubble offers to retry; what may be stored already is unheard. *)
LEMMA SendFailsKeeps == ASSUME ConversationInv, NEW t \in tasks, SendFails(t) PROVE ConversationInv'
<1> DEFINE n == t.text
<1>0. /\ ListsInv /\ TextsInv /\ BubblesInv /\ t \in Sends /\ n \in Nat
      /\ Failed(n) /\ tasks' = tasks \ {t}
      /\ unheard' = IF t.answered THEN unheard \cup {n} ELSE unheard
      /\ UNCHANGED <<server, gone, events, rows, active, crossed, top, editing, opens, texts, abandoned>>
      /\ texts \in Seq(Chats) /\ tasks \subseteq Task /\ pending \in Seq(Bubbles)
  BY DEF ConversationInv, ListsInv, Task, SendFails, Landed, Sends, screen, Bubbles
<1>1. /\ DOMAIN pending' = DOMAIN pending /\ pending' \in Seq(Bubbles)
      /\ \A i \in DOMAIN pending : /\ pending[i].text = n => pending'[i] = Bubble(n, "failed")
                                   /\ pending[i].text # n => pending'[i] = pending[i]
                                   /\ pending'[i].text = pending[i].text
  <2>1. DOMAIN pending = 1..Len(pending) /\ Len(pending) \in Nat
        /\ \A i \in DOMAIN pending : pending[i] \in Bubbles
    BY <1>0, LenProperties, ElementOfSeq
  <2>2. Bubble(n, "failed") \in Bubbles /\ Bubble(n, "failed").text = n
    BY <1>0 DEF Bubble, Bubbles
  <2>3. /\ DOMAIN pending' = DOMAIN pending
        /\ \A i \in DOMAIN pending : /\ pending[i].text = n => pending'[i] = Bubble(n, "failed")
                                     /\ pending[i].text # n => pending'[i] = pending[i]
    BY <1>0 DEF Failed
  <2>4. \A i \in DOMAIN pending : pending'[i] \in Bubbles /\ pending'[i].text = pending[i].text
    BY <2>1, <2>2, <2>3
  <2>5. pending' \in [1..Len(pending) -> Bubbles]
    <3>1. pending' = [i \in DOMAIN pending |-> pending'[i]]
      BY <1>0 DEF Failed
    <3> QED BY <2>1, <2>4, <3>1
  <2> QED BY <2>1, <2>3, <2>4, <2>5 DEF Seq
<1> HIDE DEF n
<1>2. \A i, j \in DOMAIN pending : pending[i].text = pending[j].text => i = j
  BY <1>0 DEF BubblesInv, Once, Range
<1>3. BubblesInv'
  <2>1. \A i, j \in DOMAIN pending' : pending'[i].text = pending'[j].text => i = j
    BY <1>1, <1>2
  <2> QED BY <2>1 DEF BubblesInv, Once, Range
<1>4. /\ \A b \in Range(pending)' : b = Bubble(n, "failed") \/ b \in Range(pending)
      /\ \A b \in Range(pending)' : \E a \in Range(pending) : a.text = b.text
      /\ \A b \in Range(pending) : \E a \in Range(pending)' : a.text = b.text
  BY <1>1 DEF Range
<1>5. /\ Sends' = Sends \ {t} /\ \A m : Posted(m)' = Posted(m)
      /\ \A m : m # n => (FailedBubble(m)' => FailedBubble(m))
  <2>1. \A m : m # n => Bubble(m, "failed") # Bubble(n, "failed")
    BY DEF Bubble
  <2>2. \A m : (FailedBubble(m)' <=> Bubble(m, "failed") \in Range(pending)')
    BY DEF FailedBubble, Bubble
  <2>3. \A m : (FailedBubble(m) <=> Bubble(m, "failed") \in Range(pending))
    BY DEF FailedBubble
  <2>4. Sends' = Sends \ {t} /\ \A m : Posted(m)' = Posted(m)
    BY <1>0 DEF Sends, Posted
  <2> QED BY <1>4, <2>1, <2>2, <2>3, <2>4
<1>6. HomeInv'
  <2>1. \A b \in Range(pending)' : b.text \in DOMAIN texts /\ texts[b.text] = active
    BY <1>0, <1>4 DEF TextsInv, HomeInv
  <2> QED BY <1>0, <1>5, <2>1 DEF TextsInv, HomeInv
<1>7. OnceInv'
  <2>1. unheard \subseteq unheard' /\ \A s \in Sends' : s.text # n
    BY <1>0, <1>5 DEF TextsInv, OnceInv, n
  <2>2. n \in unheard' \/ Posted(n) = {}
    BY <1>0 DEF TextsInv, OnceInv, n
  <2>3. \A m \in DOMAIN texts : FailedBubble(m)' =>
           (\A s \in Sends' : s.text # m) /\ (m \in unheard' \/ Posted(m)' = {})
    BY <1>0, <1>5, <2>1, <2>2 DEF TextsInv, OnceInv
  <2> QED BY <1>0, <1>5, <2>1, <2>3 DEF TextsInv, OnceInv
<1>8. KeptInv'
  <2>1. \A m \in DOMAIN texts : Posted(m)' # {} \/ m \in abandoned \/ \E b \in Range(pending)' : b.text = m
    BY <1>0, <1>4, <1>5 DEF TextsInv, KeptInv
  <2> QED BY <1>0, <2>1 DEF KeptInv
<1> QED BY <1>0, <1>1, <1>3, <1>6, <1>7, <1>8, ScreenKept, NothingPosted DEF TextsInv

----------------------------------------------------------------------------
(* A tab just loaded has nothing on screen and nothing under way. *)
THEOREM ConversationStarts == Init => ConversationInv
<1> SUFFICES ASSUME Init PROVE ConversationInv
  OBVIOUS
<1>1. ListsInv
  <2>1. \A T : <<>> \in Seq(T)
    OBVIOUS
  <2>2. DOMAIN server = {} /\ Range(rows) = {}
    BY RangeOfNothing DEF Init
  <2> QED BY <2>1, <2>2 DEF Init, ListsInv
<1>2. Sends = {} /\ \A n : Posted(n) = {}
  BY DEF Init, Sends, Posted
<1>3. TextsInv
  BY <1>2, RangeOfNothing DEF Init, TextsInv, HomeInv, OnceInv, KeptInv
<1>4. LandingInv /\ BubblesInv /\ RowsInv
  BY RangeOfNothing DEF Init, LandingInv, BubblesInv, RowsInv, Once
<1> QED BY <1>1, <1>3, <1>4 DEF ConversationInv

(* Whatever the user does, the server takes, the socket brings or an answer changes keeps it. *)
THEOREM ConversationStep == ConversationInv /\ [Next]_vars => ConversationInv'
<1> SUFFICES ASSUME ConversationInv, [Next]_vars PROVE ConversationInv'
  OBVIOUS
<1>1. CASE User
  <2>1. CASE \E c \in Chats : Switch(c)
    BY <2>1, OpenChatKeeps DEF Switch
  <2>2. CASE RefreshKeys
    BY <2>2, OpenChatKeeps DEF RefreshKeys, ConversationInv, ListsInv
  <2>3. CASE Close
    BY <2>3, CloseKeeps
  <2>4. CASE LoadOlder \/ CancelCompose \/ SubmitEdit \/ \E i \in DOMAIN server : StartEdit(i) \/ AskDelete(i)
    BY <2>4, UserReads
  <2>5. CASE Submit
    BY <2>5, SubmitKeeps
  <2>6. CASE \E n \in DOMAIN texts : Retry(n) \/ Discard(n)
    BY <2>6, RetryKeeps, DiscardKeeps
  <2> QED BY <1>1, <2>1, <2>2, <2>3, <2>4, <2>5, <2>6 DEF User
<1>2. CASE Server
  BY <1>2, PeerPostsKeeps, PostKeeps, PageKeeps, DeletesKeep DEF Server
<1>3. CASE Socket
  <2>1. CASE Rekeyed
    BY <2>1, OpenChatKeeps DEF Rekeyed, RefreshKeys, ConversationInv, ListsInv
  <2> QED BY <1>3, <2>1, SocketKeeps DEF Socket
<1>4. CASE \E t \in tasks : Lands(t)
  BY <1>4, OpensLand, OlderLandsKeeps, OthersLand, SendLandsKeeps, SendFailsKeeps DEF Lands
<1>5. CASE UNCHANGED vars
  <2>1. UNCHANGED <<server, gone, events, rows, active, crossed, top, pending, texts, abandoned, unheard,
                    editing, tasks, opens>>
    BY <1>5 DEF vars, screen, writing
  <2>2. ListsInv /\ gone \subseteq DOMAIN server /\ editing' \in Nat
    BY <2>1 DEF ConversationInv, ListsInv
  <2>3. TasksStep /\ EventsStep /\ RowsStep
    BY <2>1, <2>2, TasksStay, EventsStay, ScreenKept
  <2> QED BY <2>1, <2>2, <2>3, NothingWritten
<1> QED BY <1>1, <1>2, <1>3, <1>4, <1>5 DEF Next

(* What the three theorems below rest on. *)
THEOREM ConversationHolds == Spec => []ConversationInv
BY ConversationStarts, ConversationStep, PTL DEF Spec

(* send and retry: a text goes to the chat it was submitted in, however many chats have been on screen   *)
(* when its answer lands or its retry is clicked.                                                        *)
THEOREM TextsAreHome == Spec => []TextsGoHome
<1>1. ConversationInv => TextsGoHome
  <2> SUFFICES ASSUME ConversationInv, NEW n \in DOMAIN texts, NEW i \in Posted(n)
               PROVE  server[i].chat = texts[n]
    BY DEF TextsGoHome
  <2>1. i \in DOMAIN server /\ server[i].text = n /\ n # 0
    BY LenProperties DEF Posted, ConversationInv, ListsInv
  <2> QED BY <2>1 DEF ConversationInv, TextsInv, HomeInv
<1> QED BY <1>1, ConversationHolds, PTL

(* send, retry and discardPending: no order of failures, retries and answers loses a text or posts it    *)
(* twice, unless the answer to a post was lost.                                                          *)
THEOREM TextsAreStoredOnce == Spec => []EachTextOnce
<1>1. ConversationInv => EachTextOnce
  <2> SUFFICES ASSUME ConversationInv, NEW n \in DOMAIN texts
               PROVE  /\ Posted(n) # {} \/ n \in abandoned \/ \E b \in Range(pending) : b.text = n
                      /\ Cardinality(Posted(n)) <= 1 \/ n \in unheard
    BY DEF EachTextOnce
  <2>1. Posted(n) # {} \/ n \in abandoned \/ \E b \in Range(pending) : b.text = n
    BY DEF ConversationInv, TextsInv, KeptInv
  <2>2. CASE n \notin unheard
    <3>1. \A i, j \in Posted(n) : i = j
      BY <2>2 DEF ConversationInv, TextsInv, OnceInv
    <3>2. CASE Posted(n) = {}
      <4>1. Cardinality(Posted(n)) = 0
        BY <3>2, FS_EmptySet
      <4> QED BY <2>1, <4>1
    <3>3. CASE Posted(n) # {}
      <4>1. PICK i : Posted(n) = {i}
        BY <3>1, <3>3
      <4>2. Cardinality(Posted(n)) = 1
        BY <4>1, FS_Singleton
      <4> QED BY <2>1, <4>2
    <3> QED BY <3>2, <3>3
  <2> QED BY <2>1, <2>2
<1> QED BY <1>1, ConversationHolds, PTL

(* openChat, loadOlder and appendDecrypted: however pages, answers, events and deletions interleave, no  *)
(* message of the chat is missing or twice between the oldest row and the end of the first page, as long *)
(* as no request of another screen has landed.                                                           *)
THEOREM PagesAreJoined == Spec => []PagesJoin
<1>1. ConversationInv => PagesJoin
  <2> SUFFICES ASSUME ConversationInv, ~crossed PROVE PagesJoin
    BY DEF PagesJoin
  <2>1. /\ rows \in Seq(Nat) /\ pending \in Seq(Bubbles) /\ Once(rows) /\ BubblesInv
        /\ \A i \in Range(rows) : server[i].chat = active
        /\ \A j \in Range(rows) : \A i \in InChat(active) : j <= i /\ i <= top => i \in Range(rows)
    BY DEF ConversationInv, ListsInv, RowsInv, Bubbles
  <2>2. rows # <<>> => rows[1] \in Range(rows)
    BY <2>1, RangeTail
  <2>3. \A i, j \in DOMAIN Items : ItemKey(Items[i]) = ItemKey(Items[j]) => i = j
    <3> DEFINE f == [i \in DOMAIN rows |-> RecordOutgoing(rows[i])]
               g == [i \in DOMAIN pending |-> PendingAsMessage(pending[i])]
               Item == {RecordOutgoing(i) : i \in Nat} \cup {PendingAsMessage(b) : b \in Bubbles}
    <3>1. /\ DOMAIN rows = 1..Len(rows) /\ Len(rows) \in Nat /\ DOMAIN pending = 1..Len(pending)
          /\ Len(pending) \in Nat
          /\ \A i \in DOMAIN rows : rows[i] \in Nat
          /\ \A i \in DOMAIN pending : pending[i] \in Bubbles
      BY <2>1, LenProperties, ElementOfSeq
    <3>2. f \in [1..Len(rows) -> Item] /\ g \in [1..Len(pending) -> Item]
      BY <3>1
    <3>3. f \in Seq(Item) /\ g \in Seq(Item) /\ Len(f) = Len(rows) /\ Len(g) = Len(pending)
      BY <3>1, <3>2 DEF Seq
    <3>4. \A i \in DOMAIN rows : ItemKey(f[i]) = <<"message", rows[i]>>
      BY DEF ItemKey, RecordOutgoing
    <3>5. \A i \in DOMAIN pending : ItemKey(g[i]) = <<"pending", pending[i].text>>
      BY DEF ItemKey, PendingAsMessage
    <3>6. Items = f \o g
      BY DEF Items
    <3> HIDE DEF f, g, Item
    <3>7. /\ DOMAIN Items = 1..(Len(rows) + Len(pending))
          /\ \A i \in 1..(Len(rows) + Len(pending)) :
                Items[i] = IF i <= Len(rows) THEN f[i] ELSE g[i - Len(rows)]
      <4>0. \E F, G, a : F = f /\ G = g /\ a = Items
        OBVIOUS
      <4>a. PICK F, G, a : F = f /\ G = g /\ a = Items
        BY <4>0, Zenon
      <4>1. /\ Items \in Seq(Item) /\ Len(Items) = Len(f) + Len(g)
            /\ \A i \in 1..(Len(f) + Len(g)) : Items[i] = IF i <= Len(f) THEN f[i] ELSE g[i - Len(f)]
        <5>1. F \in Seq(Item) /\ G \in Seq(Item) /\ a = F \o G
          BY <3>3, <3>6, <4>a
        <5>2. /\ a \in Seq(Item) /\ Len(a) = Len(F) + Len(G)
              /\ \A i \in 1..(Len(F) + Len(G)) : a[i] = IF i <= Len(F) THEN F[i] ELSE G[i - Len(F)]
          BY <5>1, ConcatAt
        <5> QED BY <4>a, <5>2
      <4> QED BY <3>3, <4>1, LenProperties
    <3>8. \A i \in DOMAIN Items :
             \/ i \in DOMAIN rows /\ ItemKey(Items[i]) = <<"message", rows[i]>>
             \/ /\ i - Len(rows) \in DOMAIN pending
                /\ ItemKey(Items[i]) = <<"pending", pending[i - Len(rows)].text>>
      <4> TAKE i \in DOMAIN Items
      <4>1. CASE i <= Len(rows)
        BY <3>1, <3>4, <3>7, <4>1
      <4>2. CASE ~(i <= Len(rows))
        <5>1. i - Len(rows) \in DOMAIN pending /\ Items[i] = g[i - Len(rows)]
          BY <3>1, <3>7, <4>2
        <5> QED BY <3>5, <5>1
      <4> QED BY <4>1, <4>2
    <3>9. \A i, j \in DOMAIN pending : pending[i].text = pending[j].text => i = j
      BY <2>1 DEF BubblesInv, Once, Range
    <3>10. \A i, j \in DOMAIN rows : rows[i] = rows[j] => i = j
      BY <2>1 DEF Once
    <3>k. \A x, y : /\ <<"message", x>> # <<"pending", y>>
                    /\ <<"message", x>> = <<"message", y>> => x = y
                    /\ <<"pending", x>> = <<"pending", y>> => x = y
      OBVIOUS
    <3> SUFFICES ASSUME NEW i \in DOMAIN Items, NEW j \in DOMAIN Items, ItemKey(Items[i]) = ItemKey(Items[j])
                 PROVE  i = j
      OBVIOUS
    <3>11. CASE i \in DOMAIN rows /\ ItemKey(Items[i]) = <<"message", rows[i]>>
      <4>1. j \in DOMAIN rows /\ ItemKey(Items[j]) = <<"message", rows[j]>>
        BY <3>8, <3>11, <3>k
      <4>2. rows[i] = rows[j]
        BY <3>11, <3>k, <4>1
      <4> QED BY <3>10, <3>11, <4>1, <4>2
    <3>12. CASE /\ i - Len(rows) \in DOMAIN pending
                /\ ItemKey(Items[i]) = <<"pending", pending[i - Len(rows)].text>>
      <4>1. /\ j - Len(rows) \in DOMAIN pending
            /\ ItemKey(Items[j]) = <<"pending", pending[j - Len(rows)].text>>
        BY <3>8, <3>12, <3>k
      <4>p. pending[i - Len(rows)].text = pending[j - Len(rows)].text
        BY <3>12, <3>k, <4>1
      <4>2. i - Len(rows) = j - Len(rows)
        BY <3>9, <3>12, <4>1, <4>p
      <4>3. i \in Int /\ j \in Int
        BY <3>1, <3>7
      <4> QED BY <3>1, <4>2, <4>3
    <3> QED BY <3>8, <3>11, <3>12
  <2> QED BY <2>1, <2>2, <2>3 DEF PagesJoin
<1> QED BY <1>1, ConversationHolds, PTL

(***************************************************************************)
(* The session.  One socket, and no keys without a session, for any number *)
(* of sockets: SessionInv joins the discipline of the socket to that of    *)
(* unlocking.                                                              *)
(***************************************************************************)

(* disconnect leaves no socket in use. *)
LEMMA DisconnectKeepsOne ==
    ASSUME SocketType, OneSocket, OneAtATime, Disconnect
    PROVE  SocketType' /\ OneSocket' /\ OneAtATime'
<1>1. SocketType' /\ OneSocket'
    BY SessionAssumption DEF SocketType, OneSocket, Disconnect
<1>2. \A s \in Sockets : live'[s] # "none" => live[s] # "none"
    BY SessionAssumption DEF SocketType, OneAtATime, Disconnect
<1> QED
    BY <1>1, <1>2 DEF OneAtATime, Disconnect

(* connect leaves one socket in use; overlap tells when an earlier one is still to be closed. *)
LEMMA ConnectKeepsOne ==
    ASSUME SocketType, OneSocket, OneAtATime, Connect, timer' \in BOOLEAN
    PROVE  SocketType' /\ OneSocket' /\ OneAtATime'
<1>1. CASE socket # NoSocket /\ live[socket] \in {"connecting", "open"}
    BY <1>1 DEF SocketType, OneSocket, OneAtATime, Connect
<1>2. CASE ~(socket # NoSocket /\ live[socket] \in {"connecting", "open"})
    <2>1. PICK s \in Sockets :
             /\ live[s] = "none"
             /\ live' = [live EXCEPT ![s] = "connecting"]
             /\ socket' = s /\ closedByUs' = FALSE
             /\ overlap' = (overlap \/ \E o \in Sockets : live[o] = "closing")
        BY <1>2 DEF Connect
    <2>2. overlap' \in BOOLEAN /\ (~overlap' => ~overlap /\ \A o \in Sockets : live[o] # "closing")
        BY <2>1, Zenon DEF SocketType
    <2>3. ~overlap' => \A o \in Sockets : live[o] = "none"
        BY <1>2, <2>2, SessionAssumption DEF SocketType, OneSocket
    <2> QED
        BY <2>1, <2>2, <2>3 DEF SocketType, OneSocket, OneAtATime
<1> QED
    BY <1>1, <1>2

(* A page just loaded has neither keys nor sockets. *)
THEOREM SessionBegins == SessionInit => SessionInv
BY SessionAssumption
   DEF SessionInit, SessionInv, TypeOK, SocketType, OneSocket, OneAtATime, SignedOutTabForgets, UnlockDiscipline,
       Token, Guest, Screens, Requests, Steps

(* Every handler of the tab keeps the invariant. *)
THEOREM SessionStep == SessionInv /\ [SessionNext]_sessionVars => SessionInv'
<1> SUFFICES ASSUME SessionInv, [SessionNext]_sessionVars PROVE SessionInv'
    OBVIOUS
<1> USE SessionAssumption DEF SessionInv, TypeOK, SocketType, OneSocket, OneAtATime, SignedOutTabForgets,
        UnlockDiscipline, Token, Guest, Screens, Requests, Steps,
        sessionVars, tokens, keys, place, http, ws, account
<1>1. CASE \E s \in Sockets : SocketOpens(s)
    BY <1>1 DEF SocketOpens
<1>2. CASE \E s \in Sockets : SocketBreaks(s)
    BY <1>2 DEF SocketBreaks
<1>3. CASE \E s \in Sockets : SocketClosed(s)
    BY <1>3 DEF SocketClosed
<1>4. CASE Reconnect
    <2>1. SocketType' /\ OneSocket' /\ OneAtATime'
        BY <1>4, ConnectKeepsOne DEF Reconnect
    <2>2. TypeOK' /\ SignedOutTabForgets' /\ UnlockDiscipline'
        BY <1>4, <2>1 DEF Reconnect
    <2> QED
        BY <2>1, <2>2
<1>5. CASE Arrive
    BY <1>5 DEF Arrive, Guarded
<1>6. CASE \E target \in Screens : Navigate(target)
    BY <1>6 DEF Navigate
<1>7. CASE Register
    BY <1>7 DEF Register, On
<1>8. CASE Login
    BY <1>8 DEF Login, On
<1>9. CASE VerifyEmail
    BY <1>9 DEF VerifyEmail, On
<1>10. CASE ResendVerificationEmail
    BY <1>10 DEF ResendVerificationEmail, On
<1>11. CASE ForgotPassword
    BY <1>11 DEF ForgotPassword, On
<1>12. CASE ResetPassword
    <2>1. SocketType' /\ OneSocket' /\ OneAtATime'
        BY <1>12, DisconnectKeepsOne DEF ResetPassword
    <2>2. TypeOK' /\ SignedOutTabForgets' /\ UnlockDiscipline'
        BY <1>12, <2>1 DEF ResetPassword, On, ForgetOpened
    <2> QED
        BY <2>1, <2>2
<1>13. CASE SignOut
    <2>1. SocketType' /\ OneSocket' /\ OneAtATime'
        BY <1>13, DisconnectKeepsOne DEF SignOut
    <2>2. TypeOK' /\ SignedOutTabForgets' /\ UnlockDiscipline'
        BY <1>13, <2>1 DEF SignOut, On, ForgetOpened
    <2> QED
        BY <2>1, <2>2
<1>14. CASE Reload
    BY <1>14 DEF Reload
<1>15. CASE AccessEnds
    BY <1>15 DEF AccessEnds
<1>16. CASE RefreshEnds
    BY <1>16 DEF RefreshEnds
<1>17. CASE \E r \in Requests : Dispatch(r)
    <2> PICK r \in Requests : Dispatch(r)
        BY <1>17
    <2>1. TypeOK' /\ OneSocket' /\ OneAtATime' /\ SignedOutTabForgets'
        BY DEF Dispatch
    <2>2. r = "unlock" => user /\ ~unlocked /\ route = "unlock"
        BY DEF Dispatch, On
    <2>3. req'["unlock"] # "none" => req["unlock"] # "none" \/ r = "unlock"
        BY DEF Dispatch
    <2>4. UnlockDiscipline'
        BY <2>2, <2>3 DEF Dispatch, On
    <2> QED
        BY <2>1, <2>4
<1>18. CASE \E r \in Requests : Settled(r)
    <2> PICK r \in Requests : Settled(r)
        BY <1>18
    <2>1. CASE UNCHANGED <<keys, place, ws>>
        BY <2>1 DEF Settled
    <2>2. CASE r = "unlock" /\ Succeed(r)
        <3>1. SocketType' /\ OneSocket' /\ OneAtATime'
            BY <2>2, ConnectKeepsOne DEF Succeed
        <3>2. TypeOK' /\ SignedOutTabForgets' /\ UnlockDiscipline'
            BY <2>2, <3>1 DEF Settled, Succeed
        <3> QED
            BY <3>1, <3>2
    <2>3. CASE r # "unlock" /\ Succeed(r)
        BY <2>3 DEF Settled, Succeed
    <2> QED
        BY <2>1, <2>2, <2>3 DEF Settled
<1>19. CASE \E r \in Requests : Unauthorized(r)
    BY <1>19 DEF Unauthorized
<1>20. CASE Refreshed
    <2>1. req' \in [Requests -> Steps] /\ (req'["unlock"] # "none" => req["unlock"] # "none")
        BY <1>20 DEF Refreshed
    <2>2. SocketType' /\ OneSocket' /\ OneAtATime'
        BY <1>20 DEF Refreshed
    <2>3. TypeOK'
        BY <1>20, <2>1, <2>2 DEF Refreshed
    <2>4. SignedOutTabForgets' /\ UnlockDiscipline'
        BY <1>20, <2>1 DEF Refreshed
    <2> QED
        BY <2>2, <2>3, <2>4
<1>21. CASE RefreshFails
    <2>1. req' \in [Requests -> Steps] /\ (req'["unlock"] # "none" => req["unlock"] # "none")
        BY <1>21 DEF RefreshFails
    <2>2. SocketType' /\ OneSocket' /\ OneAtATime'
        BY <1>21 DEF RefreshFails
    <2>3. TypeOK'
        BY <1>21, <2>1, <2>2 DEF RefreshFails
    <2>4. SignedOutTabForgets' /\ UnlockDiscipline'
        BY <1>21, <2>1 DEF RefreshFails
    <2> QED
        BY <2>2, <2>3, <2>4
<1>22. CASE Decrypted
    <2>1. /\ UNCHANGED <<access, refresh, verified, user, unlocked, late, route, nav, req, refreshing>>
          /\ UNCHANGED ws
        BY <1>22 DEF Decrypted
    <2>2. busy /\ busy' \in BOOLEAN /\ opened' \in BOOLEAN
        BY <1>22, Zenon DEF Decrypted
    <2>3. TypeOK' /\ OneSocket' /\ OneAtATime'
        BY <2>1, <2>2
    <2>4. SignedOutTabForgets' /\ UnlockDiscipline'
        BY <1>22 DEF Decrypted
    <2> QED
        BY <2>3, <2>4
<1>23. CASE UNCHANGED sessionVars
    BY <1>23
<1> QED
    BY <1>1, <1>2, <1>3, <1>4, <1>5, <1>6, <1>7, <1>8, <1>9, <1>10, <1>11, <1>12, <1>13, <1>14,
       <1>15, <1>16, <1>17, <1>18, <1>19, <1>20, <1>21, <1>22, <1>23 DEF SessionNext

(* What the two theorems below rest on. *)
THEOREM SessionSafe == SessionSpec => []SessionInv
<1> QED
    BY SessionBegins, SessionStep, PTL DEF SessionSpec

(* websocket.service.ts: connect, disconnect, onclose and the reconnection timer leave one       *)
(* socket in use, unless a connection is made while an earlier one is closing.                   *)
THEOREM SocketsSafe == SessionSpec => []OneSocket
<1>1. SessionInv => OneSocket
    BY DEF SessionInv
<1> QED
    BY <1>1, SessionSafe, PTL

(* session.service.ts and refresh.interceptor.ts: without a session, no key is open and nothing   *)
(* is retained but by a decryption that was under way when the user signed out.                  *)
THEOREM KeysForgotten == SessionSpec => []SignedOutTabForgets
<1>1. SessionInv => SignedOutTabForgets
    BY DEF SessionInv
<1> QED
    BY <1>1, SessionSafe, PTL
============================================================================
