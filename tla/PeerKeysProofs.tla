---------------------------- MODULE PeerKeysProofs ----------------------------
(***************************************************************************)
(* What the marks beside a message and a contact are worth, for any number *)
(* of peers, devices, chats, messages, misplaced records and tabs.         *)
(***************************************************************************)
EXTENDS PeerKeysProps, TLAPS

Statuses == {"none", "ok", "no_key", "failed", "plaintext"}

(* A stored message is an envelope or a post of someone who said it, under whatever chat and name *)
(* the storage has it now.                                                                        *)
Doc(x, format) ==
    x \in [chat : Chats \cup {Channel}, sender : Peers, format : {format}, body : {x.body}]

SealedDoc(x) ==
    /\ Doc(x, "sealed")
    /\ \E b \in Chats, v \in Peers, s \in Skids, i \in 0..MaxSeals :
          x.body = Seal(b, v, s, i) /\ <<b, v, <<s, i>>>> \in said

PostedDoc(m, x) ==
    /\ Doc(x, "post")
    /\ \E d \in Devices : x.body = SignPost(d, Channel, Owner[d], m) /\ <<Channel, Owner[d], m>> \in said

DocsInv ==
    /\ docs = [m \in Docs |-> docs[m]]
    /\ \A m \in Docs : docs[m] = NoDoc \/ SealedDoc(docs[m]) \/ PostedDoc(m, docs[m])

(* A distribution carries at most the grant that its device wrapped for the reader, for one chat, *)
(* wherever the distribution lies now.                                                            *)
MintedFor(s, x, b) ==
    /\ x \in [chat : Chats, device : Devices, signing : {Chain(s)}, signature : {x.signature},
              members : {x.members}, grants : {x.grants}]
    /\ x.signature = SignDistribution(x.device, b, s, Chain(s))
    /\ x.grants \subseteq {WrapChain(b, s, x.device, Reader)}

DistsInv ==
    /\ dists = [s \in Skids |-> dists[s]]
    /\ \A s \in Skids : dists[s] = NoDist \/ \E b \in Chats : MintedFor(s, dists[s], b)

PeerTypes ==
    /\ status \in [Devices -> {"none", "active", "revoked"}]
    /\ next \in [Skids -> 0..MaxSeals]
    /\ faults \in 0..Faults
    /\ rows \in [Docs -> [status : Statuses, verified : BOOLEAN]]
    /\ shown.tab \in Tabs \cup {None}
    /\ vouched = [s \in Skids |-> vouched[s]] /\ \A s \in Skids : vouched[s] \in {None, Chain(s)}

RecordsInv == PeerTypes /\ DocsInv /\ DistsInv

(* The reader holds a chain only in the chat it was minted for, and as long as there is its       *)
(* distribution.                                                                                  *)
HeldInv ==
    /\ chains = [c \in Chats |-> chains[c]] /\ \A c \in Chats : chains[c] = [s \in Skids |-> chains[c][s]]
    /\ \A c \in Chats, s \in Skids :
          chains[c][s].held => dists[s] # NoDist /\ MintedFor(s, dists[s], c) /\ dists[s].grants # {}
    /\ \A c \in Chats, s \in Skids : chains[c][s] = [index |-> chains[c][s].index, skipped |-> chains[c][s].skipped,
                                                    held |-> chains[c][s].held]

(* ChainsKeepToTheirChat: although a distribution may turn up in another chat, the reader never   *)
(* holds one chain in two chats (unwrapChain, bound to the chat by its key and associated data).  *)
ChainsKeepToTheirChat ==
    \A s \in Skids, c, b \in Chats : chains[c][s].held /\ chains[b][s].held => c = b
----------------------------------------------------------------------------
(* What signatures and boxes are bound to.                                 *)

(* An envelope opens for the chat and the name it was sealed for and no other. *)
LEMMA EnvelopesAreBound ==
    ASSUME NEW b, NEW v, NEW s, NEW i, NEW signing, NEW c, NEW u, OpensMessage(Seal(b, v, s, i), signing, c, u)
    PROVE  c = b /\ u = v
<1>1. Box(<<s, i>>, MessageAad(b, v, s, i)) = Box(<<s, i>>, MessageAad(c, u, s, i))
  BY DEF OpensMessage, Opens, Seal
<1>2. MessageAad(b, v, s, i) = MessageAad(c, u, s, i)
  BY <1>1 DEF Box
<1> QED BY <1>2 DEF MessageAad

(* A post verifies in the channel and under the name it was signed for and no other. *)
LEMMA PostsAreBound ==
    ASSUME NEW d, NEW b, NEW v, NEW m, NEW k, NEW c, NEW u, VerifyPost(SignPost(d, b, v, m), k, c, u, m)
    PROVE  c = b /\ u = v
<1>1. Signature(Identity(d), PostPayload(b, v, m)) = Signature(Identity(k), PostPayload(c, u, m))
  BY DEF VerifyPost, SignPost, Verifies
<1>2. PostPayload(b, v, m) = PostPayload(c, u, m)
  BY <1>1 DEF Signature
<1> QED BY <1>2 DEF PostPayload

(* A grant unwraps in the chat it was wrapped for and no other. *)
LEMMA GrantsAreBound ==
    ASSUME NEW b, NEW s, NEW d, NEW r, NEW c, NEW e, NEW q, UnwrapsChain(WrapChain(b, s, d, r), c, s, e, q)
    PROVE  c = b
<1>1. Box(WrapKey(r, b, GrantAad(b, s, d, r)), GrantAad(b, s, d, r))
        = Box(WrapKey(q, c, GrantAad(c, s, e, q)), GrantAad(c, s, e, q))
  BY DEF UnwrapsChain, WrapChain, Opens
<1>2. GrantAad(b, s, d, r) = GrantAad(c, s, e, q)
  BY <1>1 DEF Box
<1> QED BY <1>2 DEF GrantAad

(* A distribution is signed for one chat. *)
LEMMA OneChatPerChain ==
    ASSUME NEW s, NEW x, NEW b, NEW c, MintedFor(s, x, b), MintedFor(s, x, c)
    PROVE  b = c
BY DEF MintedFor, SignDistribution, Signature, DistributionPayload

----------------------------------------------------------------------------
(* The records.                                                            *)

(* In the first state there are none. *)
LEMMA PeerInit == Init => RecordsInv /\ HeldInv
<1> SUFFICES ASSUME Init PROVE RecordsInv /\ HeldInv
  OBVIOUS
<1>1. PeerTypes
  BY PeerAssumption DEF Init, PeerTypes, NoRow, Statuses
<1>2. DocsInv
  BY DEF Init, DocsInv
<1>3. DistsInv
  BY DEF Init, DistsInv
<1>4. HeldInv
  BY DEF Init, HeldInv, NoChain
<1> QED BY <1>1, <1>2, <1>3, <1>4 DEF RecordsInv

(* What was said stays said, so that a message nobody touches stays such. *)
LEMMA SayingsLast ==
    ASSUME said \subseteq said', NEW m \in Docs, NEW x,
           x = NoDoc \/ SealedDoc(x) \/ PostedDoc(m, x)
    PROVE  x = NoDoc \/ SealedDoc(x)' \/ PostedDoc(m, x)'
BY DEF SealedDoc, PostedDoc

(* A step that changes one message. *)
LEMMA OneDocChanges ==
    ASSUME DocsInv, said \subseteq said', NEW m \in Docs, NEW x, docs' = [docs EXCEPT ![m] = x],
           SealedDoc(x)' \/ PostedDoc(m, x)'
    PROVE  DocsInv'
<1>1. docs' = [k \in Docs |-> IF k = m THEN x ELSE docs[k]]
  BY DEF DocsInv
<1>2. ASSUME NEW k \in Docs
      PROVE  docs'[k] = NoDoc \/ SealedDoc(docs[k])' \/ PostedDoc(k, docs[k])'
  <2>1. CASE k = m
    BY <1>1, <2>1
  <2>2. CASE k # m
    BY <1>1, <2>2, SayingsLast DEF DocsInv
  <2> QED BY <2>1, <2>2
<1>3. docs' = [k \in Docs |-> docs'[k]]
  BY <1>1
<1> QED BY <1>2, <1>3 DEF DocsInv
(* Replacing fields of a stored message. *)
LEMMA Rebodied ==
    ASSUME NEW f, NEW x, Doc(x, f), NEW env
    PROVE  Doc([x EXCEPT !.body = env], f) /\ [x EXCEPT !.body = env].body = env
BY DEF Doc

(* A message sent, edited or misplaced is still what someone said. *)
LEMMA SendKeepsDocs ==
    ASSUME RecordsInv, NEW d \in Devices, NEW s \in Skids, NEW c \in Chats, NEW m \in Docs, Send(d, c, s, m)
    PROVE  DocsInv'
<1>1. PICK i \in 0..MaxSeals : i = next[s]
  BY DEF RecordsInv, PeerTypes
<1> DEFINE env == Seal(c, Owner[d], s, i)
           x == [chat |-> c, sender |-> Owner[d], format |-> "sealed", body |-> env]
<1>2. docs' = [docs EXCEPT ![m] = x] /\ said' = said \cup {<<c, Owner[d], <<s, i>>>>}
  BY <1>1 DEF Send, Says
<1>3. Owner[d] \in Peers
  BY PeerAssumption
<1>4. Doc(x, "sealed") /\ x.body = env
  BY <1>3 DEF Doc
<1> HIDE DEF x
<1>5. SealedDoc(x)'
  BY <1>2, <1>3, <1>4 DEF SealedDoc
<1> QED BY <1>2, <1>5, OneDocChanges DEF RecordsInv

LEMMA EditKeepsDocs ==
    ASSUME RecordsInv, NEW d \in Devices, NEW s \in Skids, NEW c \in Chats, NEW m \in Docs, Edit(d, c, s, m)
    PROVE  DocsInv'
<1>1. PICK i \in 0..MaxSeals : i = next[s]
  BY DEF RecordsInv, PeerTypes
<1> DEFINE env == Seal(c, Owner[d], s, i)
<1>2. docs' = [docs EXCEPT ![m].body = env] /\ said' = said \cup {<<c, Owner[d], <<s, i>>>>}
  BY <1>1 DEF Edit, Says
<1>3. Owner[d] \in Peers
  BY PeerAssumption
<1>4. docs[m] # NoDoc /\ docs[m].format = "sealed"
  BY DEF Edit
<1>5. Doc(docs[m], "sealed")
  BY <1>4 DEF RecordsInv, DocsInv, SealedDoc, PostedDoc, Doc
<1>6. PICK x : x = [docs[m] EXCEPT !.body = env]
  OBVIOUS
<1>7. docs' = [docs EXCEPT ![m] = x]
  BY <1>2, <1>6
<1>8. Doc(x, "sealed") /\ x.body = env
  BY <1>5, <1>6, Rebodied
<1>9. SealedDoc(x)'
  BY <1>2, <1>3, <1>8 DEF SealedDoc
<1> QED BY <1>2, <1>7, <1>9, OneDocChanges DEF RecordsInv

LEMMA PostKeepsDocs ==
    ASSUME RecordsInv, NEW d \in Devices, NEW m \in Docs, Post(d, m)
    PROVE  DocsInv'
<1> DEFINE sig == SignPost(d, Channel, Owner[d], m)
           x == [chat |-> Channel, sender |-> Owner[d], format |-> "post", body |-> sig]
<1>1. docs' = [docs EXCEPT ![m] = x] /\ said' = said \cup {<<Channel, Owner[d], m>>}
  BY DEF Post, Says
<1>2. Owner[d] \in Peers
  BY PeerAssumption
<1>3. Doc(x, "post") /\ x.body = sig
  BY <1>2 DEF Doc
<1> HIDE DEF x
<1>4. PostedDoc(m, x)'
  BY <1>1, <1>3 DEF PostedDoc
<1> QED BY <1>1, <1>4, OneDocChanges DEF RecordsInv

LEMMA MisplaceKeepsDocs ==
    ASSUME RecordsInv, NEW m \in Docs, Misplace(m)
    PROVE  DocsInv'
<1>1. PICK c \in Chats \cup {Channel}, u \in Peers : docs' = [docs EXCEPT ![m].chat = c, ![m].sender = u]
  BY DEF Misplace
<1>2. docs[m] # NoDoc /\ said' = said
  BY DEF Misplace
<1>3. PICK x : x = [docs[m] EXCEPT !.chat = c, !.sender = u]
  OBVIOUS
<1>4. docs' = [docs EXCEPT ![m] = x]
  BY <1>1, <1>3
<1>5. ASSUME NEW f, Doc(docs[m], f) PROVE Doc(x, f) /\ x.body = docs[m].body
  BY <1>1, <1>3, <1>5 DEF Doc
<1>6. SealedDoc(docs[m]) => SealedDoc(x)'
  BY <1>2, <1>5 DEF SealedDoc
<1>7. PostedDoc(m, docs[m]) => PostedDoc(m, x)'
  BY <1>2, <1>5 DEF PostedDoc
<1>8. SealedDoc(docs[m]) \/ PostedDoc(m, docs[m])
  BY <1>2 DEF RecordsInv, DocsInv
<1> QED BY <1>2, <1>4, <1>6, <1>7, <1>8, OneDocChanges DEF RecordsInv

(* So every step leaves the stored messages such. *)
LEMMA DocsStep ==
    ASSUME RecordsInv, [Next]_vars
    PROVE  DocsInv'
<1>1. CASE UNCHANGED <<docs, said>>
  BY <1>1 DEF RecordsInv, DocsInv, SealedDoc, PostedDoc
<1>2. CASE \E d \in Devices, s \in Skids, c \in Chats, m \in Docs : Send(d, c, s, m) \/ Edit(d, c, s, m)
  BY <1>2, SendKeepsDocs, EditKeepsDocs
<1>3. CASE \E d \in Devices, m \in Docs : Post(d, m)
  BY <1>3, PostKeepsDocs
<1>4. CASE \E m \in Docs : Misplace(m)
  BY <1>4, MisplaceKeepsDocs
<1> QED BY <1>1, <1>2, <1>3, <1>4
        DEF Next, vars, published, store, reading, trust, Publish, Mint, Reset, MisplaceGrant, Ingest, ReadPost,
            Unreadable, Read, Load, Leave, MarkVerified, Forget, OpenTab
----------------------------------------------------------------------------
(* What the reader makes of them.                                          *)

(* What a row is given. *)
LEMMA RowGiven ==
    ASSUME PeerTypes, NEW m \in Docs, NEW st, NEW verified, Shows(m, st, verified)
    PROVE  /\ rows'[m] = [status |-> st, verified |-> verified]
           /\ \A k \in Docs \ {m} : rows'[k] = rows[k]
BY DEF Shows, PeerTypes

(* A post that verifies was signed by the peer it names. *)
LEMMA PostsAreSaid ==
    ASSUME RecordsInv, NEW m \in Docs, NEW k \in Devices, docs[m] # NoDoc, docs[m].format = "post",
           VerifyPost(docs[m].body, k, docs[m].chat, docs[m].sender, m)
    PROVE  <<docs[m].chat, docs[m].sender, Mark(m)>> \in said
<1>1. ~Doc(docs[m], "sealed")
  BY DEF Doc
<1>2. PICK d \in Devices : docs[m].body = SignPost(d, Channel, Owner[d], m) /\ <<Channel, Owner[d], m>> \in said
  BY <1>1 DEF RecordsInv, DocsInv, SealedDoc, PostedDoc
<1>3. docs[m].chat = Channel /\ docs[m].sender = Owner[d]
  BY <1>2, PostsAreBound
<1> QED BY <1>2, <1>3 DEF Mark

(* A message that opens was sealed by the peer it names, for the chat it is in. *)
LEMMA MessagesAreSaid ==
    ASSUME RecordsInv, NEW m \in Docs, docs[m] # NoDoc, docs[m].format = "sealed", NEW signing,
           OpensMessage(docs[m].body, signing, docs[m].chat, docs[m].sender)
    PROVE  <<docs[m].chat, docs[m].sender, Mark(m)>> \in said
<1>1. ~Doc(docs[m], "post")
  BY DEF Doc
<1>2. PICK b \in Chats, v \in Peers, s \in Skids, i \in 0..MaxSeals :
         docs[m].body = Seal(b, v, s, i) /\ <<b, v, <<s, i>>>> \in said
  BY <1>1 DEF RecordsInv, DocsInv, SealedDoc, PostedDoc
<1>3. docs[m].chat = b /\ docs[m].sender = v
  BY <1>2, EnvelopesAreBound
<1>4. docs[m].body.skid = s /\ docs[m].body.idx = i
  BY <1>2 DEF Seal
<1> QED BY <1>2, <1>3, <1>4 DEF Mark

(* One step of the reader. *)
LEMMA AuthenticStep ==
    ASSUME RecordsInv, [Next]_vars, NEW m \in Docs, rows'[m] # rows[m],
           rows'[m].verified \/ rows'[m].status = "ok"
    PROVE  <<docs[m].chat, docs[m].sender, Mark(m)>> \in said
<1>1. PeerTypes
  BY DEF RecordsInv
<1>2. ASSUME NEW k \in Docs, ReadPost(k) PROVE <<docs[m].chat, docs[m].sender, Mark(m)>> \in said
  <2>1. \/ Shows(k, "plaintext", FALSE)
        \/ \E d \in ActiveOf(docs[k].sender) :
             Shows(k, "plaintext", VerifyPost(docs[k].body, d, docs[k].chat, docs[k].sender, k))
    BY <1>2, Zenon DEF ReadPost
  <2>2. k = m
    BY <1>1, <2>1, RowGiven
  <2>3. ASSUME Shows(m, "plaintext", FALSE) PROVE FALSE
    <3>1. rows'[m] = [status |-> "plaintext", verified |-> FALSE]
      BY <1>1, <2>3, RowGiven
    <3> QED BY <3>1
  <2>4. PICK d \in ActiveOf(docs[m].sender) :
             Shows(m, "plaintext", VerifyPost(docs[m].body, d, docs[m].chat, docs[m].sender, m))
    BY <2>1, <2>2, <2>3
  <2>5. VerifyPost(docs[m].body, d, docs[m].chat, docs[m].sender, m)
    <3>1. PICK v : v = VerifyPost(docs[m].body, d, docs[m].chat, docs[m].sender, m)
      OBVIOUS
    <3>2. rows'[m] = [status |-> "plaintext", verified |-> v]
      BY <1>1, <2>4, <3>1, RowGiven
    <3>3. rows'[m].status = "plaintext" /\ rows'[m].verified = v
      BY <3>2
    <3>4. v
      BY <3>3
    <3> QED BY <3>1, <3>4, Zenon
  <2>6. docs[m] # NoDoc /\ docs[m].format = "post" /\ d \in Devices
    BY <1>2, <2>2 DEF ReadPost, Readable, ActiveOf
  <2> QED BY <2>5, <2>6, PostsAreSaid
<1>3. ASSUME NEW k \in Docs, Read(k) PROVE <<docs[m].chat, docs[m].sender, Mark(m)>> \in said
  <2> DEFINE signing == GetChainSigningKey(docs[k].body.skid)
             opens == OpensMessage(docs[k].body, signing, docs[k].chat, docs[k].sender)
  <2>1. \/ opens /\ Shows(k, "ok", signing # None)
        \/ Shows(k, "failed", FALSE)
    BY <1>3 DEF Read
  <2>2. docs[k] # NoDoc /\ docs[k].format = "sealed"
    BY <1>3 DEF Read, Readable
  <2>3. PICK verified : \/ opens /\ Shows(k, "ok", verified)
                        \/ Shows(k, "failed", FALSE)
    BY <2>1
  <2> HIDE DEF opens
  <2>4. k = m
    BY <1>1, <2>3, RowGiven
  <2>5. ~Shows(m, "failed", FALSE)
    <3> SUFFICES ASSUME Shows(m, "failed", FALSE) PROVE FALSE
      OBVIOUS
    <3>1. rows'[m] = [status |-> "failed", verified |-> FALSE]
      BY <1>1, RowGiven
    <3> QED BY <3>1
  <2>6. opens
    BY <2>3, <2>4, <2>5
  <2> QED BY <2>2, <2>4, <2>6, MessagesAreSaid DEF opens
<1>4. ASSUME NEW k \in Docs, Unreadable(k) PROVE FALSE
  <2>1. Shows(k, "no_key", FALSE)
    BY <1>4 DEF Unreadable
  <2>2. rows'[k] = [status |-> "no_key", verified |-> FALSE] /\ \A j \in Docs \ {k} : rows'[j] = rows[j]
    BY <1>1, <2>1, RowGiven
  <2>3. m = k
    BY <2>2
  <2> QED BY <2>2, <2>3
<1>5. ASSUME NEW d \in Devices, NEW s \in Skids, NEW c \in Chats, NEW k \in Docs, Edit(d, c, s, k) PROVE FALSE
  <2>1. rows' = [rows EXCEPT ![k] = NoRow]
    BY <1>5 DEF Edit
  <2> QED BY <1>1, <2>1 DEF PeerTypes, NoRow
<1>6. CASE rows' = rows
  BY <1>6
<1>7. \/ rows' = rows
      \/ \E k \in Docs : ReadPost(k) \/ Read(k) \/ Unreadable(k)
      \/ \E d \in Devices, s \in Skids, c \in Chats, k \in Docs : Edit(d, c, s, k)
  <2>1. CASE UNCHANGED vars
    BY <2>1 DEF vars, reading
  <2>2. ASSUME NEW d \in Devices, \/ Publish(d) \/ \E s \in Skids, c \in Chats : Mint(d, c, s)
                                  \/ \E s \in Skids, c \in Chats, k \in Docs : Send(d, c, s, k)
                                  \/ \E k \in Docs : Post(d, k)
        PROVE  rows' = rows
    BY <2>2 DEF Publish, Mint, Send, Post, reading
  <2>3. ASSUME NEW u \in Peers, Reset(u) \/ \E t \in Tabs : Load(t, u) PROVE rows' = rows
    BY <2>3 DEF Reset, Load, reading
  <2>4. ASSUME NEW s \in Skids, MisplaceGrant(s) \/ Ingest(s) PROVE rows' = rows
    BY <2>4 DEF MisplaceGrant, Ingest, reading
  <2>5. ASSUME NEW k \in Docs, Misplace(k) PROVE rows' = rows
    BY <2>5 DEF Misplace, reading
  <2>6. CASE Leave \/ MarkVerified \/ Forget \/ \E t \in Tabs : OpenTab(t)
    BY <2>6 DEF Leave, MarkVerified, Forget, OpenTab, reading
  <2> QED BY <2>1, <2>2, <2>3, <2>4, <2>5, <2>6 DEF Next
<1> QED BY <1>2, <1>3, <1>4, <1>5, <1>6, <1>7
----------------------------------------------------------------------------
(* Types, distributions and chains.                                        *)

LEMMA TypesStep ==
    ASSUME RecordsInv, [Next]_vars
    PROVE  PeerTypes'
<1> USE DEF PeerTypes, RecordsInv, published, store, reading, trust
<1>1. CASE UNCHANGED vars
  BY <1>1 DEF vars
<1>2. ASSUME NEW d \in Devices, Publish(d) PROVE PeerTypes'
  BY <1>2 DEF Publish
<1>3. ASSUME NEW u \in Peers, Reset(u) PROVE PeerTypes'
  BY <1>3 DEF Reset
<1>4. ASSUME NEW d \in Devices, NEW s \in Skids, NEW c \in Chats, Mint(d, c, s) PROVE PeerTypes'
  BY <1>4 DEF Mint
<1>5. ASSUME NEW d \in Devices, NEW s \in Skids, NEW c \in Chats, NEW m \in Docs, Send(d, c, s, m) \/ Edit(d, c, s, m)
      PROVE  PeerTypes'
  <2>1. next[s] + 1 \in 0..MaxSeals
    BY <1>5, PeerAssumption DEF Send, Edit, MaySeal
  <2>2. NoRow \in [status : Statuses, verified : BOOLEAN]
    BY DEF NoRow, Statuses
  <2> QED BY <1>5, <2>1, <2>2 DEF Send, Edit
<1>6. ASSUME NEW d \in Devices, NEW m \in Docs, Post(d, m) PROVE PeerTypes'
  BY <1>6 DEF Post
<1>7. ASSUME NEW m \in Docs, Misplace(m) PROVE PeerTypes'
  BY <1>7, PeerAssumption DEF Misplace
<1>8. ASSUME NEW s \in Skids, MisplaceGrant(s) PROVE PeerTypes'
  BY <1>8, PeerAssumption DEF MisplaceGrant
<1>9. ASSUME NEW s \in Skids, Ingest(s) PROVE PeerTypes'
  <2>1. dists[s].signing = Chain(s)
    BY <1>9 DEF Ingest, DistsInv, MintedFor
  <2>2. vouched' = [vouched EXCEPT ![s] = Chain(s)]
    BY <1>9, <2>1 DEF Ingest
  <2> QED BY <1>9, <2>2 DEF Ingest
<1>10. ASSUME NEW m \in Docs, NEW st \in Statuses, NEW verified \in BOOLEAN, Shows(m, st, verified)
       PROVE  rows' \in [Docs -> [status : Statuses, verified : BOOLEAN]]
  BY <1>10 DEF Shows
<1>11. ASSUME NEW m \in Docs, ReadPost(m) PROVE PeerTypes'
  <2>1. \E verified \in BOOLEAN : Shows(m, "plaintext", verified)
    <3>1. CASE Shows(m, "plaintext", FALSE)
      BY <3>1
    <3>2. ASSUME NEW k, Shows(m, "plaintext", VerifyPost(docs[m].body, k, docs[m].chat, docs[m].sender, m))
          PROVE  \E verified \in BOOLEAN : Shows(m, "plaintext", verified)
      <4>1. VerifyPost(docs[m].body, k, docs[m].chat, docs[m].sender, m) \in BOOLEAN
        BY DEF VerifyPost, Verifies
      <4> QED BY <3>2, <4>1
    <3> QED BY <1>11, <3>1, <3>2, Zenon DEF ReadPost
  <2>2. rows' \in [Docs -> [status : Statuses, verified : BOOLEAN]]
    BY <1>10, <2>1 DEF Statuses
  <2> QED BY <1>11, <2>2 DEF ReadPost
<1>12. ASSUME NEW m \in Docs, Unreadable(m) PROVE PeerTypes'
  <2>1. Shows(m, "no_key", FALSE)
    BY <1>12 DEF Unreadable
  <2>2. rows' \in [Docs -> [status : Statuses, verified : BOOLEAN]]
    BY <1>10, <2>1 DEF Statuses
  <2> QED BY <1>12, <2>2 DEF Unreadable
<1>13. ASSUME NEW m \in Docs, Read(m) PROVE PeerTypes'
  <2>1. \/ Shows(m, "ok", GetChainSigningKey(docs[m].body.skid) # None)
        \/ Shows(m, "failed", FALSE)
    BY <1>13 DEF Read
  <2>2. rows' \in [Docs -> [status : Statuses, verified : BOOLEAN]]
    BY <1>10, <2>1 DEF Statuses
  <2> QED BY <1>13, <2>2 DEF Read
<1>14. ASSUME NEW t \in Tabs, NEW u \in Peers, Load(t, u) PROVE PeerTypes'
  <2>1. shown'.tab = t
    BY <1>14 DEF Load
  <2> QED BY <1>14, <2>1 DEF Load
<1>15. CASE Leave
  BY <1>15 DEF Leave
<1>16. CASE MarkVerified \/ Forget \/ \E t \in Tabs : OpenTab(t)
  BY <1>16 DEF MarkVerified, Forget, OpenTab
<1> QED BY <1>1, <1>2, <1>3, <1>4, <1>5, <1>6, <1>7, <1>8, <1>9, <1>11, <1>12, <1>13, <1>14, <1>15, <1>16 DEF Next
(* A distribution that was found in another chat is minted for the chat it was minted for. *)
LEMMA MintedMoves ==
    ASSUME NEW s, NEW x, NEW b, MintedFor(s, x, b), NEW c \in Chats, NEW y, y = [x EXCEPT !.chat = c]
    PROVE  MintedFor(s, y, b) /\ y.grants = x.grants
BY DEF MintedFor

LEMMA MintKeepsDists ==
    ASSUME RecordsInv, NEW d \in Devices, NEW s \in Skids, NEW c \in Chats, Mint(d, c, s)
    PROVE  DistsInv'
<1>1. PICK to \in {{}, {Reader}} :
         dists' = [dists EXCEPT ![s] = [chat |-> c, device |-> d, signing |-> Chain(s),
                      signature |-> SignDistribution(d, c, s, Chain(s)),
                      members |-> MemberSet({d} \cup to),
                      grants |-> {WrapChain(c, s, d, r) : r \in to}]]
  BY DEF Mint
<1> DEFINE x == [chat |-> c, device |-> d, signing |-> Chain(s), signature |-> SignDistribution(d, c, s, Chain(s)),
                 members |-> MemberSet({d} \cup to), grants |-> {WrapChain(c, s, d, r) : r \in to}]
<1>2. MintedFor(s, x, c)
  BY DEF MintedFor
<1> HIDE DEF x
<1>3. dists' = [dists EXCEPT ![s] = x]
  BY <1>1 DEF x
<1> QED BY <1>2, <1>3 DEF RecordsInv, DistsInv

LEMMA MisplaceKeepsDists ==
    ASSUME RecordsInv, NEW s \in Skids, MisplaceGrant(s)
    PROVE  DistsInv'
<1>1. PICK c \in Chats : dists' = [dists EXCEPT ![s].chat = c]
  BY DEF MisplaceGrant
<1>2. PICK y : y = [dists[s] EXCEPT !.chat = c]
  OBVIOUS
<1>3. dists' = [dists EXCEPT ![s] = y]
  BY <1>1, <1>2
<1>4. PICK b \in Chats : MintedFor(s, dists[s], b)
  BY DEF MisplaceGrant, RecordsInv, DistsInv
<1>5. MintedFor(s, y, b)
  BY <1>1, <1>2, <1>4, MintedMoves
<1> QED BY <1>3, <1>4, <1>5 DEF RecordsInv, DistsInv

(* Only peers that mint chains, and faults, change the distributions. *)
LEMMA DistsChange ==
    ASSUME [Next]_vars
    PROVE  \/ UNCHANGED dists
           \/ \E d \in Devices, s \in Skids, c \in Chats : Mint(d, c, s)
           \/ \E s \in Skids : MisplaceGrant(s)
<1>1. CASE UNCHANGED vars
  BY <1>1 DEF vars, published
<1>2. ASSUME NEW d \in Devices, \/ Publish(d)
                                \/ \E s \in Skids, c \in Chats, m \in Docs : Send(d, c, s, m) \/ Edit(d, c, s, m)
                                \/ \E m \in Docs : Post(d, m)
      PROVE  UNCHANGED dists
  BY <1>2 DEF Publish, Send, Edit, Post, published
<1>3. ASSUME NEW u \in Peers, Reset(u) \/ \E t \in Tabs : Load(t, u) PROVE UNCHANGED dists
  BY <1>3 DEF Reset, Load, published
<1>4. ASSUME NEW m \in Docs, Misplace(m) \/ ReadPost(m) \/ Unreadable(m) \/ Read(m) PROVE UNCHANGED dists
  <2>1. CASE Misplace(m)
    BY <2>1 DEF Misplace, published
  <2>2. CASE ReadPost(m)
    BY <2>2 DEF ReadPost, published
  <2>3. CASE Unreadable(m)
    BY <2>3 DEF Unreadable, published
  <2>4. CASE Read(m)
    BY <2>4 DEF Read, published
  <2> QED BY <1>4, <2>1, <2>2, <2>3, <2>4
<1>5. ASSUME NEW s \in Skids, Ingest(s) PROVE UNCHANGED dists
  BY <1>5 DEF Ingest, published
<1>6. CASE Leave \/ MarkVerified \/ Forget \/ \E t \in Tabs : OpenTab(t)
  BY <1>6 DEF Leave, MarkVerified, Forget, OpenTab, published
<1> QED BY <1>1, <1>2, <1>3, <1>4, <1>5, <1>6 DEF Next

LEMMA DistsStep ==
    ASSUME RecordsInv, [Next]_vars
    PROVE  DistsInv'
<1>1. CASE UNCHANGED dists
  BY <1>1 DEF RecordsInv, DistsInv
<1>2. CASE \E d \in Devices, s \in Skids, c \in Chats : Mint(d, c, s)
  BY <1>2, MintKeepsDists
<1>3. CASE \E s \in Skids : MisplaceGrant(s)
  BY <1>3, MisplaceKeepsDists
<1> QED BY <1>1, <1>2, <1>3, DistsChange

(* The chains a step leaves alone stay held for the same distributions. *)
LEMMA HeldStays ==
    ASSUME RecordsInv, HeldInv, [Next]_vars, NEW c \in Chats, NEW s \in Skids, chains[c][s].held
    PROVE  dists'[s] # NoDist /\ MintedFor(s, dists'[s], c) /\ dists'[s].grants # {}
<1>1. dists[s] # NoDist /\ MintedFor(s, dists[s], c) /\ dists[s].grants # {}
  BY DEF HeldInv
<1>2. CASE dists'[s] = dists[s]
  BY <1>1, <1>2
<1>3. ASSUME NEW d \in Devices, NEW r \in Skids, NEW b \in Chats, Mint(d, b, r) PROVE dists'[s] = dists[s]
  BY <1>1, <1>3 DEF Mint, RecordsInv, DistsInv
<1>4. ASSUME NEW r \in Skids, MisplaceGrant(r), r # s PROVE dists'[s] = dists[s]
  BY <1>4 DEF MisplaceGrant, RecordsInv, DistsInv
<1>5. ASSUME MisplaceGrant(s)
      PROVE  dists'[s] # NoDist /\ MintedFor(s, dists'[s], c) /\ dists'[s].grants # {}
  <2>1. PICK b \in Chats : dists' = [dists EXCEPT ![s].chat = b]
    BY <1>5 DEF MisplaceGrant
  <2>2. dists'[s] = [dists[s] EXCEPT !.chat = b]
    BY <2>1 DEF RecordsInv, DistsInv
  <2>3. MintedFor(s, dists'[s], c) /\ dists'[s].grants = dists[s].grants
    BY <1>1, <2>1, <2>2, MintedMoves
  <2>4. dists'[s] # NoDist
    BY <2>3 DEF MintedFor, NoDist
  <2> QED BY <1>1, <2>3, <2>4
<1> QED BY <1>2, <1>3, <1>4, <1>5, DistsChange
(* A chain is taken up in the chat it was minted for. *)
LEMMA IngestKeepsHeld ==
    ASSUME RecordsInv, HeldInv, NEW s \in Skids, Ingest(s)
    PROVE  HeldInv'
<1> DEFINE c == dists[s].chat
<1>1. dists[s] # NoDist /\ UNCHANGED dists
  BY DEF Ingest, published
<1>2. PICK b \in Chats : MintedFor(s, dists[s], b)
  BY <1>1 DEF RecordsInv, DistsInv
<1>3. PICK box \in dists[s].grants : UnwrapsChain(box, c, s, dists[s].device, Reader)
  BY DEF Ingest
<1>4. box = WrapChain(b, s, dists[s].device, Reader)
  BY <1>2, <1>3 DEF MintedFor
<1>5. c = b
  BY <1>3, <1>4, GrantsAreBound
<1>6. chains' = [chains EXCEPT ![b][s] = [index |-> 0, skipped |-> {}, held |-> TRUE]]
  BY <1>5 DEF Ingest
<1>7. dists[s].grants # {}
  BY <1>3
<1> HIDE DEF c
<1>8. chains' = [a \in Chats |-> [r \in Skids |-> IF a = b /\ r = s
                                                  THEN [index |-> 0, skipped |-> {}, held |-> TRUE]
                                                  ELSE chains[a][r]]]
  BY <1>6 DEF HeldInv
<1>9. ASSUME NEW a \in Chats, NEW r \in Skids
      PROVE  /\ chains'[a][r].held => dists[r] # NoDist /\ MintedFor(r, dists[r], a) /\ dists[r].grants # {}
             /\ chains'[a][r] = [index |-> chains'[a][r].index, skipped |-> chains'[a][r].skipped,
                                 held |-> chains'[a][r].held]
  <2>1. CASE a = b /\ r = s
    BY <1>1, <1>2, <1>7, <1>8, <2>1
  <2>2. CASE ~(a = b /\ r = s)
    BY <1>8, <2>2 DEF HeldInv
  <2> QED BY <2>1, <2>2
<1> QED BY <1>1, <1>8, <1>9 DEF HeldInv

(* Reading a message leaves the chains held that were. *)
LEMMA ReadKeepsHeld ==
    ASSUME RecordsInv, HeldInv, NEW m \in Docs, Read(m)
    PROVE  HeldInv'
<1> DEFINE c == docs[m].chat
           s == docs[m].body.skid
<1>1. UNCHANGED dists /\ c \in Chats /\ chains[c][s].held
  BY DEF Read, published, GetReceiverChain
<1>2. PICK x : x.held = TRUE /\ x = [index |-> x.index, skipped |-> x.skipped, held |-> x.held]
               /\ (chains' = chains \/ chains' = [chains EXCEPT ![c][s] = x])
  <2>1. \/ chains' = chains
        \/ \E i, k : chains' = [chains EXCEPT ![c][s] = [index |-> i, skipped |-> k, held |-> TRUE]]
    BY DEF Read
  <2>2. \A i, k : LET x == [index |-> i, skipped |-> k, held |-> TRUE]
                  IN  x.held = TRUE /\ x = [index |-> x.index, skipped |-> x.skipped, held |-> x.held]
    OBVIOUS
  <2> QED BY <2>1, <2>2
<1> HIDE DEF c, s
<1>3. CASE chains' = chains
  BY <1>1, <1>3 DEF HeldInv
<1>4. CASE chains' = [chains EXCEPT ![c][s] = x]
  <2>1. chains' = [a \in Chats |-> [r \in Skids |-> IF a = c /\ r = s THEN x ELSE chains[a][r]]]
    BY <1>4 DEF HeldInv
  <2>2. ASSUME NEW a \in Chats, NEW r \in Skids
        PROVE  /\ chains'[a][r].held => dists[r] # NoDist /\ MintedFor(r, dists[r], a) /\ dists[r].grants # {}
               /\ chains'[a][r] = [index |-> chains'[a][r].index, skipped |-> chains'[a][r].skipped,
                                   held |-> chains'[a][r].held]
    <3>1. CASE a = c /\ r = s
      BY <1>1, <1>2, <2>1, <3>1 DEF HeldInv
    <3>2. CASE ~(a = c /\ r = s)
      BY <2>1, <3>2 DEF HeldInv
    <3> QED BY <3>1, <3>2
  <2> QED BY <1>1, <2>1, <2>2 DEF HeldInv
<1> QED BY <1>2, <1>3, <1>4

LEMMA HeldStep ==
    ASSUME RecordsInv, HeldInv, [Next]_vars
    PROVE  HeldInv'
<1>1. CASE UNCHANGED chains
  BY <1>1, HeldStays DEF HeldInv
<1>2. ASSUME NEW s \in Skids, Ingest(s) PROVE HeldInv'
  BY <1>2, IngestKeepsHeld
<1>3. ASSUME NEW m \in Docs, Read(m) PROVE HeldInv'
  BY <1>3, ReadKeepsHeld
<1>4. CASE UNCHANGED vars
  BY <1>1, <1>4 DEF vars, reading
<1>5. ASSUME NEW d \in Devices, \/ Publish(d) \/ \E s \in Skids, c \in Chats : Mint(d, c, s)
                                \/ \E s \in Skids, c \in Chats, m \in Docs : Send(d, c, s, m) \/ Edit(d, c, s, m)
                                \/ \E m \in Docs : Post(d, m)
      PROVE  UNCHANGED chains
  BY <1>5 DEF Publish, Mint, Send, Edit, Post, reading
<1>6. ASSUME NEW u \in Peers, Reset(u) \/ \E t \in Tabs : Load(t, u) PROVE UNCHANGED chains
  BY <1>6 DEF Reset, Load, reading
<1>7. ASSUME NEW m \in Docs, Misplace(m) \/ ReadPost(m) \/ Unreadable(m) PROVE UNCHANGED chains
  BY <1>7 DEF Misplace, ReadPost, Unreadable, reading
<1>8. ASSUME NEW s \in Skids, MisplaceGrant(s) PROVE UNCHANGED chains
  BY <1>8 DEF MisplaceGrant, reading
<1>9. CASE Leave \/ MarkVerified \/ Forget \/ \E t \in Tabs : OpenTab(t)
  BY <1>1, <1>9 DEF Leave, MarkVerified, Forget, OpenTab, reading
<1> QED BY <1>1, <1>2, <1>3, <1>4, <1>5, <1>6, <1>7, <1>8, <1>9 DEF Next

----------------------------------------------------------------------------
(* The theorems.                                                           *)

(* RecordsInvariant: whatever is misplaced, edited or minted anew, the stored messages are what   *)
(* their authors said, and the distributions what their devices minted.                           *)
THEOREM RecordsInvariant == Spec => [](RecordsInv /\ HeldInv)
<1>1. Init => RecordsInv /\ HeldInv
  BY PeerInit
<1>2. RecordsInv /\ HeldInv /\ [Next]_vars => (RecordsInv /\ HeldInv)'
  BY TypesStep, DocsStep, DistsStep, HeldStep DEF RecordsInv
<1> QED BY <1>1, <1>2, PTL DEF Spec

(* PeersWellTyped: every variable keeps its type. *)
THEOREM PeersWellTyped == Spec => []TypeOK
<1>1. RecordsInv => TypeOK
  <2> SUFFICES ASSUME RecordsInv PROVE TypeOK
    OBVIOUS
  <2>1. \A m \in Docs : docs[m] # NoDoc => docs[m].sender \in Peers
    BY DEF RecordsInv, DocsInv, SealedDoc, PostedDoc, Doc
  <2> QED BY <2>1 DEF RecordsInv, PeerTypes, Statuses, TypeOK
<1> QED BY <1>1, RecordsInvariant, PTL

(* RowsAreAuthentic: a row marked as verified, or shown as decrypted, is what the peer it names   *)
(* said in the chat it is shown in, wherever records end up (openMessage, verifyChannelPost).     *)
THEOREM RowsAreAuthentic == Spec => AuthenticRows
<1>1. RecordsInv /\ [Next]_vars
        => [\A m \in Docs :
              rows'[m] # rows[m] /\ (rows'[m].verified \/ rows'[m].status = "ok")
                 => <<docs[m].chat, docs[m].sender, Mark(m)>> \in said]_vars
  BY AuthenticStep
<1> QED BY <1>1, RecordsInvariant, PTL DEF Spec, AuthenticRows

(* ChainsStayHome: the reader never holds one chain in two chats (unwrapChain).                    *)
THEOREM ChainsStayHome == Spec => []ChainsKeepToTheirChat
<1>1. HeldInv => ChainsKeepToTheirChat
  BY OneChatPerChain DEF HeldInv, ChainsKeepToTheirChat
<1> QED BY <1>1, RecordsInvariant, PTL

(* What the copies of the trust records are worth: each copy that the reader's last word on a peer *)
(* reached agrees with it, and no copy holds a number he never confirmed.                          *)
Compared(number, u) == number = None \/ <<u, number>> \in confirmed

TrustInv ==
    /\ records \in [Tabs -> [Peers -> {None} \cup {SafetyNumber(Reader, d) : d \in Devices}]]
    /\ stored \in [Peers -> {None} \cup {SafetyNumber(Reader, d) : d \in Devices}]
    /\ compared \in [Peers -> {None} \cup {SafetyNumber(Reader, d) : d \in Devices}]
    /\ aware \in [Peers -> SUBSET Tabs] /\ kept \subseteq Peers
    /\ shown.tab # None
         => shown.tab \in Tabs /\ shown.peer \in Peers /\ \E d \in Devices : shown.number = SafetyNumber(Reader, d)
    /\ \A u \in kept : stored[u] = compared[u]
    /\ \A u \in Peers : \A t \in aware[u] : records[t][u] = compared[u]
    /\ \A u \in Peers : Compared(stored[u], u)
    /\ \A t \in Tabs, u \in Peers : Compared(records[t][u], u)

(* A word of the reader, saved or not: the shown peer's record becomes the number in this tab.     *)
LEMMA WordStep ==
    ASSUME TrustInv, shown.tab # None, shown' = shown, NEW saved \in BOOLEAN, NEW number,
           number = None \/ number = shown.number,
           Write([records[shown.tab] EXCEPT ![shown.peer] = number], saved), Decides(number, saved),
           confirmed \subseteq confirmed', number # None => <<shown.peer, number>> \in confirmed'
    PROVE  TrustInv'
<1> DEFINE Numbers == {None} \cup {SafetyNumber(Reader, d) : d \in Devices}
           new == [records[shown.tab] EXCEPT ![shown.peer] = number]
<1>1. shown.tab \in Tabs /\ shown.peer \in Peers /\ number \in Numbers
  BY DEF TrustInv
<1>2. new \in [Peers -> Numbers] /\ new[shown.peer] = number
      /\ \A u \in Peers \ {shown.peer} : new[u] = records[shown.tab][u]
  BY <1>1 DEF TrustInv
<1>3. records' = [records EXCEPT ![shown.tab] = new] /\ stored' = IF saved THEN new ELSE stored
  BY DEF Write
<1>4. /\ compared' = [compared EXCEPT ![shown.peer] = number]
      /\ aware' = [aware EXCEPT ![shown.peer] = {shown.tab}]
      /\ kept' = IF saved THEN {v \in Peers \ {shown.peer} : shown.tab \in aware[v]} \cup {shown.peer}
                 ELSE kept \ {shown.peer}
  BY DEF Decides
<1> HIDE DEF new, Numbers
<1>5. /\ records \in [Tabs -> [Peers -> Numbers]] /\ stored \in [Peers -> Numbers]
      /\ compared \in [Peers -> Numbers] /\ aware \in [Peers -> SUBSET Tabs] /\ kept \subseteq Peers
  BY DEF TrustInv, Numbers
<1>6. /\ records' \in [Tabs -> [Peers -> Numbers]] /\ stored' \in [Peers -> Numbers]
      /\ compared' \in [Peers -> Numbers] /\ aware' \in [Peers -> SUBSET Tabs] /\ kept' \subseteq Peers
  BY <1>1, <1>2, <1>3, <1>4, <1>5
<1>7. \A t \in Tabs : records'[t] = IF t = shown.tab THEN new ELSE records[t]
  BY <1>1, <1>3, <1>5
<1>8. \A u \in Peers : /\ compared'[u] = IF u = shown.peer THEN number ELSE compared[u]
                       /\ aware'[u] = IF u = shown.peer THEN {shown.tab} ELSE aware[u]
  <2>1. \A u \in Peers : compared'[u] = IF u = shown.peer THEN number ELSE compared[u]
    BY <1>1, <1>4, <1>5
  <2>2. \A u \in Peers : aware'[u] = IF u = shown.peer THEN {shown.tab} ELSE aware[u]
    BY <1>1, <1>4, <1>5
  <2> QED BY <2>1, <2>2
<1>9. ASSUME NEW u \in Peers, NEW t \in aware'[u] PROVE records'[t][u] = compared'[u]
  <2>1. CASE u = shown.peer
    <3>1. t = shown.tab /\ compared'[u] = number
      BY <1>8, <1>9, <2>1
    <3>2. records'[t] = new
      BY <1>1, <1>7, <3>1
    <3> QED BY <1>2, <2>1, <3>1, <3>2
  <2>2. CASE u # shown.peer
    <3>1. t \in aware[u] /\ compared'[u] = compared[u]
      BY <1>8, <1>9, <2>2
    <3>2. t \in Tabs
      BY <1>5, <3>1
    <3>3. records[t][u] = compared[u]
      BY <3>1 DEF TrustInv
    <3>4. records'[t][u] = records[t][u]
      BY <1>2, <1>7, <2>2, <3>2
    <3> QED BY <3>1, <3>3, <3>4
  <2> QED BY <2>1, <2>2
<1>10. ASSUME NEW u \in kept' PROVE stored'[u] = compared'[u]
  <2>1. u \in Peers
    BY <1>6, <1>10
  <2>2. CASE u = shown.peer
    BY <1>1, <1>2, <1>3, <1>4, <1>8, <1>10, <2>2
  <2>3. CASE u # shown.peer /\ saved
    <3>1. shown.tab \in aware[u]
      BY <1>4, <1>10, <2>3
    <3>2. records[shown.tab][u] = compared[u]
      BY <2>1, <3>1 DEF TrustInv
    <3>3. stored'[u] = records[shown.tab][u] /\ compared'[u] = compared[u]
      BY <1>2, <1>3, <1>8, <2>1, <2>3
    <3> QED BY <3>2, <3>3
  <2>4. CASE u # shown.peer /\ ~saved
    BY <1>3, <1>4, <1>8, <1>10, <2>1, <2>4 DEF TrustInv
  <2> QED BY <2>2, <2>3, <2>4
<1>11. \A u \in Peers : new[u] = None \/ <<u, new[u]>> \in confirmed'
  <2> SUFFICES ASSUME NEW u \in Peers PROVE new[u] = None \/ <<u, new[u]>> \in confirmed'
    OBVIOUS
  <2>1. CASE u = shown.peer
    BY <1>2, <2>1
  <2>2. CASE u # shown.peer
    BY <1>1, <1>2, <2>2 DEF TrustInv, Compared
  <2> QED BY <2>1, <2>2
<1>12. \A u \in Peers : stored'[u] = None \/ <<u, stored'[u]>> \in confirmed'
  BY <1>3, <1>11 DEF TrustInv, Compared
<1>13. \A t \in Tabs, u \in Peers : records'[t][u] = None \/ <<u, records'[t][u]>> \in confirmed'
  BY <1>7, <1>11 DEF TrustInv, Compared
<1>14. shown'.tab # None
         => shown'.tab \in Tabs /\ shown'.peer \in Peers /\ \E d \in Devices : shown'.number = SafetyNumber(Reader, d)
  BY DEF TrustInv
<1> QED BY <1>6, <1>9, <1>10, <1>12, <1>13, <1>14 DEF TrustInv, Compared, Numbers

(* A tab is opened on the stored records, or on none. *)
LEMMA OpenTabKeepsTrust ==
    ASSUME TrustInv, NEW t \in Tabs, OpenTab(t)
    PROVE  TrustInv'
<1> DEFINE Numbers == {None} \cup {SafetyNumber(Reader, d) : d \in Devices}
<1>1. /\ records \in [Tabs -> [Peers -> Numbers]] /\ stored \in [Peers -> Numbers]
      /\ aware \in [Peers -> SUBSET Tabs] /\ kept \subseteq Peers
  BY DEF TrustInv
<1>2. UNCHANGED <<stored, shown, compared, confirmed, kept>>
  BY DEF OpenTab
<1>3. PICK new : /\ records' = [records EXCEPT ![t] = new]
                 /\ new \in [Peers -> Numbers]
                 /\ aware' \in [Peers -> SUBSET Tabs]
                 /\ \A u \in Peers : /\ aware'[u] \ {t} \subseteq aware[u]
                                     /\ t \in aware'[u] => new[u] = compared[u]
                                     /\ Compared(new[u], u)
  <2>1. CASE /\ records' = [records EXCEPT ![t] = stored]
             /\ aware' = [u \in Peers |-> IF u \in kept THEN aware[u] \cup {t} ELSE aware[u] \ {t}]
    <3>1. aware' \in [Peers -> SUBSET Tabs]
      BY <1>1, <2>1
    <3>2. ASSUME NEW u \in Peers
          PROVE  /\ aware'[u] \ {t} \subseteq aware[u]
                 /\ t \in aware'[u] => stored[u] = compared[u]
                 /\ Compared(stored[u], u)
      BY <2>1, <3>2 DEF TrustInv
    <3> QED BY <1>1, <2>1, <3>1, <3>2
  <2>2. CASE /\ records' = [records EXCEPT ![t] = [u \in Peers |-> None]]
             /\ aware' = [u \in Peers |-> aware[u] \ {t}]
    <3>1. aware' \in [Peers -> SUBSET Tabs] /\ [u \in Peers |-> None] \in [Peers -> Numbers]
      BY <1>1, <2>2
    <3> QED BY <1>1, <2>2, <3>1 DEF Compared
  <2> QED BY <2>1, <2>2 DEF OpenTab
<1> HIDE DEF Numbers
<1>4. records' \in [Tabs -> [Peers -> Numbers]]
      /\ \A x \in Tabs : records'[x] = IF x = t THEN new ELSE records[x]
  BY <1>1, <1>3
<1>5. ASSUME NEW u \in Peers, NEW x \in aware'[u] PROVE records'[x][u] = compared[u]
  <2>1. x \in Tabs
    BY <1>3, <1>5
  <2>2. CASE x = t
    <3>1. new[u] = compared[u]
      BY <1>3, <1>5, <2>2
    <3> QED BY <1>4, <2>2, <3>1
  <2>3. CASE x # t
    <3>1. aware'[u] \ {t} \subseteq aware[u]
      BY <1>3
    <3>2. x \in aware[u]
      BY <1>5, <2>3, <3>1
    <3>3. records[x][u] = compared[u]
      BY <3>2 DEF TrustInv
    <3> QED BY <1>4, <2>1, <2>3, <3>3
  <2> QED BY <2>2, <2>3
<1>6. \A x \in Tabs, u \in Peers : Compared(records'[x][u], u)
  <2>1. \A u \in Peers : Compared(new[u], u)
    BY <1>3
  <2>2. \A x \in Tabs, u \in Peers : Compared(records[x][u], u)
    BY DEF TrustInv
  <2> QED BY <1>4, <2>1, <2>2
<1> QED BY <1>2, <1>3, <1>4, <1>5, <1>6 DEF TrustInv, Compared, Numbers

(* Every step keeps the copies so: the messages and the peers' keys do not touch them. *)
LEMMA TrustStep ==
    ASSUME TrustInv, [Next]_vars
    PROVE  TrustInv'
<1>1. CASE UNCHANGED trust
  BY <1>1 DEF trust, TrustInv, Compared
<1>2. CASE MarkVerified
  <2>1. /\ shown.tab # None /\ shown' = shown
        /\ confirmed' = confirmed \cup {<<shown.peer, shown.number>>}
    BY <1>2 DEF MarkVerified
  <2>2. PICK saved \in BOOLEAN : Write(Remembered(shown.peer, shown.number), saved) /\ Decides(shown.number, saved)
    BY <1>2 DEF MarkVerified
  <2> QED BY <2>1, <2>2, WordStep DEF Remembered
<1>3. CASE Forget
  <2>1. shown.tab # None /\ shown' = shown /\ confirmed' = confirmed
    BY <1>3 DEF Forget
  <2>2. PICK saved \in BOOLEAN : Write(Forgotten(shown.peer), saved) /\ Decides(None, saved)
    BY <1>3 DEF Forget
  <2> QED BY <2>1, <2>2, WordStep DEF Forgotten
<1>4. CASE \E t \in Tabs : OpenTab(t)
  BY <1>4, OpenTabKeepsTrust
<1>5. ASSUME NEW t \in Tabs, NEW u \in Peers, Load(t, u) PROVE TrustInv'
  <2>1. PICK d \in Devices : shown' = [tab |-> t, peer |-> u, number |-> SafetyNumber(Reader, d)]
    BY <1>5 DEF Load, ActiveOf
  <2>2. UNCHANGED <<records, stored, compared, confirmed, aware, kept>>
    BY <1>5 DEF Load
  <2> HIDE DEF SafetyNumber
  <2> QED BY <2>1, <2>2 DEF TrustInv, Compared
<1>6. CASE Leave
  BY <1>6 DEF Leave, TrustInv, Compared
<1>7. ASSUME NEW d \in Devices, \/ Publish(d) \/ \E s \in Skids, c \in Chats : Mint(d, c, s)
                                \/ \E s \in Skids, c \in Chats, m \in Docs : Send(d, c, s, m) \/ Edit(d, c, s, m)
                                \/ \E m \in Docs : Post(d, m)
      PROVE  UNCHANGED trust
  BY <1>7 DEF Publish, Mint, Send, Edit, Post
<1>8. ASSUME NEW m \in Docs, Misplace(m) \/ ReadPost(m) \/ Unreadable(m) PROVE UNCHANGED trust
  BY <1>8 DEF Misplace, ReadPost, Unreadable
<1>9. ASSUME NEW m \in Docs, Read(m) PROVE UNCHANGED trust
  BY <1>9 DEF Read
<1>10. ASSUME NEW s \in Skids, MisplaceGrant(s) \/ Ingest(s) PROVE UNCHANGED trust
  BY <1>10 DEF MisplaceGrant, Ingest
<1>11. ASSUME NEW u \in Peers, Reset(u) PROVE UNCHANGED trust
  BY <1>11 DEF Reset
<1>12. CASE UNCHANGED vars
  BY <1>1, <1>12 DEF vars
<1> QED BY <1>1, <1>2, <1>3, <1>4, <1>5, <1>6, <1>7, <1>8, <1>9, <1>10, <1>11, <1>12 DEF Next

(* TrustInvariant: every copy of the trust records that the reader's last word on a peer reached   *)
(* agrees with it, and none holds a number never confirmed, however saves and reads fail.          *)
THEOREM TrustInvariant == Spec => []TrustInv
<1>1. Init => TrustInv
  BY DEF Init, TrustInv, Compared
<1> QED BY <1>1, TrustStep, PTL DEF Spec

(* ConfirmationsAreKept: the last word of the reader on a peer stays in the tab it was given in,    *)
(* in the storage it was saved to and in every tab that read it there, through whatever happens in  *)
(* other tabs and to other peers, and such a tab tells another key as a change (TrustStoreService). *)
THEOREM ConfirmationsAreKept == Spec => []ConfirmationsLast
<1>1. TrustInv => ConfirmationsLast
  <2> SUFFICES ASSUME TrustInv PROVE ConfirmationsLast
    OBVIOUS
  <2>1. \A u \in kept : stored[u] = compared[u]
    BY DEF TrustInv
  <2>2. \A u \in Peers : \A t \in aware[u] : records[t][u] = compared[u]
    BY DEF TrustInv
  <2>3. ASSUME shown.tab # None, shown.tab \in aware[shown.peer], compared[shown.peer] \notin {None, shown.number}
        PROVE  StateFor(records[shown.tab][shown.peer], shown.number) = "changed"
    <3>1. records[shown.tab][shown.peer] = compared[shown.peer]
      BY <2>2, <2>3 DEF TrustInv
    <3> QED BY <2>3, <3>1 DEF StateFor
  <2> QED BY <2>1, <2>2, <2>3 DEF ConfirmationsLast
<1> QED BY <1>1, TrustInvariant, PTL

(* OnlyComparedIsVerified: no failure of the storage and no overwriting by another tab makes a      *)
(* number verified that the reader has not confirmed for that peer (stateFor).                      *)
THEOREM OnlyComparedIsVerified == Spec => []VerifiedWasCompared
<1>1. TrustInv => VerifiedWasCompared
  <2> SUFFICES ASSUME TrustInv, shown.tab # None,
                      StateFor(records[shown.tab][shown.peer], shown.number) = "verified"
               PROVE  <<shown.peer, shown.number>> \in confirmed
    BY DEF VerifiedWasCompared
  <2>1. records[shown.tab][shown.peer] # None /\ records[shown.tab][shown.peer] = shown.number
    BY DEF StateFor
  <2> QED BY <2>1 DEF TrustInv, Compared
<1> QED BY <1>1, TrustInvariant, PTL
==============================================================================
