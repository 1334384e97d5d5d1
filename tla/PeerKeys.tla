------------------------------ MODULE PeerKeys ------------------------------
(***************************************************************************)
(* What a reader's tab takes a peer's messages, posts and safety number    *)
(* for.  crypto/identity.ts, grants.ts, envelope.ts and channel.ts over    *)
(* ideal primitives, their use in key-store.service.ts and                 *)
(* message.service.ts, trust-store.service.ts, and the checks of the       *)
(* server.  The peers reset their passwords and come back with new keys,   *)
(* edit while another chat is open, and a stored record may be found in    *)
(* another chat or under another name than it was sealed for.              *)
(* A chat stands here for a chat in one of its epochs, a device for the    *)
(* one identity it ever publishes.                                         *)
(***************************************************************************)
EXTENDS Ratchet, FiniteSets

CONSTANTS
    Peers,          \* the users the reader talks to
    Devices, Owner, \* their devices
    Reader,         \* the reader's own device
    Chats, Channel, \* the encrypted chats, and a channel
    Skids,          \* bound: sender key ids
    Docs,           \* bound: stored messages
    MaxSeals,       \* bound: envelopes sealed under one chain
    Faults,         \* bound: records misplaced
    Tabs,           \* the reader's tabs that keep trust records
    None

ASSUME PeerAssumption ==
    /\ Owner \in [Devices -> Peers]
    /\ Reader \notin Devices /\ Channel \notin Chats
    /\ MaxSeals \in Nat /\ Faults \in Nat

VARIABLES
    status,     \* user_devices and user_identity_keys
    dists,      \* sender_key_distributions with the grant for the reader
    next,       \* the index each chain will seal at next
    docs,       \* the messages collection
    faults,     \* records misplaced so far
    chains,     \* peerChains, by chat and sender key id
    vouched,    \* chainSigningKeys
    rows,       \* what the reader's tab makes of each message
    records,    \* TrustStoreService.records of each tab
    stored,     \* ns.trusted_peers in localStorage
    shown,      \* the safety number screen
    compared,   \* history: the number the reader last confirmed for each peer, and did not take back
    said,       \* history: what each peer sealed or signed
    confirmed,  \* history: every number the reader ever confirmed, with its peer
    aware,      \* history: for each peer, the tabs that have the reader's last word on him
    kept        \* history: the peers on whom the stored records have it

published == <<status, dists, next>>
store == <<docs, faults, said>>
reading == <<chains, vouched, rows>>
trust == <<records, stored, shown, compared, confirmed, aware, kept>>
vars == <<published, store, reading, trust>>

----------------------------------------------------------------------------
(* Ideal primitives: a signature verifies under its key and body alone, a  *)
(* box opens under its key and associated data alone.                      *)

Signature(key, body) == [key |-> key, body |-> body]
Verifies(signature, key, body) == signature = Signature(key, body)

Box(key, aad) == [key |-> key, aad |-> aad]
Opens(box, key, aad) == box = Box(key, aad)

Identity(d) == <<"identity", d>>    \* the signing key of a device
Chain(s) == <<"chain", s>>          \* the signing key of a chain

(* identity.ts *)
BindingMessage(u, d, key) == <<"idbind", u, d, key>>

GenerateIdentity(u, d) ==
    [signing |-> Identity(d), key |-> d, signature |-> Signature(Identity(d), BindingMessage(u, d, d))]

VerifyIdentityBinding(u, d, bundle) ==
    Verifies(bundle.signature, bundle.signing, BindingMessage(u, d, bundle.key))

(* The same number whichever side computes it: only the pair of keys counts. *)
SafetyNumber(a, b) == {Identity(a), Identity(b)}

(* grants.ts *)
MemberSet(devices) == <<"memberset", devices>>

DistributionPayload(c, s, signing) == <<"skdm", c, s, signing>>

SignDistribution(d, c, s, signing) == Signature(Identity(d), DistributionPayload(c, s, signing))

VerifyDistribution(d, dist, c, s) ==
    Verifies(dist.signature, Identity(d), DistributionPayload(c, s, dist.signing))

GrantAad(c, s, from, to) == <<"grant", c, s, from, to>>

(* The secret shared with the recipient's key, salted with the chat. *)
WrapKey(recipient, c, aad) == <<"wrap", recipient, c, aad>>

WrapChain(c, s, from, to) ==
    LET aad == GrantAad(c, s, from, to) IN Box(WrapKey(to, c, aad), aad)

UnwrapsChain(box, c, s, from, to) ==
    LET aad == GrantAad(c, s, from, to) IN Opens(box, WrapKey(to, c, aad), aad)

(* envelope.ts *)

(* Mutant: the sender is not bound. *)
AnonymousAad(c, u, s, i) == <<"msg", c, s, i>>

MessageAad(c, u, s, i) == <<"msg", c, u, s, i>>

SignaturePayload(aad, box) == <<aad, box>>

Seal(c, u, s, i) ==
    LET aad == MessageAad(c, u, s, i)
        box == Box(<<s, i>>, aad)
    IN [skid |-> s, idx |-> i, ct |-> box, sig |-> Signature(Chain(s), SignaturePayload(aad, box))]

VerifyEnvelope(env, signing, c, u) ==
    Verifies(env.sig, signing, SignaturePayload(MessageAad(c, u, env.skid, env.idx), env.ct))

(* The signature is checked before the decryption, if there is a key to check it with. *)
OpensMessage(env, signing, c, u) ==
    /\ signing # None => VerifyEnvelope(env, signing, c, u)
    /\ Opens(env.ct, <<env.skid, env.idx>>, MessageAad(c, u, env.skid, env.idx))

(* channel.ts: the post id is the document's. *)
PostPayload(c, u, m) == <<"post", c, u, m>>

SignPost(d, c, u, m) == Signature(Identity(d), PostPayload(c, u, m))

VerifyPost(sig, d, c, u, m) == Verifies(sig, Identity(d), PostPayload(c, u, m))

----------------------------------------------------------------------------
NoDist == [chat |-> None]
NoDoc == [chat |-> None]
NoRow == [status |-> "none", verified |-> FALSE]
NoChain == [index |-> 0, skipped |-> {}, held |-> FALSE]

Init ==
    /\ status = [d \in Devices |-> "none"]
    /\ dists = [s \in Skids |-> NoDist] /\ next = [s \in Skids |-> 0]
    /\ docs = [m \in Docs |-> NoDoc] /\ faults = 0 /\ said = {}
    /\ chains = [c \in Chats |-> [s \in Skids |-> NoChain]]
    /\ vouched = [s \in Skids |-> None]
    /\ rows = [m \in Docs |-> NoRow]
    /\ records = [t \in Tabs |-> [u \in Peers |-> None]]
    /\ stored = [u \in Peers |-> None]
    /\ shown = [tab |-> None]
    /\ compared = [u \in Peers |-> None]
    /\ confirmed = {} /\ aware = [u \in Peers |-> Tabs] /\ kept = Peers

(* Bound: a behaviour follows either the messages or the numbers; only the peers' keys are       *)
(* common to the two, and neither changes them.                                                  *)
NothingSent == dists = [s \in Skids |-> NoDist] /\ docs = [m \in Docs |-> NoDoc]
NothingCompared == shown.tab = None /\ confirmed = {} /\ aware = [u \in Peers |-> Tabs]

ActiveOf(u) == {d \in Devices : Owner[d] = u /\ status[d] = "active"}

----------------------------------------------------------------------------
(* The peers.                                                              *)

(* createAndPublishIdentity, at the unlock of an account that has no active key. *)
Publish(d) ==
    /\ status[d] = "none" /\ ActiveOf(Owner[d]) = {}
    /\ VerifyIdentityBinding(Owner[d], d, GenerateIdentity(Owner[d], d))
    /\ status' = [status EXCEPT ![d] = "active"]
    /\ UNCHANGED <<dists, next, store, reading, trust>>

(* deactivate_user_devices, at a password reset. *)
Reset(u) ==
    /\ ActiveOf(u) # {}
    /\ status' = [d \in Devices |-> IF d \in ActiveOf(u) THEN "revoked" ELSE status[d]]
    /\ UNCHANGED <<dists, next, store, reading, trust>>

(* ensureSenderChain and publish_sender_key: the reader is on the roster or not yet. *)
Mint(d, c, s) ==
    /\ NothingCompared
    /\ status[d] = "active" /\ dists[s] = NoDist
    /\ \E to \in {{}, {Reader}} :
         LET dist == [chat |-> c, device |-> d, signing |-> Chain(s),
                      signature |-> SignDistribution(d, c, s, Chain(s)),
                      members |-> MemberSet({d} \cup to),
                      grants |-> {WrapChain(c, s, d, r) : r \in to}] IN
         /\ VerifyDistribution(d, dist, c, s)
         /\ dists' = [dists EXCEPT ![s] = dist]
    /\ UNCHANGED <<status, next, store, reading, trust>>

(* _validate_envelope *)
Accepts(c, u, env) ==
    /\ dists[env.skid] # NoDist /\ dists[env.skid].chat = c
    /\ Owner[dists[env.skid].device] = u
    /\ VerifyEnvelope(env, dists[env.skid].signing, c, u)

(* The next message key of a chain this device minted for the chat. *)
MaySeal(d, c, s) ==
    /\ status[d] = "active" /\ next[s] < MaxSeals
    /\ dists[s] # NoDist /\ dists[s].device = d /\ dists[s].chat = c

Says(c, u, mark) == said' = said \cup {<<c, u, mark>>}

(* sealAndSend and send_message *)
Send(d, c, s, m) ==
    LET env == Seal(c, Owner[d], s, next[s]) IN
    /\ docs[m] = NoDoc /\ MaySeal(d, c, s)
    /\ Accepts(c, Owner[d], env)
    /\ docs' = [docs EXCEPT ![m] = [chat |-> c, sender |-> Owner[d], format |-> "sealed", body |-> env]]
    /\ next' = [next EXCEPT ![s] = @ + 1]
    /\ Says(c, Owner[d], <<s, next[s]>>)
    /\ UNCHANGED <<status, dists, faults, reading, trust>>

(* editText, sealed for the chat on screen, which need not be the chat of the message:           *)
(* update_message checks the index within one chain and nothing else.  The reader hears of it.   *)
Edit(d, c, s, m) ==
    LET env == Seal(c, Owner[d], s, next[s]) IN
    /\ MaySeal(d, c, s)
    /\ docs[m] # NoDoc /\ docs[m].sender = Owner[d] /\ docs[m].format = "sealed"
    /\ docs[m].body.skid = s => next[s] > docs[m].body.idx
    /\ docs' = [docs EXCEPT ![m].body = env]
    /\ next' = [next EXCEPT ![s] = @ + 1]
    /\ rows' = [rows EXCEPT ![m] = NoRow]
    /\ Says(c, Owner[d], <<s, next[s]>>)
    /\ UNCHANGED <<status, dists, faults, chains, vouched, trust>>

(* sendChannelPost and _validate_channel_post, against the active key the server finds. *)
Post(d, m) ==
    LET sig == SignPost(d, Channel, Owner[d], m) IN
    /\ NothingCompared
    /\ docs[m] = NoDoc /\ status[d] = "active"
    /\ \E k \in ActiveOf(Owner[d]) : VerifyPost(sig, k, Channel, Owner[d], m)
    /\ docs' = [docs EXCEPT ![m] = [chat |-> Channel, sender |-> Owner[d], format |-> "post", body |-> sig]]
    /\ Says(Channel, Owner[d], m)
    /\ UNCHANGED <<published, faults, reading, trust>>

(* A fault of the storage: a record turns up in another chat, or under another name. *)
Misplace(m) ==
    /\ faults < Faults /\ docs[m] # NoDoc
    /\ \E c \in Chats \cup {Channel}, u \in Peers :
         docs' = [docs EXCEPT ![m].chat = c, ![m].sender = u]
    /\ docs' # docs
    /\ faults' = faults + 1
    /\ UNCHANGED <<published, said, reading, trust>>

MisplaceGrant(s) ==
    /\ faults < Faults /\ dists[s] # NoDist
    /\ \E c \in Chats \ {dists[s].chat} : dists' = [dists EXCEPT ![s].chat = c]
    /\ faults' = faults + 1
    /\ UNCHANGED <<status, next, docs, said, reading, trust>>

----------------------------------------------------------------------------
(* The reader opens messages.                                              *)

(* ingestDistributions, for one distribution: its signature is checked if the sender's device is *)
(* still among the active ones, and its grant unwrapped.                                         *)
Ingest(s) ==
    LET dist == dists[s] IN
    /\ dist # NoDist /\ ~chains[dist.chat][s].held
    /\ status[dist.device] = "active" => VerifyDistribution(dist.device, dist, dist.chat, s)
    /\ \E box \in dist.grants : UnwrapsChain(box, dist.chat, s, dist.device, Reader)
    /\ chains' = [chains EXCEPT ![dist.chat][s] = [index |-> 0, skipped |-> {}, held |-> TRUE]]
    /\ vouched' = [vouched EXCEPT ![s] = dist.signing]
    /\ UNCHANGED <<published, store, rows, trust>>

Shows(m, st, verified) == rows' = [rows EXCEPT ![m] = [status |-> st, verified |-> verified]]

Readable(m, format) == docs[m] # NoDoc /\ docs[m].format = format /\ rows[m].status \in {"none", "no_key"}

(* A post is shown either way; it is verified against the first of the sender's active keys. *)
ReadPost(m) ==
    /\ Readable(m, "post")
    /\ \/ /\ ActiveOf(docs[m].sender) = {}
          /\ Shows(m, "plaintext", FALSE)
       \/ \E k \in ActiveOf(docs[m].sender) :
            Shows(m, "plaintext", VerifyPost(docs[m].body, k, docs[m].chat, docs[m].sender, m))
    /\ UNCHANGED <<published, store, chains, vouched, trust>>

GetReceiverChain(c, s) == chains[c][s]
GetChainSigningKey(s) == vouched[s]

(* No chain for the sender key in this chat. *)
Unreadable(m) ==
    /\ Readable(m, "sealed") /\ rows[m].status = "none"
    /\ docs[m].chat \in Chats => ~GetReceiverChain(docs[m].chat, docs[m].body.skid).held
    /\ Shows(m, "no_key", FALSE)
    /\ UNCHANGED <<published, store, chains, vouched, trust>>

(* The message key is consumed, whatever comes of the opening. *)
Read(m) ==
    LET doc == docs[m]
        env == doc.body
        chain == GetReceiverChain(doc.chat, env.skid)
        signing == GetChainSigningKey(env.skid)
        old == [index |-> chain.index, skipped |-> chain.skipped]
        left == AfterKey(old, env.idx)
        opens == OpensMessage(env, signing, doc.chat, doc.sender)
    IN /\ Readable(m, "sealed") /\ doc.chat \in Chats /\ chain.held
       /\ IF Answers(old, env.idx)
          THEN /\ chains' = [chains EXCEPT ![doc.chat][env.skid] =
                               [index |-> left.index, skipped |-> left.skipped, held |-> TRUE]]
               /\ IF opens THEN Shows(m, "ok", signing # None) ELSE Shows(m, "failed", FALSE)
          ELSE Shows(m, "failed", FALSE) /\ UNCHANGED chains
       /\ UNCHANGED <<published, store, vouched, trust>>

----------------------------------------------------------------------------
(* The reader compares safety numbers.                                     *)

(* Mutant: whoever has a record is verified. *)
StateForAny(record, number) == IF record = None THEN "unverified" ELSE "verified"

(* TrustStoreService.stateFor *)
StateFor(record, number) ==
    IF record = None THEN "unverified" ELSE IF record = number THEN "verified" ELSE "changed"

(* SafetyNumberComponent.load: the server pairs the reader's key with an active key of the peer. *)
Load(t, u) ==
    /\ NothingSent
    /\ shown = [tab |-> None]
    /\ \E d \in ActiveOf(u) : shown' = [tab |-> t, peer |-> u, number |-> SafetyNumber(Reader, d)]
    /\ UNCHANGED <<published, store, reading, records, stored, compared, confirmed, aware, kept>>

Leave ==
    /\ shown.tab # None
    /\ shown' = [tab |-> None]
    /\ UNCHANGED <<published, store, reading, records, stored, compared, confirmed, aware, kept>>

(* write: this tab's records, as it read them and changed them since, replace the stored ones,   *)
(* unless setItem throws: then the tab alone has them, for as long as it lives.                   *)
Write(new, saved) ==
    /\ records' = [records EXCEPT ![shown.tab] = new]
    /\ stored' = IF saved THEN new ELSE stored

(* The reader's word on a peer is in the tab it was given in, and in storage if it was saved;     *)
(* a save carries along what else the tab had, and drops what it had not.                         *)
Decides(number, saved) ==
    LET others == {v \in Peers \ {shown.peer} : shown.tab \in aware[v]} IN
    /\ compared' = [compared EXCEPT ![shown.peer] = number]
    /\ aware' = [aware EXCEPT ![shown.peer] = {shown.tab}]
    /\ kept' = IF saved THEN others \cup {shown.peer} ELSE kept \ {shown.peer}

(* Mutant: the other peers are not copied. *)
RememberedAlone(u, number) == [v \in Peers |-> IF v = u THEN number ELSE None]

(* markVerified and forget of the store *)
Remembered(u, number) == [records[shown.tab] EXCEPT ![u] = number]
Forgotten(u) == [records[shown.tab] EXCEPT ![u] = None]

MarkVerified ==
    /\ shown.tab # None /\ StateFor(records[shown.tab][shown.peer], shown.number) # "verified"
    /\ \E saved \in BOOLEAN :
         Write(Remembered(shown.peer, shown.number), saved) /\ Decides(shown.number, saved)
    /\ confirmed' = confirmed \cup {<<shown.peer, shown.number>>}
    /\ UNCHANGED <<published, store, reading, shown>>

Forget ==
    /\ shown.tab # None /\ records[shown.tab][shown.peer] # None
    /\ \E saved \in BOOLEAN : Write(Forgotten(shown.peer), saved) /\ Decides(None, saved)
    /\ UNCHANGED <<published, store, reading, shown, confirmed>>

(* A tab is opened or reloaded: read, which takes corrupt or unavailable storage for empty. *)
OpenTab(t) ==
    /\ NothingSent
    /\ shown.tab # t
    /\ \/ /\ records' = [records EXCEPT ![t] = stored]
          /\ aware' = [u \in Peers |-> IF u \in kept THEN aware[u] \cup {t} ELSE aware[u] \ {t}]
       \/ /\ records' = [records EXCEPT ![t] = [u \in Peers |-> None]]
          /\ aware' = [u \in Peers |-> aware[u] \ {t}]
    /\ UNCHANGED <<published, store, reading, stored, shown, compared, confirmed, kept>>

----------------------------------------------------------------------------
Next ==
    \/ \E d \in Devices : Publish(d) \/ \E s \in Skids, c \in Chats : Mint(d, c, s)
    \/ \E u \in Peers : Reset(u)
    \/ \E d \in Devices, s \in Skids, c \in Chats, m \in Docs : Send(d, c, s, m) \/ Edit(d, c, s, m)
    \/ \E d \in Devices, m \in Docs : Post(d, m)
    \/ \E m \in Docs : Misplace(m) \/ ReadPost(m) \/ Unreadable(m) \/ Read(m)
    \/ \E s \in Skids : MisplaceGrant(s) \/ Ingest(s)
    \/ \E t \in Tabs, u \in Peers : Load(t, u)
    \/ Leave \/ MarkVerified \/ Forget
    \/ \E t \in Tabs : OpenTab(t)

Spec == Init /\ [][Next]_vars
============================================================================
