# Mess&Gags: formal models

Mess&Gags is an end-to-end encrypted messenger: a FastAPI server (`src/api`) over PostgreSQL, MongoDB,
Redis and MinIO, with Celery tasks, and an Angular client (`src/front`) that holds all private keys.
This directory models its protocol logic in TLA+, checks the models with TLC on small instances and
proves almost all of what they promise for safety with TLAPS, for all instances. Paths below are relative to `src/`; `D/` stands
for `api/app/domains/`, `F/` for `front/src/app/core/`.

## 1. The system

| Component | State | Operations | Talks to |
|---|---|---|---|
| Key epochs (`D/crypto/services/epoch_service.py`, `D/crypto/tasks.py`) | `chat_crypto_settings.current_epoch`, `chat_key_epochs`, an advisory lock per chat | enable, rotate on removal / addition / new device / schedule | called by chats and crypto routes inside their transactions; announces on Redis |
| Chat membership and roles (`D/chats`) | `chats`, `chat_participants` with `joined_at_epoch` | create, add, remove, leave, change role | key epochs (same transaction) |
| Identities and devices (`D/crypto/services/identity_service.py`) | `user_devices`, `user_identity_keys` | publish, rotate prekey, rewrap bundles, revoke all | key epochs (a new device rotates), auth (reset, change password) |
| Sender keys (`epoch_service.publish_sender_key`, `F/services/key-store.service.ts`) | `sender_key_distributions`, `sender_key_grants`; the client's `ownChains`, `peerChains` | publish a chain, fetch grants, prune | epochs, message store |
| Message store (`D/messages`) | MongoDB `messages`, MinIO blobs | send, edit, delete, page, mark read | epochs (gate on the live epoch), Redis |
| Ratchet (`F/crypto/ratchet.ts`, `D/crypto/reference/ratchet.py`) | chain key, index, skipped keys | next key, key for an index | sender keys, message client |
| Message client (`F/services/message.service.ts`, `chat-store.service.ts`) | `opened`, `messages`, `rawMessages`, pending sends | open chat, page back, send with one retry, edit, re-decrypt | everything above over HTTP and the socket |
| Sessions (`D/users`, `F/services/session.service.ts`, `F/interceptors/refresh.interceptor.ts`) | cookies, Redis blacklist and `force_logout`, one-time codes | login, refresh, logout, reset, change password | identities, key store |
| Realtime (`D/messages/routes/ws_router.py`, `F/services/websocket.service.ts`) | sockets, pub/sub channels, presence | connect, relay, reconnect with back-off | message client |
| Trust store (`F/services/trust-store.service.ts`) and the safety number screen | confirmed numbers in `localStorage`, a copy of them in each tab | confirm, take back, compare | identities (the number is computed from them) |
| Screens (`src/front/src/app/features`) | route, drafts, lists read earlier | what they offer their user | all of the client's services |
| Directory, folders, contacts, profiles, mail | caches and table rows | plain reads and writes | - |

What is hard here: handlers run concurrently under READ COMMITTED with ORM objects cached in the
session; one logical change spans several commits (identity then rotation, PostgreSQL then MongoDB then
Redis, a blob then the record that names it); clients act on an epoch, a roster or a list of roles they
read some round trips ago; decryption consumes keys and messages arrive out of order; the functions of the
client do not look at the chat on screen again after an await; events are best-effort; answers get lost.
`PROJECT.json` lists each of these hazards at its line.

What makes each component correct:

- **Key epochs.** Numbers without gaps or repeats and one open epoch; a removal and its rotation in one
  step; the open epoch commits to no former member; a joiner starts at the epoch their arrival opens;
  closed epochs never change; no request waits on a lock for ever.
- **Membership and roles.** One owner per group and channel, whatever stale screens submit; one private chat
  per pair, with both its members in it; each commit is a step of the epoch ledger.
- **Sender keys and sending.** A chain reaches the devices of those who were members during its epoch,
  all of them and nobody else; a send fails only when membership, devices or epoch changed under it.
- **Ratchet.** No message key is used twice, a receiver opens every message once in any order, within
  `MAX_SKIP`; memory for skipped keys is bounded.
- **Identities and passwords.** Key versions without gaps, none but the newest active; private bundles always
  under the password in force; a change of the password ends no identity; a spent code stays spent.
- **Message store.** Envelopes advance, what participants were told last is what is stored, a blob is there as
  long as a message names it, badges and ticks do not contradict each other.
- **Message client.** A message once opened stays open, one that could not be opened is tried again; pages
  join without hole or double; a text is stored once, in the chat it was written in, or is still on screen.
- **Peers' keys.** A row marked as verified is what the peer it names said in that chat; a confirmed safety
  number is remembered.
- **Sessions and realtime.** One socket per tab, which comes back; one refresh at a time, which releases all who
  wait; a tab without a session holds no keys and no plaintext.

## 2. Plan

| # | Module | Builds on | Abstract specification | State |
|---|---|---|---|---|
| 1 | `ChatEpochs`: epochs and membership as concurrent transactions | - | `EpochLedger` (atomic changes) | safety and refinement proved, liveness checked |
| 2 | `SenderKeys`: publishing chains and sending messages | `EpochLedger` | - | safety proved |
| 3 | `Ratchet`: sender chain, receiver chain, skipped keys | - | - | proved |
| 4 | `MessageClient`: opened cache, retries, paging, live events, edits | `Ratchet` | - | safety proved, liveness checked |
| 5 | `Accounts`: identities, bundles, passwords, one-time codes | - | - | proved |
| 6 | `MessageStore`: edit, delete, attachments, orphan collector, read marks | - | - | proved |
| 7 | `Session`: one tab's session, screens, shared refresh and socket | - | - | safety proved, liveness checked |
| 8 | `ChatRoles`: private chats, groups, channels and roles, from stale screens | - | `EpochLedger` | proved |
| 9 | `PeerKeys`: signatures, grants, posts and safety numbers of peers | `Ratchet` | - | proved |
| 10 | `Conversation`: writing, retrying, deleting, moving between chats | - | - | proved |

`X` is the model, `XProps` its properties, `MCX` the small instances, `XProofs` the proofs; those of `Session`
and `Conversation`, the two models of one tab, are in `TabProofs`. `EpochLedger` is what composes: `ChatEpochs`
and `ChatRoles` implement it, `SenderKeys` takes its steps from it.

Still worth modelling: `PUT identity/prekey` once a client calls it, the pruning of grants,
and the forced-logout stamp with its resolution of a second.

## 3. The modules

### ChatEpochs

One action is one SQL statement of a transaction, or its commit. Variables other than `tx` and `lock`
hold the *committed* rows; what a transaction has written is in its record `tx[w]` and becomes visible in
`Commit`, as under READ COMMITTED. `Visible(w, c)` is what a statement of `w` sees: the committed members
and its own writes. Row locks are implied by `tx[w].rows` (`RowHolders`), the unique index on the settings
row by a pending `enable` (`SettingsHolders`), and `pg_advisory_xact_lock` is `lock[c]`.

| Action | Code |
|---|---|
| `Remove`, `Leave`, `Add` (requests), `DeleteRows`, `InsertRows` | `chat_routes.py`, `chat_services.py` 335-404 |
| `ReadSettings` | `rotate_if_encrypted`: the settings row goes into the session's identity map (`tx.seen`) |
| `AcquireLock`, `ReadRoster`, `InsertEpoch`, `StampJoiners` | `allocate_epoch`, statement by statement |
| `Enable`, `InsertSettings` | `enable_encryption` |
| `PublishIdentity`, `ListChats`, `PickChat` | `publish_identity` and its second transaction, `rotate_chats_for_new_device` |
| `Periodic` | Celery's `_rotate_stale_epochs`, one commit per chat |
| `ResetPassword` | `reset_password` through `deactivate_user_devices` |
| `Rollback`, `DeadlockVictim`, `Crash` | the ends a transaction can have |

`tx.seen` is never refreshed after the advisory lock is granted: the session keeps the loaded settings
object (`expire_on_commit=False`, identity map), so `InsertEpoch` counts on a number that may be taken.
The unique key `uq_chat_epoch` then refuses it (`clash`), which is why the epoch chain stays intact while
the request fails.

Abstractions: a statement takes all its row locks in one step; roles are reduced to the owner; channels
are left out; publishing for a revoked device, which the unique `(device, version)` key refuses, is not a
step; whether a chat is due or dormant for the daily task is left open; the daily task loads the settings
of all chats at its start and stops at the first refusal; Redis announcements and the history floor (a
MongoDB id) are left out. `SHARED` history is a column the code branches on and no endpoint sets.

### EpochLedger

The promise: every change of membership is one atomic step that also decides whether the chat moves to
its next epoch. `ImplementsLedger` says that `ChatEpochs` implements it with the identity mapping on the
four committed variables. `SenderKeys` uses it as the world in which clients run.

### SenderKeys

`LedgerStep` is any step of `EpochLedger` and may happen between any two steps of a call. `call[k]` is
one `sendText`: its `pc` names the request in flight (`"GET keys"`, `"POST message"`, ...), the statement
the handler is at, or the continuation the client is about to run.

| Action | Code |
|---|---|
| `StartSend`, `ReadKeys`, `StartOver` | `message.service.ts` 67-87, `get_chat_keys` |
| `Access` | `get_chat_or_403`, at the start of every endpoint |
| `EnsureChain`, `ReadRoster`, `ChainPublished` | `key-store.service.ts` `ensureSenderChain` |
| `CheckEpoch`, `CheckDevice`, `CheckGrants`, `InsertDistribution` | `publish_sender_key` |
| `CheckCurrent`, `CheckDistribution`, `Store` | `_validate_envelope` and the insert of `send_message` |
| `Reload` | `lock()` or a page reload: chains are in memory only; requests the server has go on |

History variables: `eras[c][e]` collects who was a member while epoch `e` was open, `waiting[d]` the chats
that have not rotated since `d` was published, `disturbed` whether the ledger moved during a call. They
appear in no guard. Signatures always verify and the two anti-ghost hashes are computed from the same
roster, so the comparison in `ensureSenderChain` cannot fail; the ratchet index and the plaintext are left
out, a message is the chain that sealed it. The identity's activity and the device's are one status, as
`deactivate_user_devices` changes both in one transaction.

### Ratchet and MessageClient

`Ratchet` represents a chain key by its index, which is all a one-way derivation lets its holder know:
a `ReceiverChain` is the index it stands at and the set of indices whose keys it retains.

`MessageClient` is one browser tab reading one encrypted chat. `task[t]` is one invocation of an async
function; its `pc` says what it awaits (`"keys"`: `GET keys`, `"unwrap"`: the sender's keys and the unwrapping
of one grant, `"page"`: a page of messages, `"opening"`: WebCrypto). A task at `"next"` is a microtask: it
runs to its next await before anything else does (`Quiet`), so the synchronous stretches of the code are
atomic and its awaits are not.

| Action | Code |
|---|---|
| `Mint`, `Seal`, `Post`, `Edit` | the peer: `ensureSenderChain` with what becomes of the grant, `nextMessageKey`, `create_message`, `update_message` with its index check |
| `OpenChat`, `FinishOpen`, `CloseChat` | `openChat`, `refreshKeys`, `resetConversation`, the effect on `activeChatId` |
| `LoadOlder`, `FinishOlder` | `loadOlder` |
| `Deliver`, `FinishIncoming`, `FinishEdited`, `Miss` | `onIncomingMessage`, `onMessageEdited`; an event lost or for a chat that is not active |
| `TimerFires`, `FinishRetry` | `scheduleGrantRetry`, `redecryptUnreadable` |
| `Keys`, `Unwrap`, `Page`, `RequestFails` | `refreshGrants`, `ingestDistributions`, `loadMessages` |
| `FromCache`, `NoKey`, `CannotOpen`, `StartOpening`, `FinishOpening` | `decrypt`, `decryptOnce`, `messageKeyFor` |

A message is a position in `stored`, its plaintext the envelope it was sealed in; `flying` holds what is
sealed and not posted, so messages may be stored in another order than sealed, and a failed request leaves a
gap. Not every distribution ends as a chain: `grant[s]` says whether the server's list has one for this device
(`absent`: skipped before any await), one whose signature or wrapping does not check (`broken`: skipped after
it, and asked for again at each retry), or one that opens. Previews, read receipts, directory lookups and `hasMoreHistory` (which the component looks at before
it calls `loadOlder`) are left out; enabling encryption on first open is in `ChatEpochs`. `refused` is history.

### Accounts

One account, with its tabs. The server cannot look into a private bundle, so what it holds is what the tabs
put there: a bundle is the pair it holds the private half of and the password it is sealed under. `tab[t]`
is what a tab knows (password typed, pair open) and the request it waits for.

| Action | Code |
|---|---|
| `Register`, `CreateUser`, `VerifyEmail`, `ResendCode`, `Login`, `SignOut`, `Reload` | `auth_routes.py`, `create_user`, `session.service.ts` |
| `Unlock`, `List`, `Fetch` | `unlock` of `session.service.ts` and `key-store.service.ts` 130-158, `get_own_identities` |
| `PublishRead`, `PublishInsert`, `Published` | `publish_identity` before and after the read of the previous key; `createAndPublishIdentity` |
| `StartChange`, `Rewrap`, `VerifyOld`, `SelectBundles`, `ChangePassword` | `changePassword`, `rewrapBundleFor`, `change_password`; `rewrap_private_bundles` up to its SELECT, and its writes with the commit |
| `ForgotPassword`, `StartReset`, `CheckCode`, `BurnCode` | `forgot_password`, `check_otp` in its two halves |
| `ResetKeys`, `ResetDevices`, `ResetPassword` | `reset_password`: its UPDATE of the user and of the keys, that of the devices, its commit |
| `Fails` | a request refused, or an answer lost after the commit |

The two transactions that touch many rows lie open between their statements: each UPDATE writes the rows its own
statement finds (`rows`, `revoked` of a tab, READ COMMITTED), publications commit in between, and only the lock on
the row of the user keeps two such transactions apart (`UserRowFree`). `spent` and `astray` are history. A pair is
`astray` when it was published under a password that was not the account's (any typed password provisions),
between the listing and the commit of a change, or between the statements of a reset.

### Session

One tab of one user. The tab is single threaded, so an action is one event handler, or what follows one
answer. `live[s]` is the `readyState` of a WebSocket object, `socket` the one the service refers to;
`req[r]` follows a request through `refreshInterceptor`, where `refreshing` is `refreshInFlight`; `route` and
`nav` are the screen and the navigation under way, which the guards decide in `Arrive`.

| Action | Code |
|---|---|
| `SocketOpens`, `SocketBreaks`, `SocketClosed`, `Reconnect`, in others `Connect`, `Disconnect` | `websocket.service.ts`, `get_ws_current_user` |
| `Navigate`, `Arrive` | `app.routes.ts`, `session.guards.ts` |
| `Register`, `Login`, `VerifyEmail`, `ResendVerificationEmail`, `ForgotPassword`, `ResetPassword`, `SignOut` | the screens of `features/auth`, `session.service.ts` |
| `Reload` | `restore` |
| `Dispatch`, `Settled`, `Unauthorized`, `Refreshed`, `RefreshFails` | `refresh.interceptor.ts`, `auth_routes.py` 119-135 |
| `AccessEnds`, `RefreshEnds` | expiry, forced logout (`dependencies.py`) |
| `Decrypted` | the end of `decrypt`, which retains the plaintext |

`/login` stands for `/register` and `/forgot-password` too. One request for unlocking and one for a page of
messages stand for all requests. Its initial state, next-state relation and specification are `SessionInit`,
`SessionNext` and `SessionSpec`, so that one module can prove both halves of a tab.

### MessageStore

One chat's messages in MongoDB, their attachments in MinIO, the two records of what was read. `work[w]` is a
handler between two calls of a store.

| Action | Code |
|---|---|
| `Send`, `Insert`, `Tell` | `send_message`, the publication in `messages_routes.py` |
| `SendEdit`, `EditFind`, `EditWrite`, `EditReread` | `update_message` |
| `DeleteFind`, `DeleteOne`, `Look`, `Reap` | `delete_message`, `delete_file` |
| `Upload`, `GetsOld`, `SweepStart`, `SweepLook` | `upload_file`, `cleanup_minio_orphans` with its 24 hours |
| `MarkLastRead`, `MarkRead` | `update_participant_last_read`, `mark_messages_as_read` |
| `Fails` | the process dies, or a store does not answer, between two calls |

An envelope is known by its chain and by the order of sealing, which within one chain is that of the indices;
`MayEdit` compares two of them only if they are of one chain. `sealed[i]` collects what was sealed for message `i`.
`told[i]` is the last event published for message `i`.
`contested`, `astray`, `late` and `half` are history and name the cases in which the code keeps no promise.

### ChatRoles

Users with one tab each. `tab[u]` is the screen with the list of members it read when it was opened, and the
operation under way: offered from that list, `Submit`ted, `Check`ed by the endpoint against the roles it
reads, `Commit`ted later. So three states of the roles meet in each commit.

| Action | Code |
|---|---|
| `CreateGroup`, `Enable`, `EnableRefused` | `create_group_chat` and the client's request to encrypt it, `enable_chat_encryption` |
| `CreateChannel` | `create_channel` |
| `StartPrivate`, `Search`, `CreatePrivate` | `get_or_create_private_chat` in two steps |
| `OpenInfo`, `Submit`, `Back`, `Reload` | `chat-info.component.ts` |
| `Check`, `Commit` | `delete_participants`, `leave_chat`, `add_participants`, `change_role` and their services |

`ImplementsLedger` maps a role other than `"none"` to membership, takes one device per user and no shared
history: each commit is one step of `EpochLedger`. The transactions within a commit are `ChatEpochs`.

### PeerKeys

Ideal primitives as data: a signature is who signed what, a box is what it was encrypted under with which
associated data. `identity.ts`, `grants.ts`, `envelope.ts` and `channel.ts` then are operators
(`VerifyIdentityBinding`, `UnwrapsChain`, `OpensMessage`, `VerifyPost`, ...), and the reader's tab takes the
steps of `ingestDistributions`, `decryptOnce` and the safety number screen. Peers reset their passwords and
come back with new keys; an edit may be sealed for another chat than its message's (the server does not
look); `Misplace` and `MisplaceGrant` let a record turn up in another chat or under another name, the fault
the binding of every signature to its chat and sender is there for. A behaviour follows either the messages
or the number (`NothingSent`, `NothingCompared`), which share no variable but the devices.

The trust store fails as its code lets it: `Write` sets the tab's records first, then the save succeeds or is
refused; `OpenTab` reads what is stored or takes it for empty. Three histories say what the reader did and where
it arrived: `compared` his last word on each peer, `aware` the tabs and `kept` the stored records it reached,
`confirmed` all he ever confirmed. They appear in no guard but that bound.

### Conversation

The writing side of a tab with several chats. `tasks` are the async functions at the await of their request;
each remembers the chat and the opening it was started for, as the code's closures do, and, as in the code,
nothing compares them on landing. The user submits, retries, discards, edits, deletes, scrolls back and moves
between chats (`User`); the server stores, erases, pages and publishes (`Server`); events arrive or are lost
(`Socket`); answers land or fail, also after the server acted (`Lands`). A row is the message it shows:
whether it can be read is `MessageClient`'s subject. A filter of the code is `Dropping`, which goes through a
list and leaves out the members of a set; a page is the one list of its messages in ascending order. `crossed`, `top`, `abandoned`, `unheard` are history.

## 4. What is checked

The modules `MC...` hold the constants of the small instances. States are distinct states.

| Run | Instance | Shows |
|---|---|---|
| `ChatEpochsMembers` | 1 chat, 3 users, 2 devices, 2 workers, all requests, 3 epochs (572 000 states) | `EpochChain`, `OpenEpochExcludesFormerMembers`, `RemovalRotates`, `JoinerStartsAtFreshEpoch`, `EpochsAppendOnly` |
| `ChatEpochsLocks` | 2 chats (one encrypted with shared history, one being enabled), 2 workers, rotations over both (286 000) | the inductive invariant `EpochInv`, `RequestsEnd`, `ImplementsLedger` |
| `SenderKeysSend` | 2 users with a device each, one call at a time, 3 epochs (1 210 000) | `GrantsStayInEra`, `LiveChainsExcludeFormerMembers`, `LiveChainsReachMembers` |
| `SenderKeysPair` | one device with two concurrent sends, reloads, 2 epochs, several chains per epoch (422 000) | `OwnDeviceGranted`, `UndisturbedSendsSucceed` |
| `ClientReads` | 2 functions at once, 1 chain, 3 envelopes, 2 messages, pages of 1, skip limit 1, any grant (1 600 000) | types, `PlaintextKept`, `FailuresAreExplained` |
| `ClientRetries` | 2 functions at once, one message and its edit under 2 chains, either of which may not open, 1 retry (750 000) | `NoKeyResolves` |
| `AccountKeys` | 2 tabs on 2 devices, 2 passwords, 3 key pairs, 2 codes (826 000) | types, `IdentityHistory`, `PasswordOpensTheKeys`, `IdentitySurvivesAChange`, `SpentCodesStaySpent` |
| `Session` | one tab, 2 WebSocket objects, 2 requests (170 000) | `OneSocket`, `SignedOutTabForgets`, `Reconnects`, `WaitersAreReleased` |
| `StoreEvents` | 2 requests at once, a writer and a reader, 2 messages, one attachment, 3 envelopes (2 760 000) | `AttachmentsKept`, `ToldCurrent`, `UnreadAgrees`, `NewestEditStands` |
| `Roles` | 3 users, an encrypted group and two chats to be made, 4 requests | types, `Hierarchy`, `PrivateChatOnce`, `ImplementsLedger` |
| `PeerKeys` | 2 peers with 3 devices, 2 chats and a channel, 2 chains of 2 envelopes, one message, one fault; 2 tabs of the reader, saves and reads that fail (2 060 000) | `AuthenticRows`, `ConfirmationsLast`, `VerifiedWasCompared` |
| `Conversation` | 2 chats, pages of 1, 3 messages, 1 text, 2 tries, 2 tasks, 2 openings, 1 event on its way (2 970 000) | `PagesJoin`, `EachTextOnce`, `TextsGoHome` |

The bounds. *ChatEpochs*: two workers are enough for every pairwise interleaving of requests, and a lock cycle
needs two workers and two chats, which `ChatEpochsLocks` has. Three epochs let a member leave and come back, a
request overtake another and a client be two epochs behind. `MaxEpoch` stops new requests (respectively ledger
steps) beyond it. *SenderKeys*: `MaxChains` stops new calls once that many chains exist or are being made; a call
that retries may add one more, so several chains per device and epoch occur. `Senders` keeps the second device a
receiver. *MessageClient*: two functions at once show every pairwise interleaving (a page against an event, two
openings of the chat, a retry against either); three envelopes and a skip limit of one let a chain be asked for
what it has passed, retained, and refuses; pages of one message make every opening page backwards. `Outcomes`
bounds what becomes of grants. `ClientReads` has one chain, which is minted at any time, before or after the tab
asked for grants. In `ClientRetries` the retries may give up on one chain before the row moves to another, so it
has two; it leaves out the missing grant, which ends nothing that a broken one does not, and has one retry, since a
chain is published before anything is sealed under it. *Accounts*: three pairs let two tabs provision at once and
one provision again after a reset; two codes let a code of each kind, or an old and a new one of a kind, be about.
*Session*: a second WebSocket is made while the first is closing, a third would need two such overlaps, and
`overlap` excepts the first. *MessageStore*: two messages share the attachment, so that deleting one must look at
the other; three envelopes let two edits overtake each other. They are of one chain there; that the comparison does
nothing for envelopes of two is covered by the proof, which is for any number of chains, and by giving the same
module one message, no file, four envelopes, two chains and three workers (250 000 states), where
`NewestEditStands` holds as well. *ChatRoles*: four requests suffice for two concurrent operations on stale screens
each (screen, operation); `MaxMembers` of two makes encrypting refuse the third. *PeerKeys*: two chats and two
peers are enough for every binding to be broken one at a time; one fault, since each broken binding needs one; two
tabs are one that is stale and one that is not. *Conversation*: two tasks of one tab overlap in pairs; pages of one
message make every opening page backwards; two openings let an answer land after a switch. To land after coming
back takes a third, which the proofs have: they are for any number of openings. One text with two tries is posted,
failed and retried, or deleted; requests and bubbles of different texts meet only by name.

Every run says `CHECK_DEADLOCK FALSE`: the systems idle once a budget is used, and a messenger may be idle.

Fairness. *ChatEpochs*: `SF_vars(Step(w))` for each worker. A started request is run by the event loop or the
Celery process, and PostgreSQL queues lock requests, so a statement that is again and again possible is
eventually executed; strong fairness is needed because a lock may be taken and released by others in
between. Nothing is assumed of the environment: requests and crashes need never happen. *MessageClient*: what
a function awaits settles (`WF`: requests are answered or fail), and an elapsed timer runs although other
functions are started again and again (`SF`; the bound on functions at once is the model's). *Session*: the
browser runs timers, ends navigations, tells of closed sockets and answers or fails requests (`WF`); a
handshake that is tried again and again while the token is good succeeds in the end (`SF`), without which
reconnecting promises nothing. Users, peers and tokens need do nothing. The other modules state safety only.

Every property has a mutant in `PROJECT.json`: a plausible bug in a modelled definition under which TLC
finds that property violated.

### Divergences met while modelling

Where the models follow the code against what the repository says of it. Properties except these cases by a
history variable or by their domain, named in their comments.

Epochs, keys and sending:

- `publish_identity` commits the key (`identity_service.py` 87) before the chats rotate, although
  `crypto_routes.py` 50-51 and `epoch_service.py` 192-193 speak of it as one: if the rotation is refused or
  the process dies, the new device is in no open epoch until the next rotation.
- `allocate_epoch` counts on `settings.current_epoch` loaded before the advisory lock (`epoch_service.py`
  157), against 99: of two overlapping rotations the later one is answered 500 by the unique key.
- A removal that overlaps with `enable_encryption` has looked for the settings row too early and does not
  rotate (`epoch_service.py` 157), against `chat_services.py` 343-345 and `docs/crypto-spec-v1.md` 283.
- The epoch gate of `send_message` and the insert into MongoDB are two steps (`messages_service.py` 131, 248),
  against its comment at 129-130: a message can land under the closed epoch.
- Adding somebody who is a member stamps them with the new epoch (`chat_services.py` 378), so that they no longer
  are granted the epochs between. The cap on encrypted chats (`epoch_service.py` 234) is not looked at
  when members are added. A reset of the password revokes devices and rotates nothing (`auth_routes.py` 177).
- The roster hash is computed by the server from the same rows it is compared with (`crypto_routes.py` 158,
  `key-store.service.ts` 251-253), so `memberVerificationError` cannot be reached.
- Provisioning again after a reset, which `session.service.ts` 148-149 promises, is refused when the device is
  the same: its next version is computed as 1 (`identity_service.py` 63).
- `deactivate_user_devices` revokes what its statements find, and `reset_password` commits later: a key published in
  between stays active, sealed under the password that is replaced (`identity_service.py` 267-278), against
  `auth_routes.py` 172-173.
- Any typed password provisions a first identity; an identity published between the listing and the commit
  of a change stays under the old password (`auth_routes.py` 199-202).

Reading:

- A message opened by a live event while its page is being decrypted stays `failed` in its row: the good
  result is dropped as a duplicate (`chat-store.service.ts` 720), against `message.service.ts` 253-255.
- `onMessageEdited` forgets the plaintext and opens the index again (`chat-store.service.ts` 738-741); after a
  page that had the edit, the key is used up and the text is lost, against 727-729. An edit whose event is
  missed leaves the old plaintext retained.
- A row waits for a grant that is missing, forged or wrapped to an identity the device has left until the retries give
  up (`key-store.service.ts` 335, 343-357, 373-376). The event of a message that is handled after a page with its
  edit puts the old envelope into `rawMessages` (`chat-store.service.ts` 706); if the edit's own event is lost, the
  retries try that envelope and not the one of the row. `NoKeyResolves` excepts both.
- An edit sealed under an earlier chain that arrives late replaces one sealed later under a newer chain:
  `update_message` compares indices within one chain only (`messages_service.py` 323-329).
- A concurrent ingestion puts a fresh chain in the place of an advanced one (`key-store.service.ts` 335), so
  consumed keys come back, against `docs/crypto-spec-v1.md` 142.
- The server stores an edit whatever chat it was sealed for, and `chat-view` does not leave editing when the chat
  changes: such a message can be opened by nobody. With two active devices the safety number is that of an
  arbitrary one (`identity_service.py` 207-210). Two tabs overwrite each other's confirmed numbers
  (`trust-store.service.ts` 78-85, against 26-28), and so does a tab that opened on storage it could not read
  (71-75) with its next save.

Writing and listing (`chat-store.service.ts` unless said otherwise):

- `openChat`, `loadOlder`, `send` and the event handlers do not compare the chat again after their awaits: what
  lands after a switch is written into the other chat's screen. A page that lands overwrites rows that came
  while it was loading; a message deleted while it was decrypted comes back as a row.
- `retry` (496-504) drops reply and attachments; a bubble of attachments alone vanishes. `resetConversation`,
  also by `key_epoch_started`, drops failed bubbles. A post whose answer is lost is offered for retry and
  stored twice.
- When all rows on screen are deleted `loadOlder` has no cursor and stops. `loadChats` gets the first 20 chats
  (`chat_routes.py` 88), and rows of the list have no participants, which hides the safety number button until
  the chat is opened. A new chat's first message counts twice as unread; a late `markRead` hides a newer badge.
- `typing_stop` is lost, or sent to the wrong chat, when the composer goes first. Presence starts empty, and one
  of two sockets closing takes the user offline (`ws_router.py` 128).

Sessions:

- A user who signs in unverified is held at `/unlock`, where all requests are answered 403: the guards keep them
  from `/verify`. After a failed refresh the tab is held there too (`refresh.interceptor.ts` 52-57).
- When the server cannot be reached, `signOut` drops the local state and then fails before its navigation.
- The forced-logout stamp is compared in whole seconds and not consulted by refresh (`auth_routes.py` 181).
- Events missed while the socket was down are not made up for, which `redis_service.py` 20-21 leaves to clients.

## 5. What is proved

Everything below holds for any sets and bounds the constants may stand for, from the assumption each module
names beside them: `ChatsAssumption` and `SendersAssumption` (typing; `MaxEpoch >= 1` for the second),
`ChatRolesAssumption` (typing; finitely many users), `RatchetAssumption` (`MaxSkip \in Nat`), `ClientAssumption`
(typing; pages are not empty), `AccountsAssumption`, `StoreAssumption` and `PeerAssumption` (typing, and that the
values for "nobody" and "nothing" are not among the others), `SessionAssumption` (`NoSocket` is no socket),
`ConversationAssumption` (typing; pages are not empty, `NoChat` is no chat). TLC
evaluates each of them in the runs of its module. Each invariant below was checked by TLC on the instance of its
run before it was proved.

`ChatEpochsProofs`: `Spec => []EpochInv`. `EpochChain` is not inductive by itself: that an insert opens the
successor of the last epoch is known only because the unique key refuses other numbers (`FreeNumberIsNext`)
and because pending epochs exist only under the advisory lock (`LockDiscipline`). That the roster of a
pending epoch contains no former member needs what each transaction has read and written
(`StepDiscipline`, `MembershipDiscipline`): a removal that rotates reads the roster after its own delete,
and another removal's epoch cannot be open at the same time. From it follow `EpochChain`,
`OpenEpochExcludesFormerMembers`, `RemovalRotates`, `JoinerStartsAtFreshEpoch`, `EpochsAppendOnly`.

The same module proves `Spec => Ledger!Spec` (`LedgerImplemented`). Only `Commit` changes the abstract variables, apart from the
one-statement identity and reset transactions; a commit of a removal or an addition is
`RemoveMembers` or `AddMembers` of the rows it holds, any other a `Rotate`.

`SenderKeysProofs`: `Spec => []EraInv`. The client reads the epoch number *before* the roster and the
server compares it *after* receiving the grants: if that epoch is still open then, it was open when the
roster was read (`WrappedForMembers`, which holds because epochs only grow and a closing epoch falsifies
its hypothesis). From `CheckEpoch` on the grants are within the epoch's members (`CheckedInEra`) even if
the epoch closes before the insert. `GrantsStayInEra` and `LiveChainsExcludeFormerMembers` follow.

That the members are reached needs the converse, `[]RosterInv`: while the epoch of a call is still the open one,
every due device is among its grants when it inserts (`WrappedForAll`), since the handler compares the grants
with the roster it reads itself and a membership change would have closed the epoch; a device that came in
between is `waiting`. The sender is a member when it reads the roster (`ReadersBelong`) and wraps for itself
unless it has been revoked (`WrappedForSelf`). From it follow `OwnDeviceGranted` and `LiveChainsReachMembers`.
`UndisturbedSendsSucceed` rests on `SendInv`: as long as the ledger has not moved, what a call has read is how
things are (`ReadsStillRight`), and a chain a call or a cache holds has been published (`HeldChainsPublished`,
`KeptChainsPublished`), so that no check has a reason to refuse.

`MessageClientProofs` has the ratchet first: `AfterKeyTakesOneKey`, that `messageKeyFor(i)` uses up the key of
`i` and no other, so that messages open in any order and none twice. It rests on `RetainsThePast`: a chain retains
only keys below its index, so a retained key is never derived a second time. Then `Spec => []ClientInv`: a key
seals one message and what is on its way of a message is how it is stored unless it was edited since
(`KeysSealOnce`); a chain has used up no keys but those of what was posted (`ChainsBehind`), although a
concurrent ingestion may put a fresh chain in its place; a function has as many results as it has got through
messages (`InStep`). With these `PlaintextKept` is inductive, and `FailuresAreExplained` follows step by step. A page
is in ascending order because a set of numbers has a least element (`LeastNumber`, from the library's
well-foundedness of `<`); that is also how induction over numbers is done here, over a set instead of a
predicate (`NumbersByInduction`).

`AccountsProofs`: `Spec => []KeysInv`. Versions of a device are numbered without gaps and only the last is active
(`Numbered`), which is inductive because what an insertion read before is still there when it counts
(`SeenByInsert`), and the unique key refuses a number that was taken meanwhile. A change of the password writes
what it re-wrapped over rows it selected before (`rows`): every row it read is still that device's
(`SeenByChange`), pairs are in one row each (`Apart`, `PairsOnce`), so each bundle it writes holds its row's pair, and
while it lies open nobody else changes the password, since both transactions hold the row of the user. A reset
knows which rows its UPDATE wrote; what is active besides when it commits was published meanwhile and is `astray`.
`IdentityHistory` and `PasswordOpensTheKeys` follow, and from the steps `IdentitySurvivesAChange`.
`SpentCodesStaySpent` rests on `CodesOnce`: codes are numbered and a spent one is not in force.

`MessageStoreProofs`: `Spec => []StoreInv`, in four parts. `WorkInv` says what a handler holds at each of its awaits.
`ToldInv`: at a message that is not `contested` at most one handler is past its first look (`Busy`), it knows how the
message is stored or leaves it to be read again (`Sees`), and when there is none, what was told last is how the message
is; hence `ToldCurrent`. `SealInv`: at such a message, as long as all that was sealed for it is of the stored chain,
each envelope is as old as the stored one or as one that an edit under way carries, and what a handler is about to
write has passed the comparison with what is stored still; hence `NewestEditStands`.
`BlobInv`: an object that a stored message names is in the bucket and its deletion is not decided, neither by a
handler at `reap` nor by a sweep that will find it old and unused; hence `AttachmentsKept`. `ReadInv`: an unread
message is above the mark of everyone else or under a mark that is being carried out; hence `UnreadAgrees`.

`PeerKeysProofs`: `Spec => [](RecordsInv /\ HeldInv)`. Wherever records and grants are misplaced, the body of each
is what a device signed or sealed, for the chat, the name and the index it says (`DocsInv`, `DistsInv`), and a chain
is held only in the chat it was wrapped for (`HeldInv`, so `ChainsKeepToTheirChat`). The lemmas before it say what
each primitive is bound to: that a signature, an envelope or a grant that is accepted in a chat was made for it.
`AuthenticRows` is then a case per way a row changes. The trust records have an invariant of their own,
`Spec => []TrustInv`: each copy that the reader's last word on a peer reached agrees with it, also after a save that
was refused or carried the whole map of another tab, and no copy has a number he never confirmed; hence
`ConfirmationsLast` and `VerifiedWasCompared`.

`TabProofs`, its first part: `Spec => []ConversationInv`, for any chats, pages of any size and any number of
messages, tries and requests. Its parts are kept by different steps, so a lemma per action has to show little.
`HomeInv`: the bubble, the requests and the messages of a text are all of the chat it was submitted in; a
bubble's chat is the active one, which is what makes `retry` safe although it reads `activeChatId` again, and
what `resetConversation` keeps by dropping them. Hence `TextsGoHome`. `OnceInv`: a text has one request at most
and none while its bubble offers to retry, and what is not answered or has failed is not stored, unless the
answer was lost; with `KeptInv` (stored, given up or on screen) it gives `EachTextOnce`. `PagesJoin` needs to
know what is still to land: a page has, from any of its messages on, all there was before its cursor, for the chat of its request
(`IsPage`, kept while the server grows because cursors and ends of pages are behind what is new), and a request
that is not late is for the chat on screen (`TaskInv`); a deletion announced by an event or an answer has taken
place (`EventInv`), so dropping a row opens no hole. `RowsInv` states of *every* row what `PagesJoin` states of
the first, since dropping the first makes another one first; `BubblesInv` keeps the keys of bubbles apart.

What its lists hold is proved before: `Dropped` says for every list what `Dropping` returns (its members, and
that nothing is repeated), by induction over the steps of its recursive function (`KeptExists`);
`AscendingExists` that every finite set of numbers has an ascending list, by induction over a bound, hence
`AscendingLists` that the list chosen has exactly those members; `PagesAreWhole` follows, by the number of
messages between a row and the cursor. Induction is again over a set of numbers instead of a predicate.

`TabProofs`, its second part: `SessionSpec => []SessionInv`, for any number of WebSocket objects. `OneSocket` needs to
know that until an overlap at most one object is not yet closed for good, and that the current one is not
(`OneAtATime`): the close event clears whatever reference there is. `SignedOutTabForgets` needs that an unlock
is in flight only on its screen and before the keys are open, so that none outlives a sign-out, and that
nobody is signed in on the screen of the reset (`UnlockDiscipline`).

`ChatRolesProofs`, for any users, chats and screens: `Spec => Ledger!Spec` from `RolesInv` (a chat that was not
created has no rows, and a request in flight is about a chat there is); each commit is one `AddMembers` or
`RemoveMembers`, and every other step of a screen is a stutter. `Hierarchy` needs that what a check has
allowed stays harmless until its commit (`Fits`): nobody becomes an owner or stops being one (`OwnersStay`), so
an operation checked against somebody who is not the owner never meets the owner. `PrivateChatOnce` rests on
`MeetInv`: unless two creations overlapped, whoever is about to create a private chat has none yet. `RolesWellTyped`
adds `AskInv`, that a screen at work asks for one thing.

Model-checked only: `RequestsEnd`, `NoKeyResolves`, `Reconnects` and `WaitersAreReleased`, because liveness under
fairness is outside the prover, as is `ENABLED`. Every other property of the runs is a theorem. No module has a
recursive operator.

## 6. What is not modelled

Grant pruning (`_prune_delivered_grants`) depends on wall-clock retention only. `PUT identity/prekey` is called
by no client (`key-store.service.ts` 161-177 says why). Contacts, profiles and folders are single-statement
reads and writes, mail and configuration are pure input and output. Of the components marked `partly` the
note in `PROJECT.json` says what is left out: previews, typing, presence, titles and avatars are display
data; the history floor is a MongoDB id derived from the time of joining; tokens are good or not, their times
are abstracted. Cryptography is perfect in the models: byte formats and key derivation are pure functions
tested by shared vectors (`reference/`). The views are in the models as guards, by what they let a user do;
their rendering is not.
