--------------------------- MODULE MessageClient ---------------------------
(***************************************************************************)
(* The reading side of one encrypted chat in one browser tab:              *)
(* chat-store.service.ts over message.service.ts and key-store.service.ts. *)
(* A peer seals messages with chains it publishes first; the tab loads     *)
(* pages of history, receives live events and retries what it holds no key *)
(* for yet.  Every one of these is an async function, and several run at   *)
(* once: a task is one of them, and one action is what runs between two    *)
(* awaits of network or WebCrypto.  Continuations that need neither        *)
(* (pc "next") run to completion before anything else, as microtasks do.   *)
(***************************************************************************)
EXTENDS Ratchet, FiniteSets, Sequences

CONSTANTS
    Tasks,          \* bound: async functions in progress at once
    PageSize,       \* PAGE_SIZE
    Retries,        \* the number of GRANT_RETRY_DELAYS
    MaxChains,      \* bound: chains the peer mints
    MaxSeals,       \* bound: envelopes sealed under one chain
    MaxMessages,    \* bound: messages in the chat
    CanEdit,        \* bound: whether the peer edits messages
    Outcomes,       \* bound: what becomes of grants
    NoChain         \* a distribution not ingested

ASSUME ClientAssumption ==
    /\ PageSize \in Nat \ {0} /\ Retries \in Nat
    /\ MaxChains \in Nat \ {0} /\ MaxSeals \in Nat /\ MaxMessages \in Nat
    /\ CanEdit \in BOOLEAN /\ Outcomes \subseteq {"absent", "broken", "good"}
    /\ NoChain \notin ReceiverChain

VARIABLES
    sender,     \* the peer's SenderChain
    grant,      \* what each distribution the server holds has for this device
    flying,     \* envelopes sealed and not yet posted
    stored,     \* the messages collection; an _id is a position
    events,     \* what the socket will deliver
    active,     \* activeChatId is this chat
    loading,    \* messagesLoading
    chains,     \* peerChains, by sender key id
    opened,     \* MessageService.opened
    raw,        \* rawMessages
    view,       \* messages: the rows on screen
    timer,      \* grantRetryTimer: the attempt it will make, NoTimer when null
    task,       \* the progress of each async function
    refused     \* history: a request of a retry has failed

peer == <<sender, grant, flying, stored>>
screen == <<active, loading, raw, view, timer>>
vars == <<peer, events, screen, chains, opened, task, refused>>

----------------------------------------------------------------------------
Skids == 1..MaxChains
Ids == 1..MaxMessages

(* A distribution names no grant for this device, or one that is skipped after its await: the     *)
(* signature does not verify, or it was wrapped to an identity the device has left.  Or it opens. *)
Grants == {"absent", "broken", "good"}

(* An envelope by the key that sealed it, and is_edited of the message that carries it. *)
Envelope == [skid : Skids, idx : Nat, edited : BOOLEAN]
NoEnvelope == [skid |-> 0, idx |-> 0, edited |-> FALSE]

Event == [kind : {"new", "edited"}, id : Ids, env : Envelope]

(* DecryptedMessage: the plaintext is known by the envelope it was sealed in. *)
Statuses == {"ok", "no_key", "failed"}
Row == [id : Ids, status : Statuses, env : Envelope]

Unopened == [status |-> "none", env |-> NoEnvelope]
NoTimer == Retries

Kinds == {"none", "open", "older", "incoming", "edited", "retry"}

(* A message to decrypt and, in a retry, the status of its row. *)
Item == [id : Ids, env : Envelope, was : Statuses]

Idle == [kind |-> "none", pc |-> "idle", attempt |-> 0, before |-> 0,
         grants |-> {}, skid |-> 0, todo |-> <<>>, done |-> <<>>]

Task == [kind : Kinds,
         pc : {"idle", "keys", "unwrap", "page", "next", "opening"},
         attempt : 0..Retries,          \* of a retry
         before : 0..(MaxMessages + 1), \* the cursor of a page
         grants : SUBSET Skids,         \* distributions still to ingest
         skid : 0..MaxChains,           \* the one being unwrapped
         todo : Seq(Item),              \* the messages to decrypt
         done : Seq(Row)]               \* what came of them so far

Init ==
    /\ sender = [skid |-> 0, next |-> MaxSeals] /\ grant = [s \in Skids |-> "absent"]
    /\ flying = {} /\ stored = <<>> /\ events = <<>>
    /\ active = FALSE /\ loading = FALSE
    /\ chains = [s \in Skids |-> NoChain]
    /\ opened = [i \in Ids |-> Unopened]
    /\ raw = [i \in Ids |-> NoEnvelope]
    /\ view = <<>> /\ timer = NoTimer
    /\ task = [t \in Tasks |-> Idle]
    /\ refused = FALSE

(* No continuation is waiting to run. *)
Quiet == \A t \in Tasks : task[t].pc # "next"

At(t, pc) == task[t].pc = pc /\ (pc = "next" \/ Quiet)

Become(t, record) == task' = [task EXCEPT ![t] = record]

----------------------------------------------------------------------------
(* The peer.  ensureSenderChain publishes a chain before it returns it, so *)
(* the server holds the distributions of chains 1..sender.skid: none yet.  *)

Mint(g) ==
    /\ Quiet /\ sender.skid < MaxChains
    /\ sender' = [skid |-> sender.skid + 1, next |-> 0]
    /\ grant' = [grant EXCEPT ![sender.skid + 1] = g]
    /\ UNCHANGED <<flying, stored, events, screen, chains, opened, task, refused>>

(* nextMessageKey and sealMessage, for a message or for an edit; a request that fails leaves    *)
(* its envelope flying.                                                                         *)
Seal ==
    /\ Quiet /\ sender.next < MaxSeals
    /\ flying' = flying \cup {[skid |-> sender.skid, idx |-> sender.next]}
    /\ sender' = [sender EXCEPT !.next = @ + 1]
    /\ UNCHANGED <<grant, stored, events, screen, chains, opened, task, refused>>

(* POST /messages: requests of one device may overtake each other. *)
Post(e) ==
    /\ Quiet /\ Len(stored) < MaxMessages
    /\ LET env == [skid |-> e.skid, idx |-> e.idx, edited |-> FALSE] IN
         /\ stored' = Append(stored, env)
         /\ events' = Append(events, [kind |-> "new", id |-> Len(stored) + 1, env |-> env])
    /\ flying' = flying \ {e}
    /\ UNCHANGED <<sender, grant, screen, chains, opened, task, refused>>

(* update_message: within one chain the index must grow. *)
FreshIndex(e, i) == stored[i].skid = e.skid => e.idx > stored[i].idx

Edit(e, i) ==
    /\ Quiet /\ CanEdit /\ FreshIndex(e, i)
    /\ LET env == [skid |-> e.skid, idx |-> e.idx, edited |-> TRUE] IN
         /\ stored' = [stored EXCEPT ![i] = env]
         /\ events' = Append(events, [kind |-> "edited", id |-> i, env |-> env])
    /\ flying' = flying \ {e}
    /\ UNCHANGED <<sender, grant, screen, chains, opened, task, refused>>

----------------------------------------------------------------------------
(* scheduleGrantRetry(attempt), once the rows are `rows`.                  *)

Schedule(rows, attempt) ==
    timer' = IF attempt < Retries /\ \E k \in DOMAIN rows : rows[k].status = "no_key"
             THEN attempt ELSE timer

(* resetConversation *)
ResetConversation ==
    /\ raw' = [i \in Ids |-> NoEnvelope]
    /\ view' = <<>>
    /\ timer' = NoTimer

(* activeChatId is set to this chat, or refreshKeys reopens it (also on key_epoch_started). *)
OpenChat(t) ==
    /\ Quiet /\ task[t].pc = "idle"
    /\ ResetConversation
    /\ active' = TRUE /\ loading' = TRUE
    /\ Become(t, [Idle EXCEPT !.kind = "open", !.pc = "keys", !.before = MaxMessages + 1])
    /\ UNCHANGED <<peer, events, chains, opened, refused>>

(* activeChatId is set to null: what is in flight is not stopped. *)
CloseChat ==
    /\ Quiet /\ active
    /\ active' = FALSE
    /\ ResetConversation
    /\ UNCHANGED <<peer, events, loading, chains, opened, task, refused>>

LoadOlder(t) ==
    /\ Quiet /\ task[t].pc = "idle"
    /\ active /\ view # <<>> /\ ~loading
    /\ loading' = TRUE
    /\ Become(t, [Idle EXCEPT !.kind = "older", !.pc = "keys", !.before = view[1].id])
    /\ UNCHANGED <<peer, events, active, raw, view, timer, chains, opened, refused>>

(* The retry timer elapses; resetConversation has cleared it if the chat was closed. *)
TimerFires(t) ==
    /\ Quiet /\ task[t].pc = "idle"
    /\ timer # NoTimer
    /\ timer' = NoTimer
    /\ IF active THEN Become(t, [Idle EXCEPT !.kind = "retry", !.pc = "keys", !.attempt = timer])
                 ELSE UNCHANGED task
    /\ UNCHANGED <<peer, events, active, loading, raw, view, chains, opened, refused>>

(* An event reaches nobody: the socket is down, or the chat is not the active one. *)
Miss ==
    /\ Quiet /\ events # <<>>
    /\ events' = Tail(events)
    /\ UNCHANGED <<peer, screen, chains, opened, task, refused>>

(* onIncomingMessage and onMessageEdited, up to their decrypt. *)
Deliver(t) ==
    /\ Quiet /\ task[t].pc = "idle"
    /\ events # <<>> /\ active
    /\ LET event == Head(events) IN
         /\ raw' = [raw EXCEPT ![event.id] = event.env]
         /\ opened' = IF event.kind = "edited" THEN [opened EXCEPT ![event.id] = Unopened]
                      ELSE opened
         /\ Become(t, [Idle EXCEPT !.kind = IF event.kind = "new" THEN "incoming" ELSE "edited",
                                   !.pc = "next",
                                   !.todo = <<[id |-> event.id, env |-> event.env,
                                               was |-> "no_key"]>>])
    /\ events' = Tail(events)
    /\ UNCHANGED <<peer, active, loading, view, timer, chains, refused>>

----------------------------------------------------------------------------
(* ingestDistributions: one distribution after the other, skipping those   *)
(* that are held when their turn comes.                                    *)

Least(S) == CHOOSE x \in S : \A y \in S : x <= y

Ascending(S) ==
    CHOOSE f \in [1..Cardinality(S) -> S] : \A j, k \in 1..Cardinality(S) : j < k => f[j] < f[k]

(* The rows redecryptUnreadable takes up, sorted by id (of equal ids, the earlier row first). *)
Stuck ==
    LET width == Len(view) + 1
        places == Ascending({view[k].id * width + k :
                               k \in {j \in DOMAIN view : /\ view[j].status \in {"no_key", "failed"}
                                                          /\ raw[view[j].id] # NoEnvelope}})
        Nth(k) == view[places[k] % width]
    IN [k \in DOMAIN places |-> [id |-> Nth(k).id, env |-> raw[Nth(k).id], was |-> Nth(k).status]]

(* The distributions among `grants` with a grant for which there is no chain in `held`. *)
Missing(grants, held) == {s \in grants : held[s] = NoChain /\ grant[s] # "absent"}

(* The continuation with the distributions `grants` to go. *)
Ingest(t, grants, held) ==
    LET missing == Missing(grants, held) IN
    Become(t, IF missing # {}
              THEN [task[t] EXCEPT !.pc = "unwrap", !.skid = Least(missing),
                                   !.grants = {s \in grants : s > Least(missing)}]
              ELSE IF task[t].kind = "retry"
              THEN [task[t] EXCEPT !.pc = "next", !.grants = {}, !.skid = 0, !.todo = Stuck]
              ELSE [task[t] EXCEPT !.pc = "page", !.grants = {}, !.skid = 0])

(* GET keys answers with the distributions published by now. *)
Keys(t) ==
    /\ At(t, "keys")
    /\ Ingest(t, 1..sender.skid, chains)
    /\ UNCHANGED <<peer, events, screen, chains, opened, refused>>

(* The sender's keys are fetched and the grant is unwrapped: the chain is set, held or not, unless *)
(* the distribution is forged or the grant does not open.                                          *)
Unwrap(t) ==
    /\ At(t, "unwrap")
    /\ chains' = IF grant[task[t].skid] = "good" THEN [chains EXCEPT ![task[t].skid] = FreshChain]
                 ELSE chains
    /\ Ingest(t, task[t].grants, chains')
    /\ UNCHANGED <<peer, events, screen, opened, refused>>

(* get_chat_messages: the last PageSize messages before the cursor, turned around. *)
PageIds(before) ==
    {i \in DOMAIN stored : i < before
                           /\ Cardinality({j \in DOMAIN stored : i < j /\ j < before}) < PageSize}

Page(t) ==
    /\ At(t, "page")
    /\ LET ids == Ascending(PageIds(task[t].before)) IN
       Become(t, [task[t] EXCEPT !.pc = "next",
                    !.todo = [k \in DOMAIN ids |->
                                [id |-> ids[k], env |-> stored[ids[k]], was |-> "no_key"]]])
    /\ UNCHANGED <<peer, events, screen, chains, opened, refused>>

(* A request is refused or times out. *)
RequestFails(t) ==
    /\ At(t, "keys") \/ At(t, "unwrap") \/ At(t, "page")
    /\ Become(t, Idle)
    /\ view' = IF task[t].kind = "open" THEN <<>> ELSE view
    /\ loading' = IF task[t].kind = "retry" THEN loading ELSE FALSE
    /\ IF task[t].kind = "retry" THEN Schedule(view, task[t].attempt + 1) ELSE UNCHANGED timer
    /\ refused' = (refused \/ task[t].kind = "retry")
    /\ UNCHANGED <<peer, events, active, raw, chains, opened>>

----------------------------------------------------------------------------
(* decrypt and decryptOnce.                                                *)

Current(t) == task[t].todo[Len(task[t].done) + 1]

ToDo(t) == Len(task[t].done) < Len(task[t].todo)

Result(t, status, env) ==
    [task[t] EXCEPT !.pc = "next",
                    !.done = Append(@, [id |-> Current(t).id, status |-> status, env |-> env])]

(* The plaintext is retained: opened at most once. *)
FromCache(t) ==
    /\ At(t, "next") /\ ToDo(t)
    /\ LET known == opened[Current(t).id] IN
         /\ known # Unopened
         /\ Become(t, Result(t, known.status, known.env))
    /\ UNCHANGED <<peer, events, screen, chains, opened, refused>>

(* Mutant: no_key is retained like any other result. *)
NoKeyRetained(t) ==
    /\ At(t, "next") /\ ToDo(t)
    /\ opened[Current(t).id] = Unopened
    /\ chains[Current(t).env.skid] = NoChain
    /\ opened' = [opened EXCEPT ![Current(t).id] = [status |-> "no_key", env |-> Current(t).env]]
    /\ Become(t, Result(t, "no_key", Current(t).env))
    /\ UNCHANGED <<peer, events, screen, chains, refused>>

(* The sender has not wrapped the chain for us yet: nothing is consumed, nothing retained. *)
NoKey(t) ==
    /\ At(t, "next") /\ ToDo(t)
    /\ opened[Current(t).id] = Unopened
    /\ chains[Current(t).env.skid] = NoChain
    /\ Become(t, Result(t, "no_key", Current(t).env))
    /\ UNCHANGED <<peer, events, screen, chains, opened, refused>>

(* messageKeyFor throws: consumed, or too far ahead. *)
CannotOpen(t) ==
    /\ At(t, "next") /\ ToDo(t)
    /\ LET item == Current(t) IN
         /\ opened[item.id] = Unopened
         /\ chains[item.env.skid] # NoChain
         /\ ~Answers(chains[item.env.skid], item.env.idx)
         /\ opened' = [opened EXCEPT ![item.id] = [status |-> "failed", env |-> item.env]]
         /\ Become(t, Result(t, "failed", item.env))
    /\ UNCHANGED <<peer, events, screen, chains, refused>>

(* The key is taken out of the chain, and the message is handed to WebCrypto. *)
StartOpening(t) ==
    /\ At(t, "next") /\ ToDo(t)
    /\ LET item == Current(t) IN
         /\ opened[item.id] = Unopened
         /\ chains[item.env.skid] # NoChain
         /\ Answers(chains[item.env.skid], item.env.idx)
         /\ chains' = [chains EXCEPT ![item.env.skid] = AfterKey(@, item.env.idx)]
    /\ Become(t, [task[t] EXCEPT !.pc = "opening"])
    /\ UNCHANGED <<peer, events, screen, opened, refused>>

(* Mutant: what was opened is not retained. *)
RetainNothing(item) == UNCHANGED opened

Retain(item) == opened' = [opened EXCEPT ![item.id] = [status |-> "ok", env |-> item.env]]

FinishOpening(t) ==
    /\ At(t, "opening")
    /\ Retain(Current(t))
    /\ Become(t, Result(t, "ok", Current(t).env))
    /\ UNCHANGED <<peer, events, screen, chains, refused>>

----------------------------------------------------------------------------
(* What each function does with its results.                               *)

Done(t, kind) == At(t, "next") /\ ~ToDo(t) /\ task[t].kind = kind

RawOfPage(t) ==
    [i \in Ids |-> IF \E k \in DOMAIN task[t].todo : task[t].todo[k].id = i
                   THEN (CHOOSE item \in {task[t].todo[k] : k \in DOMAIN task[t].todo} : item.id = i).env
                   ELSE raw[i]]

(* openChat replaces what is on screen. *)
FinishOpen(t) ==
    /\ Done(t, "open")
    /\ raw' = RawOfPage(t)
    /\ view' = task[t].done
    /\ loading' = FALSE
    /\ Schedule(view', 0)
    /\ Become(t, Idle)
    /\ UNCHANGED <<peer, events, active, chains, opened, refused>>

(* loadOlder puts the page before what is on screen. *)
FinishOlder(t) ==
    /\ Done(t, "older")
    /\ raw' = RawOfPage(t)
    /\ view' = task[t].done \o view
    /\ loading' = FALSE
    /\ Schedule(view', 0)
    /\ Become(t, Idle)
    /\ UNCHANGED <<peer, events, active, chains, opened, refused>>

OnScreen(id) == \E k \in DOMAIN view : view[k].id = id

(* Mutant: no grants are pulled after a live message that has no key. *)
FinishIncomingQuietly(t) ==
    /\ Done(t, "incoming")
    /\ view' = IF OnScreen(task[t].done[1].id) THEN view ELSE view \o task[t].done
    /\ Become(t, Idle)
    /\ UNCHANGED <<peer, events, active, loading, raw, timer, chains, opened, refused>>

(* onIncomingMessage: appendDecrypted keeps a row that is there already. *)
FinishIncoming(t) ==
    /\ Done(t, "incoming")
    /\ view' = IF OnScreen(task[t].done[1].id) THEN view ELSE view \o task[t].done
    /\ IF task[t].done[1].status = "no_key" THEN Schedule(view', 0) ELSE UNCHANGED timer
    /\ Become(t, Idle)
    /\ UNCHANGED <<peer, events, active, loading, raw, chains, opened, refused>>

(* The rows of `fresh` in place of those on screen with the same id. *)
Replaced(fresh) ==
    [k \in DOMAIN view |->
       IF \E row \in fresh : row.id = view[k].id
       THEN CHOOSE row \in fresh : row.id = view[k].id
       ELSE view[k]]

(* onMessageEdited *)
FinishEdited(t) ==
    /\ Done(t, "edited")
    /\ view' = Replaced({task[t].done[1]})
    /\ IF task[t].done[1].status = "no_key" THEN Schedule(view', 0) ELSE UNCHANGED timer
    /\ Become(t, Idle)
    /\ UNCHANGED <<peer, events, active, loading, raw, chains, opened, refused>>

(* redecryptUnreadable, then the next attempt. *)
Reopened(t) ==
    {task[t].done[k] : k \in {j \in DOMAIN task[t].done : task[t].done[j].status # task[t].todo[j].was}}

FinishRetry(t) ==
    /\ Done(t, "retry")
    /\ view' = Replaced(Reopened(t))
    /\ Schedule(view', task[t].attempt + 1)
    /\ Become(t, Idle)
    /\ UNCHANGED <<peer, events, active, loading, raw, chains, opened, refused>>

----------------------------------------------------------------------------
(* What a task does once it runs, and everything.                          *)

Advance(t) ==
    \/ Keys(t) \/ Unwrap(t) \/ Page(t)
    \/ FromCache(t) \/ NoKey(t) \/ CannotOpen(t) \/ StartOpening(t) \/ FinishOpening(t)
    \/ FinishOpen(t) \/ FinishOlder(t) \/ FinishIncoming(t) \/ FinishEdited(t) \/ FinishRetry(t)

PeerNext ==
    \/ \E g \in Outcomes : Mint(g)
    \/ Seal
    \/ \E e \in flying : Post(e) \/ \E i \in DOMAIN stored : Edit(e, i)

ReaderNext ==
    \/ CloseChat \/ Miss
    \/ \E t \in Tasks : \/ OpenChat(t) \/ LoadOlder(t) \/ TimerFires(t) \/ Deliver(t)
                        \/ RequestFails(t) \/ Advance(t)

Next == PeerNext \/ ReaderNext

(* Requests are answered or fail and WebCrypto completes; the browser runs an elapsed timer     *)
(* although other functions are in progress again and again.                                    *)
Fairness == \A t \in Tasks : WF_vars(Advance(t)) /\ SF_vars(TimerFires(t))

Spec == Init /\ [][Next]_vars /\ Fairness
============================================================================
