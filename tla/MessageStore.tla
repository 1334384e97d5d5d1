---------------------------- MODULE MessageStore ----------------------------
(***************************************************************************)
(* The stored messages of one chat: messages_service.py and its routes     *)
(* over MongoDB, the attachments they name in MinIO with the nightly       *)
(* collector of orphans, and the two records of what has been read         *)
(* (is_read of a message, last_read_message_id of a member).  Neither      *)
(* MongoDB nor MinIO is in a transaction with anything: an action is what  *)
(* a handler does between two calls of a store.                            *)
(***************************************************************************)
EXTENDS Naturals, FiniteSets

CONSTANTS
    Users, Nobody,  \* the participants: who they are is a matter of ChatEpochs and ChatRoles
    Senders,        \* bound: the participants who write; the others read
    Files,          \* object keys of the message bucket
    Workers,        \* bound: requests in progress at once
    MaxMessages,    \* bound: message ids
    MaxSeals,       \* bound: envelopes a sender seals
    MaxChains       \* bound: chains a sender seals them under, one per device, epoch and reload

ASSUME StoreAssumption ==
    /\ Nobody \notin Users /\ Senders \subseteq Users
    /\ MaxMessages \in Nat /\ MaxSeals \in Nat /\ MaxChains \in Nat

VARIABLES
    lastRead,   \* last_read_message_id of each user, 0 for none
    messages,   \* the messages collection, by _id
    minted,     \* the ids given out
    next,       \* the number of the envelope each sender will seal next
    sealed,     \* history: the envelopes sealed for each message
    blob,       \* the message bucket: an object is new for 24 hours, then old
    work,       \* the requests in progress
    sweep,      \* cleanup_minio_orphans: the keys found in use, the keys still to list
    told,       \* the last event of each message, published to all participants
    contested,  \* history: messages with two requests in progress at once, or one broken off
    astray,     \* history: objects named by a message when their deletion was decided
    late,       \* history: messages stored below a mark already set
    half        \* history: users whose mark was broken off half way

reads == <<lastRead, late, half>>
files == <<blob, sweep>>
sealing == <<next, sealed>>
vars == <<reads, messages, minted, sealing, files, work, told, contested, astray>>

----------------------------------------------------------------------------
Ids == 1..MaxMessages

(* A sender's envelopes are known by the order of their sealing, which is that of the indices *)
(* within one chain.                                                                          *)
Envelope == 1..MaxSeals
Chains == 1..MaxChains

(* What an event can say besides: nothing yet, or that the message is deleted. *)
Unheard == 0
Deleted == MaxSeals + 1

Message == [sender : Users, env : Envelope, skid : Chains, files : SUBSET Files, read : BOOLEAN]

Idle == [pc |-> "idle", user |-> Nobody, id |-> 0, env |-> Unheard, skid |-> 0, files |-> {}]

Work == [pc : {"idle", "insert", "edit", "write", "reread", "remove", "look", "reap",
               "tell", "mark"},
         user : Users \cup {Nobody},
         id : 0..MaxMessages,
         env : 0..(MaxSeals + 1),                \* to store, or to tell
         skid : 0..MaxChains,                    \* its chain
         files : SUBSET Files]                   \* to store, or to look after

Init ==
    /\ lastRead = [u \in Users |-> 0]
    /\ messages = <<>> /\ minted = 0
    /\ next = [u \in Users |-> 1] /\ sealed = [i \in Ids |-> {}]
    /\ blob = [f \in Files |-> "none"]
    /\ work = [w \in Workers |-> Idle]
    /\ sweep = [used |-> {}, todo |-> {}]
    /\ told = [i \in Ids |-> Unheard]
    /\ contested = {} /\ astray = {} /\ late = {} /\ half = {}

At(w, pc) == work[w].pc = pc

Become(w, record) == work' = [work EXCEPT ![w] = record]

Exists(i) == i \in DOMAIN messages

InUse(f) == \E i \in DOMAIN messages : f \in messages[i].files

(* A handler takes up message i: history notes whether another has not done with it. *)
TakeUp(w, i) ==
    contested' = IF \E v \in Workers \ {w} : work[v].id = i /\ work[v].pc \notin {"edit", "mark"}
                 THEN contested \cup {i} ELSE contested

----------------------------------------------------------------------------
(* Clients.                                                                *)

(* nextMessageKey: indices are used once, whatever becomes of the request.  The chain is that of *)
(* the device, for the epoch, since the page was loaded.                                         *)
Seal(u, c, i) ==
    /\ next[u] <= MaxSeals
    /\ next' = [next EXCEPT ![u] = @ + 1]
    /\ sealed' = [sealed EXCEPT ![i] = @ \cup {[env |-> next[u], skid |-> c]}]

----------------------------------------------------------------------------
(* send_message and create_message.                                        *)

(* Membership is checked; insert_one makes the _id before MongoDB has the message. *)
Send(w, u, c, attached) ==
    /\ At(w, "idle")
    /\ \A f \in attached : blob[f] # "none"
    /\ minted < MaxMessages
    /\ minted' = minted + 1
    /\ Seal(u, c, minted + 1)
    /\ Become(w, [Idle EXCEPT !.pc = "insert", !.user = u, !.id = minted + 1,
                              !.env = next[u], !.skid = c, !.files = attached])
    /\ UNCHANGED <<reads, messages, files, told, contested, astray>>

(* The deletion of f is decided, by a handler that has looked or by a sweep. *)
Doomed(f) ==
    \/ blob[f] = "gone"
    \/ blob[f] = "old" /\ f \in sweep.todo \ sweep.used
    \/ \E w \in Workers : At(w, "reap") /\ f \in work[w].files

Insert(w) ==
    /\ At(w, "insert")
    /\ LET r == work[w] IN
         /\ messages' = [i \in DOMAIN messages \cup {r.id} |->
                           IF i = r.id THEN [sender |-> r.user, env |-> r.env, skid |-> r.skid,
                                             files |-> r.files, read |-> FALSE]
                           ELSE messages[i]]
         /\ astray' = astray \cup {f \in r.files : Doomed(f)}
         /\ late' = IF \E u \in Users : lastRead[u] >= r.id THEN late \cup {r.id} ELSE late
         /\ Become(w, [r EXCEPT !.pc = "tell", !.skid = 0, !.files = {}])
    /\ UNCHANGED <<lastRead, half, minted, sealing, files, told, contested>>

(* The routes publish the event. *)
Tell(w) ==
    /\ At(w, "tell")
    /\ told' = [told EXCEPT ![work[w].id] = work[w].env]
    /\ Become(w, Idle)
    /\ UNCHANGED <<reads, messages, minted, sealing, files, contested, astray>>

----------------------------------------------------------------------------
(* update_message and edit_message.                                        *)

SendEdit(w, u, c, i) ==
    /\ At(w, "idle")
    /\ Exists(i) /\ messages[i].sender = u
    /\ Seal(u, c, i)
    /\ Become(w, [Idle EXCEPT !.pc = "edit", !.user = u, !.id = i, !.env = next[u], !.skid = c])
    /\ UNCHANGED <<reads, messages, minted, files, told, contested, astray>>

(* Mutant: the index is not compared. *)
MayEditAnyhow(r) == Exists(r.id)

(* Found, and at a later index if the chain is the same: the indices of two chains do not compare. *)
MayEdit(r) ==
    /\ Exists(r.id)
    /\ r.skid = messages[r.id].skid => r.env > messages[r.id].env

EditFind(w) ==
    /\ At(w, "edit")
    /\ IF MayEdit(work[w])
       THEN Become(w, [work[w] EXCEPT !.pc = "write"]) /\ TakeUp(w, work[w].id)
       ELSE Become(w, Idle) /\ UNCHANGED contested
    /\ UNCHANGED <<reads, messages, minted, sealing, files, told, astray>>

(* update_one: nothing if the message is gone by now. *)
EditWrite(w) ==
    /\ At(w, "write")
    /\ messages' = [i \in DOMAIN messages |->
                      IF i = work[w].id THEN [messages[i] EXCEPT !.env = work[w].env, !.skid = work[w].skid]
                      ELSE messages[i]]
    /\ Become(w, [work[w] EXCEPT !.pc = "reread", !.skid = 0])
    /\ UNCHANGED <<reads, minted, sealing, files, told, contested, astray>>

(* What is told is the message as it is now; there may be none, and the request fails. *)
EditReread(w) ==
    /\ At(w, "reread")
    /\ Become(w, IF Exists(work[w].id)
                 THEN [work[w] EXCEPT !.pc = "tell", !.env = messages[work[w].id].env]
                 ELSE Idle)
    /\ UNCHANGED <<reads, messages, minted, sealing, files, told, contested, astray>>

----------------------------------------------------------------------------
(* delete_message: the message, then the objects nothing names any more.   *)

DeleteFind(w, i) ==
    /\ At(w, "idle") /\ Exists(i)
    /\ Become(w, [Idle EXCEPT !.pc = "remove", !.id = i, !.env = Deleted,
                              !.files = messages[i].files])
    /\ TakeUp(w, i)
    /\ UNCHANGED <<reads, messages, minted, sealing, files, told, astray>>

DeleteOne(w) ==
    /\ At(w, "remove")
    /\ messages' = [i \in DOMAIN messages \ {work[w].id} |-> messages[i]]
    /\ Become(w, [work[w] EXCEPT !.pc = IF work[w].files = {} THEN "tell" ELSE "look"])
    /\ UNCHANGED <<reads, minted, sealing, files, told, contested, astray>>

(* Mutant: no look at the other messages. *)
LookAway(w) ==
    /\ At(w, "look")
    /\ Become(w, [work[w] EXCEPT !.pc = "reap"])
    /\ UNCHANGED <<reads, messages, minted, sealing, files, told, contested, astray>>

(* Is the attachment still referenced? *)
Look(w) ==
    /\ At(w, "look")
    /\ Become(w, IF \E f \in work[w].files : InUse(f)
                 THEN [work[w] EXCEPT !.pc = "tell", !.files = {}]
                 ELSE [work[w] EXCEPT !.pc = "reap"])
    /\ UNCHANGED <<reads, messages, minted, sealing, files, told, contested, astray>>

(* Mutant: an error of delete_file ends the request. *)
ReapOrFail(w) ==
    /\ At(w, "reap")
    /\ \/ /\ blob' = [f \in Files |-> IF f \in work[w].files THEN "gone" ELSE blob[f]]
          /\ Become(w, [work[w] EXCEPT !.pc = "tell", !.files = {}])
       \/ UNCHANGED blob /\ Become(w, Idle)
    /\ UNCHANGED <<reads, messages, minted, sealing, sweep, told, contested, astray>>

(* delete_file, whose errors are swallowed. *)
Reap(w) ==
    /\ At(w, "reap")
    /\ \/ blob' = [f \in Files |-> IF f \in work[w].files THEN "gone" ELSE blob[f]]
       \/ UNCHANGED blob
    /\ Become(w, [work[w] EXCEPT !.pc = "tell", !.files = {}])
    /\ UNCHANGED <<reads, messages, minted, sealing, sweep, told, contested, astray>>

----------------------------------------------------------------------------
(* The message bucket.                                                     *)

Upload(f) ==
    /\ blob[f] = "none"
    /\ blob' = [blob EXCEPT ![f] = "new"]
    /\ UNCHANGED <<reads, messages, minted, sealing, sweep, work, told, contested, astray>>

(* 24 hours pass; history notes an object that gets old under a sweep that knows nothing of it. *)
GetsOld(f) ==
    /\ blob[f] = "new"
    /\ blob' = [blob EXCEPT ![f] = "old"]
    /\ astray' = IF f \in sweep.todo \ sweep.used THEN astray \cup {f} ELSE astray
    /\ UNCHANGED <<reads, messages, minted, sealing, sweep, work, told, contested>>

(* cleanup_minio_orphans reads all messages. *)
SweepStart ==
    /\ sweep.todo = {}
    /\ sweep' = [used |-> {f \in Files : InUse(f)}, todo |-> Files]
    /\ UNCHANGED <<reads, messages, minted, sealing, blob, work, told, contested, astray>>

(* Then it lists the objects, and deletes the old ones it has found nowhere. *)
SweepLook(f) ==
    /\ f \in sweep.todo
    /\ blob' = IF blob[f] = "old" /\ f \notin sweep.used THEN [blob EXCEPT ![f] = "gone"] ELSE blob
    /\ sweep' = [sweep EXCEPT !.todo = @ \ {f}]
    /\ UNCHANGED <<reads, messages, minted, sealing, work, told, contested, astray>>

(* download_attachment serves what some message of the chat names, if it is stored. *)
Downloadable(f) == InUse(f) /\ blob[f] \in {"new", "old"}

----------------------------------------------------------------------------
(* A message_read event on the socket.                                     *)

(* markRead of the client: the newest message it shows, which it has been told of or has loaded. *)
Reports(i) == told[i] \notin {Unheard, Deleted}

(* update_participant_last_read, to any message the user has heard of, forwards or back. *)
MarkLastRead(w, u, i) ==
    /\ At(w, "idle") /\ Reports(i)
    /\ lastRead' = [lastRead EXCEPT ![u] = i]
    /\ Become(w, [Idle EXCEPT !.pc = "mark", !.user = u, !.id = i])
    /\ UNCHANGED <<late, half, messages, minted, sealing, files, told, contested, astray>>

(* Mutant: an off-by-one, $lt for $lte. *)
MarkBelow(w) ==
    /\ At(w, "mark")
    /\ messages' = [i \in DOMAIN messages |->
                      IF i < work[w].id /\ messages[i].sender # work[w].user
                      THEN [messages[i] EXCEPT !.read = TRUE] ELSE messages[i]]
    /\ Become(w, Idle)
    /\ UNCHANGED <<reads, minted, sealing, files, told, contested, astray>>

(* mark_messages_as_read *)
MarkRead(w) ==
    /\ At(w, "mark")
    /\ messages' = [i \in DOMAIN messages |->
                      IF i <= work[w].id /\ messages[i].sender # work[w].user
                      THEN [messages[i] EXCEPT !.read = TRUE] ELSE messages[i]]
    /\ Become(w, Idle)
    /\ UNCHANGED <<reads, minted, sealing, files, told, contested, astray>>

(* unread_count of enrich_chats_with_mongo_data, as the set it counts. *)
Unread(u) == {i \in DOMAIN messages : messages[i].sender # u /\ i > lastRead[u]}

----------------------------------------------------------------------------
(* The process dies, or a store does not answer: the rest of the handler does not happen. *)
Fails(w) ==
    /\ ~At(w, "idle")
    /\ Become(w, Idle)
    /\ contested' = IF At(w, "mark") THEN contested ELSE contested \cup {work[w].id}
    /\ half' = IF At(w, "mark") THEN half \cup {work[w].user} ELSE half
    /\ UNCHANGED <<lastRead, late, messages, minted, sealing, files, told, astray>>

Next ==
    \/ \E f \in Files : Upload(f) \/ GetsOld(f) \/ SweepLook(f)
    \/ SweepStart
    \/ \E w \in Workers :
          \/ \E u \in Senders, c \in Chains, attached \in {{}} \cup {{f} : f \in Files} :
                Send(w, u, c, attached)
          \/ \E u \in Senders, c \in Chains, i \in Ids : SendEdit(w, u, c, i)
          \/ \E u \in Users \ Senders, i \in Ids : MarkLastRead(w, u, i)
          \/ \E i \in Ids : DeleteFind(w, i)
          \/ Insert(w) \/ Tell(w) \/ EditFind(w) \/ EditWrite(w) \/ EditReread(w)
          \/ DeleteOne(w) \/ Look(w) \/ Reap(w) \/ MarkRead(w) \/ Fails(w)

Spec == Init /\ [][Next]_vars
============================================================================
