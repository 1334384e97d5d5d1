---------------------------- MODULE Conversation ----------------------------
(***************************************************************************)
(* The writing side of one browser tab: composer, chat-view and            *)
(* chat-store.service.ts.  The user moves between chats, pages backwards,  *)
(* submits texts, retries, discards, edits and deletes, while answers of   *)
(* the server land in any order and the socket brings the messages of all  *)
(* chats.  A task is an async function at the await of its request: it     *)
(* remembers the chat and the opening of the screen it was started for,    *)
(* and the code never compares them again.  Whether a row can be read is   *)
(* MessageClient's subject; here a row is the message it shows.            *)
(***************************************************************************)
EXTENDS Integers, FiniteSets, Sequences, SequencesExt

CONSTANTS
    Chats,          \* the chats of the user
    NoChat,         \* no chat on screen
    PageSize,       \* PAGE_SIZE
    MaxMessages,    \* bound: messages in all chats
    MaxTexts,       \* bound: texts the user submits
    MaxTries,       \* bound: submissions, retries, edits and deletions
    MaxEvents,      \* bound: events on their way
    MaxOpens,       \* bound: times the conversation is reset
    MaxTasks        \* bound: requests in flight

ASSUME ConversationAssumption ==
    /\ NoChat \notin Chats
    /\ PageSize \in Nat \ {0}
    /\ {MaxMessages, MaxTexts, MaxTries, MaxEvents, MaxOpens, MaxTasks} \subseteq Nat

VARIABLES
    server,     \* the messages collection; an _id is a position
    gone,       \* the messages deleted from it
    events,     \* what the socket will deliver
    active,     \* activeChatId
    rows,       \* messages: what is on screen, by _id
    more,       \* hasMoreHistory
    loading,    \* messagesLoading
    pending,    \* pending: the bubbles not yet accepted
    editing,    \* editing of chat-view: the message in the composer, 0 for none
    tasks,      \* the requests in flight
    texts,      \* history: the chat each text was submitted in
    tries,      \* bound: submissions, retries, edits and deletions so far
    opens,      \* history: the number of resets of the conversation
    crossed,    \* history: since it was loaded, a request of another screen or an old event landed on it
    top,        \* history: the newest message of the page the screen was loaded with
    abandoned,     \* history: texts the user discarded or closed the conversation on
    unheard     \* history: texts whose answer was lost after they had been stored

screen == <<active, rows, more, loading, crossed, top>>
writing == <<pending, texts, tries, abandoned, unheard>>
vars == <<server, gone, events, screen, writing, editing, tasks, opens>>

----------------------------------------------------------------------------
Ids == 1..MaxMessages

InChat(c) == {i \in DOMAIN server \ gone : server[i].chat = c}

(* The greatest of a set of ids, 0 for the empty one. *)
Newest(S) == IF S = {} THEN 0 ELSE CHOOSE i \in S : \A j \in S : j <= i

Ascending(S) ==
    CHOOSE s \in [1..Cardinality(S) -> S] : \A i, j \in DOMAIN s : i < j => s[i] < s[j]

(* get_chat_messages: the latest PageSize before the cursor, in ascending order. *)
PageOf(c, before) ==
    Ascending({i \in InChat(c) :
        i < before /\ Cardinality({j \in InChat(c) : i < j /\ j < before}) < PageSize})

(* Array.filter: a list without the members of D. *)
Dropping(s, D) ==
    LET kept[k \in 0..Len(s)] ==
          IF k = 0 THEN <<>> ELSE IF s[k] \in D THEN kept[k - 1] ELSE Append(kept[k - 1], s[k])
    IN  kept[Len(s)]

Mine(i) == server[i].text # 0

(* What is listed: the messages, those of one's own as they were sent, then the bubbles in the same  *)
(* shape.  The two markers of the history that cannot be read are left out.                          *)
RecordOutgoing(i) == [kind |-> "message", id |-> i, status |-> "sent"]
PendingAsMessage(b) == [kind |-> "pending", id |-> b.text, status |-> b.status]

Items ==
    [i \in DOMAIN rows |-> RecordOutgoing(rows[i])]
    \o [i \in DOMAIN pending |-> PendingAsMessage(pending[i])]

(* What the list is tracked by, so that a bubble is never taken for another message's. *)
ItemKey(item) == <<item.kind, item.id>>

(* A request and the conversation it was made in. *)
Request(kind, chat, id) ==
    [kind |-> kind, chat |-> chat, id |-> id, text |-> 0, page |-> <<>>,
     answered |-> FALSE, opening |-> opens]

Ask(S, t) == Cardinality(S) < MaxTasks /\ tasks' = S \cup {t}

Init ==
    /\ server = <<>> /\ gone = {} /\ events = <<>>
    /\ active = NoChat /\ rows = <<>> /\ more = FALSE /\ loading = FALSE
    /\ pending = <<>> /\ editing = 0
    /\ tasks = {} /\ texts = <<>> /\ tries = 0 /\ opens = 0
    /\ crossed = FALSE /\ top = 0 /\ abandoned = {} /\ unheard = {}

Trying == tries < MaxTries /\ tries' = tries + 1

----------------------------------------------------------------------------
(* The server. *)

Published(kind, id) ==
    /\ Len(events) < MaxEvents
    /\ events' = Append(events, [kind |-> kind, id |-> id])

Store(c, n) ==
    /\ Len(server) < MaxMessages
    /\ server' = Append(server, [chat |-> c, text |-> n])
    /\ Published("new_message", Len(server) + 1)

PeerPosts(c) ==
    /\ Store(c, 0)
    /\ UNCHANGED <<gone, screen, writing, editing, tasks, opens>>

Answered(t, id) == tasks' = (tasks \ {t}) \cup {[t EXCEPT !.answered = TRUE, !.id = id]}

(* POST /messages. *)
Post(t) ==
    /\ t.kind = "send" /\ ~t.answered
    /\ Store(t.chat, t.text)
    /\ Answered(t, Len(server) + 1)
    /\ UNCHANGED <<gone, screen, writing, editing, opens>>

(* DELETE /messages/{id}, by this tab or by a peer. *)
Erase(i) ==
    /\ gone' = gone \cup {i}
    /\ Published("message_deleted", i)

PeerDeletes(i) ==
    /\ i \in DOMAIN server \ gone /\ ~Mine(i)
    /\ Trying /\ Erase(i)
    /\ UNCHANGED <<server, screen, editing, tasks, opens, pending, texts, abandoned, unheard>>

Delete(t) ==
    /\ t.kind = "delete" /\ ~t.answered /\ t.id \notin gone
    /\ Erase(t.id) /\ Answered(t, t.id)
    /\ UNCHANGED <<server, screen, writing, editing, opens>>

(* GET /messages: a page of the moment; the cursor of a first page is past every message. *)
Page(t) ==
    /\ t.kind \in {"open", "older"} /\ ~t.answered
    /\ tasks' = (tasks \ {t}) \cup {[t EXCEPT !.answered = TRUE, !.page = PageOf(t.chat, t.id)]}
    /\ UNCHANGED <<server, gone, events, screen, writing, editing, opens>>

----------------------------------------------------------------------------
(* Moving between chats. *)

(* Mutant of ResetConversation: the bubbles stay when the chat changes. *)
ResetRows ==
    /\ opens < MaxOpens /\ opens' = opens + 1
    /\ rows' = <<>> /\ pending' = pending /\ more' = FALSE
    /\ abandoned' = abandoned
    /\ crossed' = FALSE /\ top' = 0

ResetConversation ==
    /\ opens < MaxOpens /\ opens' = opens + 1
    /\ rows' = <<>> /\ pending' = <<>> /\ more' = FALSE
    /\ abandoned' = abandoned \cup {pending[i].text : i \in DOMAIN pending}
    /\ crossed' = FALSE /\ top' = 0

OpenChat(c) ==
    /\ ResetConversation
    /\ active' = c /\ loading' = TRUE
    /\ Ask(tasks, [Request("open", c, MaxMessages + 1) EXCEPT !.opening = opens + 1])
    /\ UNCHANGED <<server, gone, events, editing, texts, tries, unheard>>

(* The route's chat id changes; what the user was editing stays in the composer. *)
Switch(c) == c # active /\ OpenChat(c)

(* refreshKeys: the conversation on screen is opened again, from its first page. *)
RefreshKeys == active # NoChat /\ OpenChat(active)

(* onEpochStarted does it for the user. *)
Rekeyed == RefreshKeys

(* Back to the list: another route, so another chat-view. *)
Close ==
    /\ active # NoChat
    /\ ResetConversation
    /\ active' = NoChat /\ editing' = 0
    /\ UNCHANGED <<server, gone, events, loading, tasks, texts, tries, unheard>>

(* onScroll and loadOlder. *)
LoadOlder ==
    /\ active # NoChat /\ more /\ rows # <<>> /\ ~loading
    /\ loading' = TRUE
    /\ Ask(tasks, Request("older", active, rows[1]))
    /\ UNCHANGED <<server, gone, events, active, rows, more, crossed, top, writing, editing,
                   opens>>

----------------------------------------------------------------------------
(* What a request changes when it lands. *)

Late(t) == t.opening # opens

Landed(t) == tasks' = tasks \ {t}

(* The end of openChat. *)
OpenLands(t) ==
    /\ t.kind = "open" /\ t.answered
    /\ Landed(t)
    /\ rows' = t.page /\ loading' = FALSE
    /\ more' = (Len(t.page) = PageSize)
    /\ crossed' = Late(t)
    /\ top' = IF t.page = <<>> THEN 0 ELSE Last(t.page)
    /\ UNCHANGED <<server, gone, events, active, writing, editing, opens>>

OpenFails(t) ==
    /\ t.kind = "open" /\ ~t.answered
    /\ Landed(t)
    /\ rows' = <<>> /\ loading' = FALSE
    /\ top' = 0
    /\ UNCHANGED <<server, gone, events, active, more, crossed, writing, editing, opens>>

(* The rows a page is joined to are those it was asked for: its cursor is their first and oldest. *)
Joins(t) == ~Late(t) /\ rows # <<>> /\ t.id = rows[1] /\ \A i \in Range(rows) : t.id <= i

OlderLands(t) ==
    /\ t.kind = "older" /\ t.answered
    /\ Landed(t)
    /\ rows' = t.page \o rows /\ loading' = FALSE
    /\ more' = (Len(t.page) = PageSize)
    /\ crossed' = (crossed \/ ~Joins(t))
    /\ UNCHANGED <<server, gone, events, active, top, writing, editing, opens>>

OlderFails(t) ==
    /\ t.kind = "older" /\ ~t.answered
    /\ Landed(t) /\ loading' = FALSE
    /\ UNCHANGED <<server, gone, events, active, rows, more, crossed, top, writing, editing, opens>>

(* Mutant of Appended: no check for a message that is there already. *)
AppendedAgain(i) == Append(rows, i)

(* appendDecrypted: once per message, into whatever is on screen. *)
Appended(i) == IF i \in Range(rows) THEN rows ELSE Append(rows, i)

(* A row that does not belong: of another chat, or an event older than the page that came first. *)
Misplaced(t) == t.id \notin Range(rows) /\ (t.chat # active \/ t.id < top)

Show(t) ==
    /\ rows' = Appended(t.id)
    /\ crossed' = (crossed \/ Misplaced(t))
    /\ UNCHANGED <<active, more, loading, top>>

----------------------------------------------------------------------------
(* The composer. *)

(* openMessageMenu: what is offered for a row, of what changes it. *)
Menu(i) == IF i \in Range(rows) /\ Mine(i) THEN {"edit", "delete"} ELSE {}

StartEdit(i) ==
    /\ "edit" \in Menu(i)
    /\ editing' = i
    /\ UNCHANGED <<server, gone, events, screen, writing, tasks, opens>>

CancelCompose ==
    /\ editing # 0
    /\ editing' = 0
    /\ UNCHANGED <<server, gone, events, screen, writing, tasks, opens>>

Bubble(n, status) == [text |-> n, status |-> status]

(* ChatStoreService.send: a bubble, then the request. *)
Send(bubbles, n) ==
    /\ Trying
    /\ pending' = Append(bubbles, Bubble(n, "sending"))
    /\ Ask(tasks, [Request("send", active, 0) EXCEPT !.text = n])

Submit ==
    /\ active # NoChat /\ editing = 0
    /\ Len(texts) < MaxTexts /\ texts' = Append(texts, active)
    /\ Send(pending, Len(texts) + 1)
    /\ UNCHANGED <<server, gone, events, screen, editing, opens, abandoned, unheard>>

(* ChatViewComponent.send of an edit: sealed for the chat on screen, whichever the message is in. *)
SubmitEdit ==
    /\ active # NoChat /\ editing # 0
    /\ editing' = 0
    /\ Trying
    /\ Ask(tasks, Request("edit", active, editing))
    /\ UNCHANGED <<server, gone, events, screen, opens, pending, texts, abandoned, unheard>>

Without(n) == Dropping(pending, {Bubble(n, "sending"), Bubble(n, "failed")})

FailedBubble(n) == Bubble(n, "failed") \in Range(pending)

Retry(n) ==
    /\ FailedBubble(n)
    /\ Send(Without(n), n)
    /\ UNCHANGED <<server, gone, events, screen, editing, opens, texts, abandoned, unheard>>

Discard(n) ==
    /\ FailedBubble(n)
    /\ pending' = Without(n)
    /\ abandoned' = abandoned \cup {n}
    /\ UNCHANGED <<server, gone, events, screen, editing, tasks, opens, texts, tries, unheard>>

SendLands(t) ==
    /\ t.kind = "send" /\ t.answered
    /\ Landed(t)
    /\ pending' = Without(t.text)
    /\ Show(t)
    /\ UNCHANGED <<server, gone, events, editing, opens, texts, tries, abandoned, unheard>>

(* Mutant of Failed: the bubble goes, as if the text had been accepted. *)
FailedQuietly(n) == pending' = Without(n)

Failed(n) ==
    pending' = [i \in DOMAIN pending |->
        IF pending[i].text = n THEN Bubble(n, "failed") ELSE pending[i]]

(* The server refused, or its answer was lost on the way. *)
SendFails(t) ==
    /\ t.kind = "send"
    /\ Landed(t)
    /\ Failed(t.text)
    /\ unheard' = IF t.answered THEN unheard \cup {t.text} ELSE unheard
    /\ UNCHANGED <<server, gone, events, screen, editing, opens, texts, tries, abandoned>>

(* The row keeps its message, and shows the new text if the server took it.  What was typed is   *)
(* gone if it did not: realtimeError says so.                                                     *)
EditSettles(t) ==
    /\ t.kind = "edit"
    /\ Landed(t)
    /\ UNCHANGED <<server, gone, events, screen, writing, editing, opens>>

AskDelete(i) ==
    /\ "delete" \in Menu(i)
    /\ Trying
    /\ Ask(tasks, Request("delete", active, i))
    /\ UNCHANGED <<server, gone, events, screen, editing, opens, pending, texts, abandoned, unheard>>

DropRow(i) == rows' = Dropping(rows, {i})

DeleteLands(t) ==
    /\ t.kind = "delete" /\ t.answered
    /\ Landed(t)
    /\ DropRow(t.id)
    /\ UNCHANGED <<server, gone, events, active, more, loading, crossed, top, writing, editing, opens>>

(* Refused, or the answer was lost: the row stays until the event comes. *)
DeleteFails(t) ==
    /\ t.kind = "delete"
    /\ Landed(t)
    /\ UNCHANGED <<server, gone, events, screen, writing, editing, opens>>

----------------------------------------------------------------------------
(* The socket. *)

NextEvent(kind) == events # <<>> /\ events[1].kind = kind /\ events' = Tail(events)

(* onIncomingMessage: for the chat on screen, the message is opened first. *)
OnIncoming ==
    /\ NextEvent("new_message")
    /\ LET i == events[1].id
           c == server[i].chat
       IN IF c = active THEN Ask(tasks, Request("incoming", c, i)) ELSE UNCHANGED tasks
    /\ UNCHANGED <<server, gone, screen, writing, editing, opens>>

IncomingLands(t) ==
    /\ t.kind = "incoming"
    /\ Landed(t)
    /\ Show(t)
    /\ UNCHANGED <<server, gone, events, writing, editing, opens>>

OnDeleted ==
    /\ NextEvent("message_deleted")
    /\ DropRow(events[1].id)
    /\ UNCHANGED <<server, gone, active, more, loading, crossed, top, writing, editing, tasks,
                   opens>>

(* Nothing keeps the events of the time a socket is down. *)
EventsLost ==
    /\ events # <<>>
    /\ events' = <<>>
    /\ UNCHANGED <<server, gone, screen, writing, editing, tasks, opens>>

----------------------------------------------------------------------------
User ==
    \/ \E c \in Chats : Switch(c)
    \/ RefreshKeys
    \/ Close
    \/ LoadOlder
    \/ \E i \in DOMAIN server : StartEdit(i) \/ AskDelete(i)
    \/ CancelCompose
    \/ Submit
    \/ SubmitEdit
    \/ \E n \in DOMAIN texts : Retry(n) \/ Discard(n)

Lands(t) ==
    \/ OpenLands(t) \/ OpenFails(t)
    \/ OlderLands(t) \/ OlderFails(t)
    \/ SendLands(t) \/ SendFails(t)
    \/ EditSettles(t)
    \/ DeleteLands(t) \/ DeleteFails(t)
    \/ IncomingLands(t)

Server ==
    \/ \E c \in Chats : PeerPosts(c)
    \/ \E i \in DOMAIN server : PeerDeletes(i)
    \/ \E t \in tasks : Post(t) \/ Page(t) \/ Delete(t)

Socket == OnIncoming \/ OnDeleted \/ EventsLost \/ Rekeyed

Next == User \/ Server \/ Socket \/ \E t \in tasks : Lands(t)

Spec == Init /\ [][Next]_vars
=============================================================================
