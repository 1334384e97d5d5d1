------------------------ MODULE ConversationProps ------------------------
(***************************************************************************)
(* What the writing side of a tab promises, whatever lands in whatever     *)
(* order.                                                                  *)
(***************************************************************************)
EXTENDS Conversation

(* The pages of a conversation join: no two items of the list have one key (itemKey), whatever a retry   *)
(* or an answer puts there, every row belongs to the chat on screen, and from the oldest row up to the   *)
(* newest message of the page it was opened with no message is missing, although own messages come both  *)
(* as an answer and as an event (appendDecrypted) and pages are asked for by cursor.  Excepted is a      *)
(* screen on which a request of another screen has landed, as no async function of the store compares    *)
(* the chat again after its await; and one on which an event of its own chat has landed that is older    *)
(* than the page it was opened with (`crossed`), as appendDecrypted puts every row last.                 *)
PagesJoin ==
    crossed \/
    /\ \A i, j \in DOMAIN Items : ItemKey(Items[i]) = ItemKey(Items[j]) => i = j
    /\ \A i \in Range(rows) : server[i].chat = active
    /\ rows # <<>> => \A i \in InChat(active) : rows[1] <= i /\ i <= top => i \in Range(rows)

Posted(n) == {i \in DOMAIN server : server[i].text = n}

(* A text the user submitted is stored once, and lost by nothing but the user: until it is stored its    *)
(* bubble is there, unless the user discarded it or the conversation was reset (send, retry,             *)
(* discardPending, resetConversation).  It is stored twice only if the answer to a post was lost, which  *)
(* the tab takes for a failure: no order of failures, retries and answers posts it again by itself.      *)
EachTextOnce ==
    \A n \in DOMAIN texts :
        /\ Posted(n) # {} \/ n \in abandoned \/ \E b \in Range(pending) : b.text = n
        /\ Cardinality(Posted(n)) <= 1 \/ n \in unheard

(* A text goes to the chat it was submitted in, although the answer lands and the retry is clicked when  *)
(* other chats have been on screen: send reads activeChatId before its await, and retry, which reads it  *)
(* again, finds no bubble of another chat since resetConversation drops them.                            *)
TextsGoHome == \A n \in DOMAIN texts : \A i \in Posted(n) : server[i].chat = texts[n]
=============================================================================
