------------------------- MODULE MessageStoreProps -------------------------
(***************************************************************************)
(* What the stores keep of a chat although nothing ties them together.     *)
(***************************************************************************)
EXTENDS MessageStore

TypeOK ==
    /\ lastRead \in [Users -> 0..MaxMessages]
    /\ minted \in 0..MaxMessages
    /\ DOMAIN messages \subseteq 1..minted /\ \A i \in DOMAIN messages : messages[i] \in Message
    /\ next \in [Users -> 1..(MaxSeals + 1)]
    /\ sealed \in [Ids -> SUBSET [env : Envelope, skid : Chains]]
    /\ blob \in [Files -> {"none", "new", "old", "gone"}]
    /\ work \in [Workers -> Work]
    /\ sweep \in [used : SUBSET Files, todo : SUBSET Files]
    /\ told \in [Ids -> 0..(MaxSeals + 1)]
    /\ contested \subseteq Ids /\ late \subseteq Ids /\ astray \subseteq Files /\ half \subseteq Users

(* AttachmentsKept: however messages naming the same object are sent and deleted, and whenever   *)
(* the collector runs, participants can download every attachment of every stored message        *)
(* (delete_message: "only reap a blob once no surviving message references it").  The exception   *)
(* (`astray`): an object named by a message stored when its deletion had been decided.           *)
AttachmentsKept ==
    \A i \in DOMAIN messages : \A f \in messages[i].files \ astray : Downloadable(f)

(* ToldCurrent: when nothing is in progress for a message, what the participants were last told  *)
(* of it is how it is stored, or that it is deleted, unless two requests for it overlapped or     *)
(* one was broken off (`contested`): events are published after the write and never repeated.    *)
ToldCurrent ==
    \A i \in (1..minted) \ contested :
        (\A w \in Workers : work[w].id = i => At(w, "edit") \/ At(w, "mark"))
          => told[i] = IF Exists(i) THEN messages[i].env ELSE Deleted

(* UnreadAgrees: the badge of a chat (last_read_message_id) and the ticks of its messages         *)
(* (is_read) are kept in two stores, in two steps; still, a message by somebody else that nobody  *)
(* has read counts as unread for everyone.   The exceptions: a message stored below a mark     *)
(* set before (`late`), a mark that is under way, or broken off (`half`).                         *)
UnreadAgrees ==
    \A u \in Users \ half :
        (\A w \in Workers : ~(At(w, "mark") /\ work[w].user = u))
          => {i \in DOMAIN messages : ~messages[i].read /\ messages[i].sender # u} \ late
               \subseteq Unread(u)

(* NewestEditStands: edits of a message may overtake each other on the way, be refused and be      *)
(* sent again; once none is under way, the message has the envelope that was sealed last for it.   *)
(* Excepted are messages with two requests in progress at once or one broken off (`contested`):    *)
(* reading the index and writing the envelope are two steps (update_message).  And messages with   *)
(* envelopes of two chains: "An index only means anything within one chain", so an edit from an    *)
(* earlier chain that arrives late replaces the newer one.                                         *)
NewestEditStands ==
    \A i \in DOMAIN messages \ contested :
        (\A w \in Workers : work[w].id = i => At(w, "mark"))
        /\ (\A e \in sealed[i] : e.skid = messages[i].skid)
          => \A e \in sealed[i] : e.env <= messages[i].env
============================================================================
