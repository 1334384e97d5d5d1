------------------------- MODULE MessageClientProps -------------------------
(***************************************************************************)
(* What the reading side promises the reader.                              *)
(***************************************************************************)
EXTENDS MessageClient

(* TypeOK: every variable stays in its type. *)
TypeOK ==
    /\ sender \in [skid : 0..MaxChains, next : Nat]
    /\ grant \in [Skids -> Grants]
    /\ flying \subseteq [skid : Skids, idx : Nat]
    /\ stored \in Seq(Envelope)
    /\ events \in Seq(Event)
    /\ active \in BOOLEAN /\ loading \in BOOLEAN /\ refused \in BOOLEAN
    /\ chains \in [Skids -> ReceiverChain \cup {NoChain}]
    /\ opened \in [Ids -> [status : {"ok", "failed"}, env : Envelope] \cup {Unopened}]
    /\ raw \in [Ids -> Envelope \cup {NoEnvelope}]
    /\ view \in Seq(Row)
    /\ timer \in 0..Retries
    /\ task \in [Tasks -> Task]

BeingOpened(i) == \E t \in Tasks : task[t].pc = "opening" /\ Current(t).id = i

(* PlaintextKept: a message whose key is used up has its plaintext retained, or is being opened *)
(* right now, however loads, live events and retries interleave: nothing the tab has consumed   *)
(* is lost to the reader ("the plaintext has to be kept, because the ciphertext can never be    *)
(* opened a second time", message.service.ts 252).  Edited messages are excepted: the    *)
(* event of an edit may come after a page that has used its index.                              *)
PlaintextKept ==
    \A i \in DOMAIN stored :
        LET chain == chains[stored[i].skid] IN
        ~stored[i].edited /\ chain # NoChain /\ ~CanDerive(chain, stored[i].idx)
            => opened[i].status = "ok" \/ BeingOpened(i)

(* FailuresAreExplained: a message newly counts as failed, which the interface presents as      *)
(* possible tampering, only when another function is opening that very message, the peer edited *)
(* it, or its index is beyond the skip limit: never because pages, events and retries reach a   *)
(* chain in an unexpected order.                                                                *)
FailuresAreExplained ==
    [][\A i \in Ids :
         opened'[i].status = "failed" /\ opened[i].status # "failed"
           => \/ BeingOpened(i)
              \/ stored[i].edited
              \/ stored[i].idx - chains[stored[i].skid].index > MaxSkip]_vars

(* NoKeyResolves: a row whose chain has a grant that opens does not wait for it for ever: unless  *)
(* a request of a retry fails, the row is tried with the pulled grants, whatever cancels and      *)
(* restarts the timer, and although the retries have given up on it while it was sealed under a   *)
(* chain whose grant is missing, stale or forged ("Make `no_key` actually resolve on its own, as the UI says it       *)
(* does", scheduleGrantRetry).  Excepted is a row for which rawMessages has another envelope: the *)
(* event of a message comes after a page that had its edit, and the edit's own event is lost.     *)
Waiting(i) ==
    active /\ \E k \in DOMAIN view : /\ view[k].id = i /\ view[k].status = "no_key"
                                    /\ view[k].env = raw[i] /\ grant[raw[i].skid] = "good"

NoKeyResolves == \A i \in Ids : Waiting(i) ~> (~Waiting(i) \/ refused)

============================================================================
