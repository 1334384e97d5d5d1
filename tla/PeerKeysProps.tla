--------------------------- MODULE PeerKeysProps ---------------------------
(***************************************************************************)
(* What the marks beside a message and a contact are worth.                *)
(***************************************************************************)
EXTENDS PeerKeys

(* Every variable keeps its type. *)
TypeOK ==
    /\ status \in [Devices -> {"none", "active", "revoked"}]
    /\ next \in [Skids -> 0..MaxSeals] /\ faults \in 0..Faults
    /\ rows \in [Docs -> [status : {"none", "ok", "no_key", "failed", "plaintext"}, verified : BOOLEAN]]
    /\ shown.tab \in Tabs \cup {None}
    /\ \A s \in Skids : vouched[s] \in {None, Chain(s)}
    /\ \A m \in Docs : docs[m] # NoDoc => docs[m].sender \in Peers

Mark(m) == IF docs[m].format = "post" THEN m ELSE <<docs[m].body.skid, docs[m].body.idx>>

(* AuthenticRows: wherever records end up, whatever chat an edit was sealed for and however      *)
(* often a peer starts over with new keys, a row marked as verified, or shown as decrypted, is   *)
(* what the peer it names said in the chat it is shown in (openMessage, verifyChannelPost).  A    *)
(* record misplaced after it was read keeps the row of its old place.                             *)
AuthenticRows ==
    [][\A m \in Docs :
         rows'[m] # rows[m] /\ (rows'[m].verified \/ rows'[m].status = "ok")
            => <<docs[m].chat, docs[m].sender, Mark(m)>> \in said]_vars

(* ConfirmationsLast: the reader's last word on a peer, a number confirmed or taken back, is what *)
(* the tab it was given in, the storage it was saved to and every tab that read it from there go  *)
(* by, through resets of the peer and words on other peers, and such a tab tells another key as a *)
(* change, not as verified and not as never compared (trust-store.service.ts, "the single most    *)
(* important state on this screen").  The word is lost where the code loses it: setItem refused   *)
(* it and the tab is gone, storage could not be read, or a tab without it saved its whole map.    *)
ConfirmationsLast ==
    /\ \A u \in kept : stored[u] = compared[u]
    /\ \A u \in Peers : \A t \in aware[u] : records[t][u] = compared[u]
    /\ /\ shown.tab # None /\ shown.tab \in aware[shown.peer]
       /\ compared[shown.peer] \notin {None, shown.number}
       => StateFor(records[shown.tab][shown.peer], shown.number) = "changed"

(* VerifiedWasCompared: however storage fails and tabs overwrite each other, a number is told as  *)
(* verified only for a peer for whom the reader confirmed that very number: the trust store fails *)
(* "in the safe direction", to a fresh comparison and never to assumed trust.                      *)
VerifiedWasCompared ==
    /\ shown.tab # None
    /\ StateFor(records[shown.tab][shown.peer], shown.number) = "verified"
    => <<shown.peer, shown.number>> \in confirmed
============================================================================
