------------------------------ MODULE Ratchet ------------------------------
(***************************************************************************)
(* The sender-key ratchet (core/crypto/ratchet.ts and its twin             *)
(* crypto/reference/ratchet.py): one message key per index, derived from a *)
(* chain key that only moves forward.  A chain key is represented by its   *)
(* index, which is all that a one-way derivation lets its holder know:     *)
(* from CK_i come the message keys i, i + 1, ... and none before.          *)
(***************************************************************************)
EXTENDS Naturals

CONSTANT MaxSkip    \* MAX_SKIP: how far one call may walk ahead

ASSUME RatchetAssumption == MaxSkip \in Nat

(* A ReceiverChain: its index (the chain key it holds) and the keys it keeps for later. *)
ReceiverChain == [index : Nat, skipped : SUBSET Nat]

FreshChain == [index |-> 0, skipped |-> {}]

(* What the holder of the chain can still derive, at whatever cost. *)
CanDerive(chain, i) == i \in chain.skipped \/ i >= chain.index

(* messageKeyFor(i) answers, rather than throwing "already consumed" or "refusing to skip". *)
Answers(chain, i) == CanDerive(chain, i) /\ (i \in chain.skipped \/ i - chain.index <= MaxSkip)

(* Mutant: the keys stepped over are not retained. *)
AfterKeyForgetful(chain, i) ==
    IF i \in chain.skipped THEN [chain EXCEPT !.skipped = @ \ {i}]
    ELSE [chain EXCEPT !.index = i + 1]

(* The chain after messageKeyFor(i): a retained key is handed out and dropped; otherwise the    *)
(* chain walks to i and past it, retaining the keys it steps over.                              *)
AfterKey(chain, i) ==
    IF i \in chain.skipped THEN [chain EXCEPT !.skipped = @ \ {i}]
    ELSE [index |-> i + 1, skipped |-> chain.skipped \cup (chain.index .. (i - 1))]
============================================================================
