--------------------------- MODULE AccountsProps ---------------------------
(***************************************************************************)
(* What an account promises its owner: that the password in force opens    *)
(* the keys.                                                               *)
(***************************************************************************)
EXTENDS Accounts

TypeOK ==
    /\ stage \in {"none", "unverified", "verified"}
    /\ password \in Passwords \cup {NoPassword}
    /\ codes \in [Kinds -> 0..MaxCodes]
    /\ minted \in 0..MaxCodes /\ pairs \in 0..MaxPairs
    /\ devices \in [Devices -> {"absent", "active", "revoked"}]
    /\ keys \subseteq KeyRow
    /\ browser \in [Tabs -> Devices]
    /\ tab \in [Tabs -> Tab]
    /\ spent \subseteq 1..MaxCodes /\ astray \subseteq 1..MaxPairs

(* IdentityHistory: however publications of one device overlap with each other and with a       *)
(* reset, its keys are numbered without gaps or repeats, and none but the newest is active      *)
(* (publish_identity: "rotation supersedes rather than overwrites").                            *)
IdentityHistory ==
    \A d \in Devices :
        /\ {k.version : k \in On(d, keys)} = 1..Cardinality(On(d, keys))
        /\ \A k \in On(d, ActiveKeys) : k.version = Cardinality(On(d, keys))

(* PasswordOpensTheKeys: the bundle of every active key holds the private half of that key and  *)
(* opens with the password in force, whatever changes, resets and publications overlap, fail or *)
(* lose their answers, the transaction of a change or a reset lying open between its            *)
(* statements.  Excepted are the pairs in `astray`: published under a password that was not the *)
(* account's when they were stored; while a change that had listed the identities before was    *)
(* under way; or after a reset had updated the keys and before it committed.                    *)
PasswordOpensTheKeys ==
    \A k \in ActiveKeys : k.pair \notin astray
                            => k.bundle = [pair |-> k.pair, sealed |-> password]

(* IdentitySurvivesAChange: while the account has an active key, only a reset or a newer key of  *)
(* the same device ends it; a change of the password never does ("nothing about the identity     *)
(* has changed", rewrap_private_bundles).                                                        *)
IdentitySurvivesAChange ==
    [][\A k \in ActiveKeys :
         \/ \E n \in keys' : n.active /\ n.device = k.device /\ n.version >= k.version
         \/ \E t \in Tabs : ResetPassword(t)]_vars

(* SpentCodesStaySpent: once a request has deleted its reset code, no other request gets past    *)
(* check_otp with that code, although reading, comparing and deleting are three steps; only      *)
(* requests that had read it before the deletion still go on.                                    *)
SpentCodesStaySpent ==
    [][\A t \in Tabs : At(t, "otp") /\ tab'[t].pc = "burn" => tab[t].code \notin spent]_vars
============================================================================
