---------------------------- MODULE SessionProps ----------------------------
(***************************************************************************)
(* What a tab keeps up while tokens end, refreshes fail and sockets break. *)
(***************************************************************************)
EXTENDS Session

SocketType ==
    /\ live \in [Sockets -> {"none", "connecting", "open", "closing"}]
    /\ socket \in Sockets \cup {NoSocket}
    /\ timer \in BOOLEAN /\ closedByUs \in BOOLEAN /\ overlap \in BOOLEAN

TypeOK ==
    /\ access \in Token /\ refresh \in Token
    /\ verified \in BOOLEAN /\ user \in BOOLEAN
    /\ unlocked \in BOOLEAN /\ busy \in BOOLEAN /\ opened \in BOOLEAN /\ late \in BOOLEAN
    /\ route \in Screens /\ nav \in Screens \cup {"none"}
    /\ req \in [Requests -> Steps] /\ refreshing \in BOOLEAN
    /\ SocketType

(* OneSocket: unlocks, timers, breaks and sign-outs in any order leave at most one WebSocket     *)
(* connecting or open, the one the service sends on.  The one exception (`overlap`): a socket    *)
(* made while the close event of an earlier one is still to come is forgotten by that event,     *)
(* and reconnecting then adds a second (websocket.service.ts onclose).                           *)
OneSocket ==
    ~overlap => \A s \in Sockets : live[s] \in {"connecting", "open"} => s = socket

(* SignedOutTabForgets: a tab without a session holds no private key, and no opened plaintext    *)
(* but what a decryption under way at the sign-out has added since (logout: "Retained plaintext  *)
(* goes too"); no unlock, refresh or answer still in flight brings the keys back.                 *)
SignedOutTabForgets ==
    ~user => /\ ~unlocked
             /\ opened => late

(* Reconnects: as long as the tab has its keys open and a good token, however often its socket   *)
(* breaks, a socket is open again in the end (scheduleReconnect).                                *)
Reconnects ==
    user /\ unlocked /\ access = "good"
        ~> \/ \E s \in Sockets : live[s] = "open"
           \/ ~(user /\ unlocked /\ access = "good")

(* WaitersAreReleased: a request that waits for the shared refresh is replayed or fails, however *)
(* many wait and whenever they joined (refreshInFlight).                                         *)
WaitersAreReleased ==
    \A r \in Requests : req[r] = "waiting" ~> req[r] # "waiting"

(* What OneSocket rests on: until two connections overlap, at most one WebSocket object is not   *)
(* yet closed for good.                                                                          *)
OneAtATime ==
    /\ socket # NoSocket => live[socket] # "none"
    /\ ~overlap => \A s, o \in Sockets : live[s] # "none" /\ live[o] # "none" => s = o

(* What SignedOutTabForgets rests on: an unlock is asked for and in flight only on its screen and *)
(* before the keys are open, nobody is signed in on the screen of the reset, and a decryption     *)
(* that outlives the session is known to be late.                                                *)
UnlockDiscipline ==
    /\ req["unlock"] # "none" => user /\ ~unlocked /\ route = "unlock"
    /\ nav = "none" => (route = "unlock" => ~unlocked) /\ (route = "reset" => ~user)
    /\ ~user /\ busy => late

SessionInv == TypeOK /\ OneSocket /\ OneAtATime /\ SignedOutTabForgets /\ UnlockDiscipline
============================================================================
