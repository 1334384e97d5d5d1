------------------------------ MODULE Session ------------------------------
(***************************************************************************)
(* One browser tab: whether it is signed in, whether its keys are open,    *)
(* which screen it shows, the refresh its requests share, and its socket.  *)
(* session.service.ts and the screens of features/auth,                    *)
(* refresh.interceptor.ts, session.guards.ts and websocket.service.ts,     *)
(* over the token checks of dependencies.py and the auth routes.  The      *)
(* tab is single threaded: an action is one event handler or what follows  *)
(* one answer.                                                             *)
(***************************************************************************)
EXTENDS Naturals, FiniteSets

CONSTANTS
    Sockets,    \* bound: WebSocket objects alive at once
    NoSocket

ASSUME SessionAssumption == NoSocket \notin Sockets

VARIABLES
    access, refresh,    \* the token cookies: "good", "stale" (expired or forced out) or "none"
    verified,           \* the account has confirmed its e-mail address
    user,               \* session.user is set
    unlocked,           \* keyStore.isUnlocked
    busy,               \* a message is being decrypted
    opened,             \* MessageService.opened retains plaintext
    route, nav,         \* the screen, and the navigation under way
    req,                \* requests in flight
    refreshing,         \* refreshInFlight is set
    live,               \* the state of each WebSocket object
    socket,             \* WebSocketService.socket
    timer, closedByUs,  \* reconnectTimer is set, closedByUs
    late,               \* history: a decryption was under way when the tab signed out
    overlap             \* history: a socket was made before the close of an earlier one was told

tokens == <<access, refresh>>
keys == <<unlocked, busy, opened, late>>
place == <<route, nav>>
http == <<req, refreshing>>
ws == <<live, socket, timer, closedByUs, overlap>>
account == <<verified, user>>
sessionVars == <<tokens, account, keys, place, http, ws>>

----------------------------------------------------------------------------
Token == {"good", "stale", "none"}
Guest == {"login", "verify", "reset"}   \* /login stands for /register and /forgot-password too
Screens == Guest \cup {"unlock", "chats"}
Requests == {"unlock", "load"}
Steps == {"none", "sent", "waiting", "replayed"}

SessionInit ==
    /\ access = "none" /\ refresh = "none"
    /\ verified = FALSE /\ user = FALSE /\ unlocked = FALSE /\ busy = FALSE /\ opened = FALSE
    /\ route = "login" /\ nav = "none"
    /\ req = [r \in Requests |-> "none"] /\ refreshing = FALSE
    /\ live = [s \in Sockets |-> "none"] /\ socket = NoSocket
    /\ timer = FALSE /\ closedByUs = FALSE
    /\ late = FALSE /\ overlap = FALSE

----------------------------------------------------------------------------
(* The socket.                                                             *)

(* Mutant: connect does not look at the current socket. *)
ConnectAnyway ==
    \E s \in Sockets :
        /\ live[s] = "none"
        /\ live' = [live EXCEPT ![s] = "connecting"]
        /\ socket' = s
        /\ closedByUs' = FALSE
        /\ overlap' = (overlap \/ \E o \in Sockets : live[o] = "closing")

(* connect: nothing if the current socket is connecting or open. *)
Connect ==
    IF socket # NoSocket /\ live[socket] \in {"connecting", "open"}
    THEN UNCHANGED <<live, socket, closedByUs, overlap>>
    ELSE \E s \in Sockets :
           /\ live[s] = "none"
           /\ live' = [live EXCEPT ![s] = "connecting"]
           /\ socket' = s
           /\ closedByUs' = FALSE
           /\ overlap' = (overlap \/ \E o \in Sockets : live[o] = "closing")

(* disconnect *)
Disconnect ==
    /\ closedByUs' = TRUE /\ timer' = FALSE
    /\ live' = [s \in Sockets |-> IF s = socket THEN "closing" ELSE live[s]]
    /\ socket' = NoSocket
    /\ UNCHANGED overlap

(* get_ws_current_user accepts a good token of a verified account; onopen. *)
SocketOpens(s) ==
    /\ live[s] = "connecting" /\ access = "good" /\ verified
    /\ live' = [live EXCEPT ![s] = "open"]
    /\ UNCHANGED <<tokens, account, keys, place, http, socket, timer, closedByUs, overlap>>

(* The handshake is refused, or the connection breaks (onerror closes the socket). *)
SocketBreaks(s) ==
    /\ live[s] \in {"connecting", "open"}
    /\ live' = [live EXCEPT ![s] = "closing"]
    /\ UNCHANGED <<tokens, account, keys, place, http, socket, timer, closedByUs, overlap>>

(* Mutant: onclose does not schedule. *)
SocketClosedQuietly(s) ==
    /\ live[s] = "closing"
    /\ live' = [live EXCEPT ![s] = "none"]
    /\ socket' = NoSocket
    /\ UNCHANGED <<tokens, account, keys, place, http, timer, closedByUs, overlap>>

(* onclose, of whichever socket, clears the current one and schedules a reconnection. *)
SocketClosed(s) ==
    /\ live[s] = "closing"
    /\ live' = [live EXCEPT ![s] = "none"]
    /\ socket' = NoSocket
    /\ timer' = (timer \/ ~closedByUs)
    /\ UNCHANGED <<tokens, account, keys, place, http, closedByUs, overlap>>

(* The backoff elapses. *)
Reconnect ==
    /\ timer
    /\ timer' = FALSE
    /\ Connect
    /\ UNCHANGED <<tokens, account, keys, place, http>>

----------------------------------------------------------------------------
(* Screens.                                                                *)

(* authGuard, unlockGuard and guestGuard, after their redirections. *)
Guarded(target) ==
    IF ~user THEN IF target \in Guest THEN target ELSE "login"
    ELSE IF ~unlocked THEN "unlock"
    ELSE "chats"

Arrive ==
    /\ nav # "none"
    /\ route' = Guarded(nav)
    /\ nav' = "none"
    /\ UNCHANGED <<tokens, account, keys, http, ws>>

(* A link; none leads to /verify or /reset-password. *)
Navigate(target) ==
    /\ nav = "none" /\ target \notin {route, "verify", "reset"}
    /\ nav' = target
    /\ UNCHANGED <<tokens, account, keys, route, http, ws>>

----------------------------------------------------------------------------
(* Signing in and out.                                                     *)

ForgetOpened == opened' = FALSE

On(s) == route = s /\ nav = "none"

(* Both set the cookies; only signing in tells the tab, whether the account is verified or not. *)
Register ==
    /\ On("login")
    /\ access' = "good" /\ refresh' = "good" /\ verified' = FALSE
    /\ nav' = "verify"
    /\ UNCHANGED <<user, keys, route, http, ws>>

Login ==
    /\ On("login") /\ ~user
    /\ access' = "good" /\ refresh' = "good" /\ verified' \in BOOLEAN
    /\ user' = TRUE
    /\ nav' = "unlock"
    /\ UNCHANGED <<keys, route, http, ws>>

(* The code of the mail is all it takes: no cookie is looked at. *)
VerifyEmail ==
    /\ On("verify") /\ ~verified
    /\ verified' = TRUE /\ user' = TRUE
    /\ nav' = "unlock"
    /\ UNCHANGED <<tokens, keys, route, http, ws>>

(* A new code; of interest when its token has run out.  The refresh that brings, shared with no   *)
(* other request, is taken in one step.                                                           *)
ResendVerificationEmail ==
    /\ On("verify") /\ access # "good" /\ ~refreshing
    /\ \/ refresh = "good" /\ access' = "good" /\ UNCHANGED nav
       \/ nav' = "login" /\ UNCHANGED access
    /\ UNCHANGED <<refresh, account, keys, route, http, ws>>

ForgotPassword ==
    /\ On("login")
    /\ nav' = "reset"
    /\ UNCHANGED <<tokens, account, keys, route, http, ws>>

(* The access token this forces out of the tab is AccessEnds. *)
ResetPassword ==
    /\ On("reset")
    /\ user' = FALSE /\ unlocked' = FALSE /\ ForgetOpened
    /\ Disconnect
    /\ nav' = "login"
    /\ UNCHANGED <<tokens, verified, busy, late, route, http>>

(* Mutant: the retained plaintext stays. *)
SignOutRemembering ==
    /\ On("chats")
    /\ \/ access' = "none" /\ refresh' = "none" /\ nav' = "login"
       \/ UNCHANGED <<tokens, nav>>
    /\ user' = FALSE /\ unlocked' = FALSE
    /\ late' = busy
    /\ Disconnect
    /\ UNCHANGED <<verified, busy, opened, route, http>>

(* signOut: all that is local goes, even if the server cannot be reached to drop the cookies; *)
(* the way to /login is then cut off by the error.                                             *)
SignOut ==
    /\ On("chats")
    /\ \/ access' = "none" /\ refresh' = "none" /\ nav' = "login"
       \/ UNCHANGED <<tokens, nav>>
    /\ user' = FALSE /\ unlocked' = FALSE /\ ForgetOpened
    /\ late' = busy
    /\ Disconnect
    /\ UNCHANGED <<verified, busy, route, http>>

(* A reload ends all that runs in the tab; restore asks who is signed in,   *)
(* refreshing if it must, and is told so of a verified account only.                             *)
Reload ==
    /\ access' \in {access} \cup IF refresh = "good" THEN {"good"} ELSE {}
    /\ user' \in BOOLEAN /\ (user' => verified /\ access' = "good")
    /\ unlocked' = FALSE /\ busy' = FALSE /\ opened' = FALSE /\ late' = FALSE
    /\ req' = [r \in Requests |-> "none"] /\ refreshing' = FALSE
    /\ live' = [s \in Sockets |-> "none"] /\ socket' = NoSocket
    /\ timer' = FALSE /\ closedByUs' = FALSE /\ overlap' = FALSE
    /\ nav' = route /\ UNCHANGED <<refresh, verified, route>>

(* Tokens run out; a password reset or change elsewhere forces out the access tokens issued     *)
(* before it, and leaves refresh tokens alone.                                                  *)
AccessEnds ==
    /\ access = "good" /\ access' = "stale"
    /\ UNCHANGED <<refresh, account, keys, place, http, ws>>

RefreshEnds ==
    /\ refresh = "good" /\ refresh' = "stale"
    /\ UNCHANGED <<access, account, keys, place, http, ws>>

----------------------------------------------------------------------------
(* Requests, through the interceptor.                                      *)

Dispatch(r) ==
    /\ req[r] = "none"
    /\ IF r = "unlock" THEN On("unlock") /\ user ELSE route = "chats"
    /\ req' = [req EXCEPT ![r] = "sent"]
    /\ UNCHANGED <<tokens, account, keys, place, refreshing, ws>>

(* What a good answer to a verified account does: an unlock opens the keys and connects, a page is *)
(* decrypted.                                                                                      *)
Succeed(r) ==
    IF r = "unlock"
    THEN /\ unlocked' = TRUE
         /\ Connect
         /\ nav' = "chats"
         /\ UNCHANGED <<busy, opened, late, route, timer>>
    ELSE /\ busy' = (busy \/ unlocked)
         /\ UNCHANGED <<unlocked, opened, late, place, ws>>

(* An answer other than 401: a success, or some other failure (a wrong password, no network). *)
Settled(r) ==
    /\ req[r] \in {"sent", "replayed"}
    /\ req' = [req EXCEPT ![r] = "none"]
    /\ \/ access = "good" /\ verified /\ Succeed(r)
       \/ UNCHANGED <<keys, place, ws>>
    /\ UNCHANGED <<tokens, account, refreshing>>

(* 401: the request waits for the refresh in flight, or starts one. *)
Unauthorized(r) ==
    /\ req[r] = "sent" /\ access # "good"
    /\ req' = [req EXCEPT ![r] = "waiting"]
    /\ refreshing' = TRUE
    /\ UNCHANGED <<tokens, account, keys, place, ws>>

(* Mutant: only one of the waiting requests is released. *)
RefreshedOne ==
    /\ refreshing /\ refresh = "good"
    /\ refreshing' = FALSE
    /\ access' = "good"
    /\ \E r \in Requests : req[r] = "waiting" /\ req' = [req EXCEPT ![r] = "replayed"]
    /\ UNCHANGED <<refresh, account, keys, place, ws>>

(* refresh answers: every waiting request is replayed, once. *)
Refreshed ==
    /\ refreshing /\ refresh = "good"
    /\ refreshing' = FALSE
    /\ access' = "good"
    /\ req' = [r \in Requests |-> IF req[r] = "waiting" THEN "replayed" ELSE req[r]]
    /\ UNCHANGED <<refresh, account, keys, place, ws>>

(* The refresh is refused or fails: the keys are locked, the requests fail. *)
RefreshFails ==
    /\ refreshing
    /\ refreshing' = FALSE
    /\ req' = [r \in Requests |-> IF req[r] = "waiting" THEN "none" ELSE req[r]]
    /\ unlocked' = FALSE
    /\ nav' = "login"
    /\ UNCHANGED <<tokens, account, busy, opened, late, route, ws>>

(* The plaintext of the message being decrypted is retained, whoever is signed in by now. *)
Decrypted ==
    /\ busy
    /\ busy' = FALSE /\ opened' = TRUE
    /\ UNCHANGED <<tokens, account, unlocked, late, place, http, ws>>

----------------------------------------------------------------------------
SessionNext ==
    \/ \E s \in Sockets : SocketOpens(s) \/ SocketBreaks(s) \/ SocketClosed(s)
    \/ Reconnect
    \/ Arrive \/ \E target \in Screens : Navigate(target)
    \/ Register \/ Login \/ VerifyEmail \/ ResendVerificationEmail
    \/ ForgotPassword \/ ResetPassword \/ SignOut
    \/ Reload \/ AccessEnds \/ RefreshEnds
    \/ \E r \in Requests : Dispatch(r) \/ Settled(r) \/ Unauthorized(r)
    \/ Refreshed \/ RefreshFails \/ Decrypted

(* Timers elapse, navigations end, close events are told, requests are answered, and a          *)
(* handshake that is tried again and again while the token is good succeeds.                    *)
Fairness ==
    /\ WF_sessionVars(Reconnect) /\ WF_sessionVars(Arrive)
    /\ \A s \in Sockets : WF_sessionVars(SocketClosed(s)) /\ SF_sessionVars(SocketOpens(s))
    /\ \A r \in Requests : WF_sessionVars(Settled(r) \/ Unauthorized(r))
    /\ WF_sessionVars(Refreshed \/ RefreshFails)

SessionSpec == SessionInit /\ [][SessionNext]_sessionVars /\ Fairness
============================================================================
