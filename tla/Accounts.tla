------------------------------ MODULE Accounts ------------------------------
(***************************************************************************)
(* One account: its password, its one-time codes, the identity keys its    *)
(* devices have published, and the browser tabs that sign in to it, open   *)
(* its keys, change its password and reset it.  The server cannot look     *)
(* into a private bundle, so the tabs decide under which password each one *)
(* is sealed: auth_routes.py and identity_service.py on one side,          *)
(* session.service.ts, key-store.service.ts and identity.ts on the other.  *)
(* A tab runs one operation at a time; an action is one request, or what   *)
(* one transaction does between two statements others can see.             *)
(***************************************************************************)
EXTENDS Naturals, FiniteSets

CONSTANTS
    Tabs,
    Devices,        \* client-generated device ids, one per browser
    Passwords,      \* what users type
    NoPassword,
    MaxPairs,       \* bound: identities generated
    MaxCodes        \* bound: one-time codes issued

ASSUME AccountsAssumption ==
    /\ NoPassword \notin Passwords
    /\ MaxPairs \in Nat /\ MaxCodes \in Nat

VARIABLES
    stage,      \* no user row, is_verified FALSE, is_verified TRUE
    password,   \* users.hashed_password
    codes,      \* the codes Redis holds, 0 for none
    minted,     \* the number of codes issued
    devices,    \* user_devices
    keys,       \* user_identity_keys
    pairs,      \* the number of key pairs generated
    browser,    \* ns.device_id in the localStorage of each tab
    tab,        \* SessionService, KeyStoreService and the operation in progress
    spent,      \* history: reset codes that have been deleted on use
    astray      \* history: pairs published behind the back of the password in force

server == <<stage, password, codes, minted, devices, keys>>
vars == <<server, pairs, browser, tab, spent, astray>>

----------------------------------------------------------------------------
Kinds == {"verify", "reset"}

(* WrappedBundle: the pair whose private halves it holds, and the password that opens it. *)
Bundle == [pair : 1..MaxPairs, sealed : Passwords]

KeyRow == [device : Devices, version : 1..MaxPairs, pair : 1..MaxPairs,
           active : BOOLEAN, bundle : Bundle]

Tab == [user : BOOLEAN,                         \* session.user is set
        key : 0..MaxPairs,                      \* the private half in the key store, 0 when locked
        pc : {"idle", "register", "list", "fetch", "publish", "insert", "answer",
              "relist", "change", "write", "rewrap", "otp", "burn", "reset", "revoke", "end"},
        typed : Passwords \cup {NoPassword},    \* the password of the form
        next : Passwords \cup {NoPassword},     \* its new password
        code : 0..MaxCodes,
        pair : 0..MaxPairs,                     \* the identity being published
        absent : BOOLEAN,                       \* publish_identity found no device row
        seen : SUBSET KeyRow,                   \* rows the operation has read
        rows : SUBSET (1..MaxPairs),            \* rows its transaction writes, by their pairs
        revoked : SUBSET Devices]               \* and its devices

Idle == [user |-> FALSE, key |-> 0, pc |-> "idle", typed |-> NoPassword, next |-> NoPassword,
         code |-> 0, pair |-> 0, absent |-> FALSE, seen |-> {}, rows |-> {}, revoked |-> {}]

Init ==
    /\ stage = "none" /\ password = NoPassword
    /\ codes = [k \in Kinds |-> 0] /\ minted = 0
    /\ devices = [d \in Devices |-> "absent"]
    /\ keys = {} /\ pairs = 0
    /\ browser \in [Tabs -> Devices]
    /\ tab = [t \in Tabs |-> Idle]
    /\ spent = {} /\ astray = {}

At(t, pc) == tab[t].pc = pc

Become(t, record) == tab' = [tab EXCEPT ![t] = record]

(* The operation of tab t ends, with session and key store as they are. *)
Over(t) == [Idle EXCEPT !.user = tab[t].user, !.key = tab[t].key]

Finish(t) == Become(t, Over(t))

(* get_own_identities *)
ActiveKeys == {k \in keys : k.active}

On(d, rows) == {k \in rows : k.device = d}

PairsOf(rows) == {k.pair : k \in rows}

(* A transaction that has updated the row of users keeps others off it until it ends: the flush *)
(* before its next statement has sent the new password ahead.                                   *)
UserRowFree(t) == \A u \in Tabs \ {t} : tab[u].pc \notin {"rewrap", "revoke", "end"}

----------------------------------------------------------------------------
(* Registration and one-time codes.                                        *)

(* generate_otp: a new code takes the place of the old one. *)
Mint(kind) ==
    /\ minted < MaxCodes
    /\ minted' = minted + 1
    /\ codes' = [codes EXCEPT ![kind] = minted + 1]

(* Redis drops a code after 15 minutes. *)
ExpireCode(kind) ==
    /\ codes[kind] # 0
    /\ codes' = [codes EXCEPT ![kind] = 0]
    /\ UNCHANGED <<stage, password, minted, devices, keys, pairs, browser, tab, spent, astray>>

(* register, up to its look for an existing user. *)
Register(t, p) ==
    /\ At(t, "idle") /\ ~tab[t].user /\ stage = "none"
    /\ Become(t, [Idle EXCEPT !.pc = "register", !.typed = p])
    /\ UNCHANGED <<server, pairs, browser, spent, astray>>

(* create_user: of two registrations that both found nobody the database lets one in. *)
CreateUser(t) ==
    /\ At(t, "register")
    /\ IF stage = "none"
       THEN /\ stage' = "unverified" /\ password' = tab[t].typed
            /\ Mint("verify")
       ELSE UNCHANGED <<stage, password, codes, minted>>
    /\ Finish(t)
    /\ UNCHANGED <<devices, keys, pairs, browser, spent, astray>>

(* The mailed code is entered: registration has set the cookies, so the tab is signed in. *)
VerifyEmail(t) ==
    /\ At(t, "idle") /\ ~tab[t].user
    /\ codes["verify"] # 0
    /\ stage' = "verified"
    /\ codes' = [codes EXCEPT !["verify"] = 0]
    /\ Become(t, [Idle EXCEPT !.user = TRUE])
    /\ UNCHANGED <<password, minted, devices, keys, pairs, browser, spent, astray>>

(* get_verification_email *)
ResendCode ==
    /\ stage = "unverified"
    /\ Mint("verify")
    /\ UNCHANGED <<stage, password, devices, keys, pairs, browser, tab, spent, astray>>

(* login lets in whoever knows the password, verified or not. *)
Login(t, p) ==
    /\ At(t, "idle") /\ ~tab[t].user /\ stage # "none"
    /\ p = password
    /\ Become(t, [Idle EXCEPT !.user = TRUE])
    /\ UNCHANGED <<server, pairs, browser, spent, astray>>

(* Signing out forgets the keys; a password change already sent goes on. *)
SignOut(t) ==
    /\ tab[t].key # 0
    /\ Become(t, [tab[t] EXCEPT !.user = FALSE, !.key = 0])
    /\ UNCHANGED <<server, pairs, browser, spent, astray>>

(* A reload forgets the keys; restore keeps the session while its cookie is good. *)
Reload(t) ==
    /\ At(t, "idle") /\ tab[t].user
    /\ \E user \in BOOLEAN : Become(t, [Idle EXCEPT !.user = user])
    /\ UNCHANGED <<server, pairs, browser, spent, astray>>

(* A request is refused or lost: the form shows an error, the server keeps what it has done. *)
Fails(t) ==
    /\ tab[t].pc # "idle"
    /\ Finish(t)
    /\ UNCHANGED <<server, pairs, browser, spent, astray>>

----------------------------------------------------------------------------
(* Opening the key store.                                                  *)

(* The unlock screen takes any password: nothing compares it with the one of the login. *)
Unlock(t, p) ==
    /\ At(t, "idle") /\ tab[t].user /\ tab[t].key = 0
    /\ Become(t, [Over(t) EXCEPT !.pc = "list", !.typed = p])
    /\ UNCHANGED <<server, pairs, browser, spent, astray>>

(* SessionService.unlock asks for the identities and generates one if there is none. *)
List(t) ==
    /\ At(t, "list") /\ stage = "verified"
    /\ IF ActiveKeys = {}
       THEN /\ pairs < MaxPairs
            /\ pairs' = pairs + 1
            /\ Become(t, [tab[t] EXCEPT !.pc = "publish", !.pair = pairs + 1])
       ELSE /\ Become(t, [tab[t] EXCEPT !.pc = "fetch"])
            /\ UNCHANGED pairs
    /\ UNCHANGED <<server, browser, spent, astray>>

(* unwrapPrivateBundle throws unless the password is the one the bundle was sealed under. *)
Opens(k, p) == k.bundle.sealed = p

(* KeyStoreService.unlock asks again, and opens the bundle of its own device or else of any. *)
Fetch(t) ==
    /\ At(t, "fetch")
    /\ LET own == On(browser[t], ActiveKeys)
           candidates == IF own # {} THEN own ELSE ActiveKeys IN
       \/ \E k \in candidates : /\ Opens(k, tab[t].typed)
                                /\ Become(t, [Over(t) EXCEPT !.key = k.bundle.pair])
       \/ /\ candidates = {} \/ \E k \in candidates : ~Opens(k, tab[t].typed)
          /\ Finish(t)
    /\ UNCHANGED <<server, pairs, browser, spent, astray>>

(* publish_identity reads the device and its active key. *)
PublishRead(t) ==
    /\ At(t, "publish")
    /\ Become(t, [tab[t] EXCEPT !.pc = "insert",
                                !.absent = devices[browser[t]] = "absent",
                                !.seen = On(browser[t], ActiveKeys)])
    /\ UNCHANGED <<server, pairs, browser, spent, astray>>

(* Mutant: sealed under the wrong field of the form. *)
NextKeyMissealed(t) ==
    [device |-> browser[t], pair |-> tab[t].pair, active |-> TRUE, version |-> 1,
     bundle |-> [pair |-> tab[t].pair, sealed |-> tab[t].next]]

(* The row that comes after those read. *)
NextKey(t) ==
    [device |-> browser[t], pair |-> tab[t].pair, active |-> TRUE,
     version |-> IF tab[t].seen = {} THEN 1 ELSE (CHOOSE k \in tab[t].seen : TRUE).version + 1,
     bundle |-> [pair |-> tab[t].pair, sealed |-> tab[t].typed]]

(* Mutant: superseded by user, not by device. *)
SupersededByUser(rows, seen) == {[k EXCEPT !.active = FALSE] : k \in rows}

(* The key read is deactivated, whatever has become of it since. *)
Superseded(rows, seen) ==
    {IF \E s \in seen : s.device = k.device /\ s.version = k.version
     THEN [k EXCEPT !.active = FALSE] ELSE k : k \in rows}

(* Mutant: nothing keeps two rows of one version apart. *)
ConflictUnnoticed(t) == FALSE

(* The unique keys of user_devices and user_identity_keys. *)
Conflict(t) ==
    \/ tab[t].absent /\ devices[browser[t]] # "absent"
    \/ \E k \in On(browser[t], keys) : k.version = NextKey(t).version
    \/ \E k \in On(browser[t], Superseded(keys, tab[t].seen)) : k.active

(* publish_identity writes and commits, or is refused. *)
PublishInsert(t) ==
    /\ At(t, "insert")
    /\ IF Conflict(t)
       THEN Finish(t) /\ UNCHANGED <<devices, keys, astray>>
       ELSE /\ devices' = [devices EXCEPT ![browser[t]] = IF tab[t].absent THEN "active" ELSE @]
            /\ keys' = Superseded(keys, tab[t].seen) \cup {NextKey(t)}
            /\ astray' = IF tab[t].typed = password THEN astray ELSE astray \cup {tab[t].pair}
            /\ Become(t, [tab[t] EXCEPT !.pc = "answer"])
    /\ UNCHANGED <<stage, password, codes, minted, pairs, browser, spent>>

(* createAndPublishIdentity keeps the identity it has published. *)
Published(t) ==
    /\ At(t, "answer")
    /\ Become(t, [Over(t) EXCEPT !.key = tab[t].pair])
    /\ UNCHANGED <<server, pairs, browser, spent, astray>>

----------------------------------------------------------------------------
(* Changing the password.                                                  *)

StartChange(t, old, new) ==
    /\ At(t, "idle") /\ tab[t].key # 0 /\ old # new
    /\ Become(t, [Over(t) EXCEPT !.pc = "relist", !.typed = old, !.next = new])
    /\ UNCHANGED <<server, pairs, browser, spent, astray>>

(* changePassword lists the identities and seals each again; one that does not open stops it. *)
Rewrap(t) ==
    /\ At(t, "relist")
    /\ IF \A k \in ActiveKeys : Opens(k, tab[t].typed)
       THEN Become(t, [tab[t] EXCEPT !.pc = "change", !.seen = ActiveKeys])
       ELSE Finish(t)
    /\ UNCHANGED <<server, pairs, browser, spent, astray>>

(* change_password verifies the old password. *)
VerifyOld(t) ==
    /\ At(t, "change")
    /\ IF tab[t].typed = password THEN Become(t, [tab[t] EXCEPT !.pc = "write"]) ELSE Finish(t)
    /\ UNCHANGED <<server, pairs, browser, spent, astray>>

(* The bundles of the request, by device. *)
Sent(t, d) == [(CHOOSE k \in On(d, tab[t].seen) : TRUE).bundle EXCEPT !.sealed = tab[t].next]

SentDevices(t) == {k.device : k \in tab[t].seen}

(* rewrap_private_bundles selects the keys the devices sent have by now; one without a key rolls *)
(* everything back.                                                                              *)
SelectBundles(t) ==
    /\ At(t, "write") /\ UserRowFree(t)
    /\ IF \A d \in SentDevices(t) : On(d, ActiveKeys) # {}
       THEN Become(t, [tab[t] EXCEPT !.pc = "rewrap",
                         !.rows = PairsOf({k \in ActiveKeys : k.device \in SentDevices(t)})])
       ELSE Finish(t)
    /\ UNCHANGED <<server, pairs, browser, spent, astray>>

(* Mutant: only the bundle of the tab's own device is replaced. *)
RewrappedOwn(t) ==
    {IF k.pair \in tab[t].rows /\ k.device = browser[t]
     THEN [k EXCEPT !.bundle = Sent(t, k.device)] ELSE k : k \in keys}

(* The bundles sent go to the rows selected, whatever has become of them since. *)
Rewrapped(t) ==
    {IF k.pair \in tab[t].rows THEN [k EXCEPT !.bundle = Sent(t, k.device)] ELSE k : k \in keys}

(* Password and bundles commit together. *)
ChangePassword(t) ==
    /\ At(t, "rewrap")
    /\ password' = tab[t].next
    /\ keys' = Rewrapped(t)
    /\ astray' = astray \cup (PairsOf(ActiveKeys) \ PairsOf(tab[t].seen))
    /\ Finish(t)
    /\ UNCHANGED <<stage, codes, minted, devices, pairs, browser, spent>>

----------------------------------------------------------------------------
(* Resetting a forgotten password.                                         *)

ForgotPassword ==
    /\ stage # "none"
    /\ Mint("reset")
    /\ UNCHANGED <<stage, password, devices, keys, pairs, browser, tab, spent, astray>>

StartReset(t, code, new) ==
    /\ At(t, "idle") /\ ~tab[t].user /\ stage # "none"
    /\ Become(t, [Idle EXCEPT !.pc = "otp", !.code = code, !.next = new])
    /\ UNCHANGED <<server, pairs, browser, spent, astray>>

(* check_otp reads and compares. *)
CheckCode(t) ==
    /\ At(t, "otp")
    /\ IF codes["reset"] = tab[t].code
       THEN Become(t, [tab[t] EXCEPT !.pc = "burn"]) ELSE Finish(t)
    /\ UNCHANGED <<server, pairs, browser, spent, astray>>

(* Mutant: the code stays. *)
BurnNothing(t) ==
    /\ At(t, "burn")
    /\ spent' = spent \cup {tab[t].code}
    /\ Become(t, [tab[t] EXCEPT !.pc = "reset"])
    /\ UNCHANGED <<server, pairs, browser, astray>>

(* check_otp deletes: the code it has read or one issued since. *)
BurnCode(t) ==
    /\ At(t, "burn")
    /\ codes' = [codes EXCEPT !["reset"] = 0]
    /\ spent' = spent \cup {tab[t].code}
    /\ Become(t, [tab[t] EXCEPT !.pc = "reset"])
    /\ UNCHANGED <<stage, password, minted, devices, keys, pairs, browser, astray>>

(* reset_password sets the password, and deactivate_user_devices updates the keys it finds *)
(* active by then: nobody can open their bundles any more.                                 *)
ResetKeys(t) ==
    /\ At(t, "reset") /\ UserRowFree(t)
    /\ Become(t, [tab[t] EXCEPT !.pc = "revoke", !.rows = PairsOf(ActiveKeys)])
    /\ UNCHANGED <<server, pairs, browser, spent, astray>>

(* Its next statement finds the devices that are active by then. *)
ResetDevices(t) ==
    /\ At(t, "revoke")
    /\ Become(t, [tab[t] EXCEPT !.pc = "end", !.revoked = {d \in Devices : devices[d] = "active"}])
    /\ UNCHANGED <<server, pairs, browser, spent, astray>>

(* Password, keys and devices commit together; what was published since the statements is not *)
(* among them.                                                                                *)
ResetPassword(t) ==
    /\ At(t, "end")
    /\ password' = tab[t].next
    /\ keys' = {IF k.pair \in tab[t].rows THEN [k EXCEPT !.active = FALSE] ELSE k : k \in keys}
    /\ devices' = [d \in Devices |-> IF d \in tab[t].revoked THEN "revoked" ELSE devices[d]]
    /\ astray' = astray \cup (PairsOf(ActiveKeys) \ tab[t].rows)
    /\ Become(t, Idle)
    /\ UNCHANGED <<stage, codes, minted, pairs, browser, spent>>

----------------------------------------------------------------------------
Next ==
    \/ \E k \in Kinds : ExpireCode(k)
    \/ ResendCode \/ ForgotPassword
    \/ \E t \in Tabs :
          \/ \E p \in Passwords : Register(t, p) \/ Login(t, p) \/ Unlock(t, p)
          \/ \E p, q \in Passwords : StartChange(t, p, q)
          \/ \E c \in 1..minted, p \in Passwords : StartReset(t, c, p)
          \/ CreateUser(t) \/ VerifyEmail(t) \/ SignOut(t) \/ Reload(t) \/ Fails(t)
          \/ List(t) \/ Fetch(t) \/ PublishRead(t) \/ PublishInsert(t) \/ Published(t)
          \/ Rewrap(t) \/ VerifyOld(t) \/ SelectBundles(t) \/ ChangePassword(t)
          \/ CheckCode(t) \/ BurnCode(t)
          \/ ResetKeys(t) \/ ResetDevices(t) \/ ResetPassword(t)

Spec == Init /\ [][Next]_vars
============================================================================
