------------------------------ MODULE Accounts ------------------------------
(***************************************************************************)
(* Accounts: registration with an emailed code, registration at once,      *)
(* OAuth, login, refresh, recovery, passwords, user names, devices, and    *)
(* what administrators do to users (cmd/auth-service/main.go, account.go   *)
(* and admin.go), over the table users in Neon and keys in Valkey.         *)
(*                                                                         *)
(* Nothing spans the two stores and no handler here uses a transaction     *)
(* that commits: one statement or one Valkey command is one step.  What a  *)
(* handler does when a statement fails is a step of its own where it goes  *)
(* on; where it gives up, that is a request that stops before the step.    *)
(* Reads succeed, except that an EXISTS that fails counts as free: then    *)
(* the UNIQUE columns decide, as they do for two requests at once.         *)
(* A request that is refused at once changes nothing and is left out.      *)
(* Session keys, recovery links, linked devices and passwords are named    *)
(* after the request that brings them.                                     *)
(***************************************************************************)
EXTENDS Naturals, FiniteSets

CONSTANTS
    Ids,          \* users.id; an element is used once
    Addresses,    \* email addresses
    Names,        \* user names
    Requests,     \* HTTP requests; an element is used once
    MaxDevices,   \* 5 in handleLinkDevice
    MaxRenames,   \* 2 in handleUpdateProfile
    MaxAttempts,  \* 5 in handleRecover
    Earlier,      \* the request that brought what is there at the start
    Nothing       \* no id, address, name, password or copy

ASSUME AccountsAssumption ==
    /\ MaxDevices \in Nat /\ MaxRenames \in Nat /\ MaxAttempts \in Nat
    /\ IsFiniteSet(Requests)
    /\ Earlier \notin Requests
    /\ Nothing \notin Ids \cup Addresses \cup Names \cup Requests \cup {Earlier}
    /\ Nothing \notin [name : Names, by : Requests \cup {Earlier}]
    /\ Nothing \notin Nat

VARIABLES
    rows,         \* users: the ids that have a row
    email, name,  \* their columns; Nothing without a row and after deletion
    password,     \* users.password_hash: whose password; Nothing for OAuth accounts
    deleted,      \* rows with deleted_at
    disabled,     \* rows with is_active = false
    equipped,     \* which of user_settings and recovery_codes a row has
    renames,      \* users.username_changes
    resting,      \* rows with username_changed_at less than 14 days ago
    pending,      \* otp_register:<address>: the registration that waits for its code
    cooling,      \* otp_cooldown:<address>
    session,      \* session:<token> -> user
    link,         \* session:recover:<token> -> user
    devices,      \* user_devices with is_active
    attempts, ttl,\* recover:attempts:ip:<address of the caller>, and whether it expires
    pc, op,       \* the statement a request executes next, and for which handler
    about,        \* the user it is about
    addr, wish,   \* the email address and the name in it
    copy,         \* what it has read or been told
    clashed,      \* (auxiliary) <<kind, x>>: two requests of that kind about x overlapped
    failed,       \* (auxiliary) what the failed statements were about
    spent,        \* (auxiliary) recovery links a password was set with
    madeWith,     \* (auxiliary) id -> the request whose emailed code made the account
    flipped,      \* (auxiliary) ids toggled an odd number of times
    renamed,      \* (auxiliary) id -> how often its name has changed
    withheld      \* (auxiliary) rows deleted by an administrator, or renamed after deletion

users   == <<rows, email, name, password, deleted, disabled, equipped, renames, resting>>
keys    == <<pending, cooling, session, link>>
limiter == <<attempts, ttl>>
request == <<op, about, addr, wish, copy, clashed>>
ghosts  == <<spent, madeWith, flipped, renamed, withheld>>
vars    == <<rows, email, name, password, deleted, disabled, equipped, renames, resting,
             pending, cooling, session, link, devices, attempts, ttl,
             pc, op, about, addr, wish, copy,
             clashed, failed, spent, madeWith, flipped, renamed, withheld>>

Bringers == Requests \cup {Earlier}
Offers   == [name : Names, by : Bringers]
Running  == {q \in Requests : pc[q] \notin {"idle", "done"}}

Handlers == {"none", "init", "verify", "register", "oauth", "login", "refresh", "code",
             "mail", "complete", "change", "reset", "toggle", "link", "rename"}
Labels   == {"idle", "email", "name", "cooldown", "pend", "cool", "recheck", "insert",
             "find", "suggest", "settings", "codes", "clear", "uncool", "session", "drop",
             "expire", "store", "write", "unlink", "enable", "disable", "device", "free",
             "rename", "done"}

\* Nobody, or one account somebody registered earlier; a registration may wait for its code.
Init ==
    /\ \E S \in {{}} \cup {{u} : u \in Ids}, a \in Addresses, n \in Names :
          /\ rows = S
          /\ email = [v \in Ids |-> IF v \in S THEN a ELSE Nothing]
          /\ name = [v \in Ids |-> IF v \in S THEN n ELSE Nothing]
          /\ password = [v \in Ids |-> IF v \in S THEN Earlier ELSE Nothing]
          /\ equipped = [v \in Ids |-> IF v \in S THEN {"settings", "codes"} ELSE {}]
    /\ pending \in [Addresses -> {Nothing} \cup [name : Names, by : {Earlier}]]
    /\ \A a, b \in Addresses : pending[a] # Nothing /\ pending[b] # Nothing => a = b
    /\ deleted = {} /\ disabled = {}
    /\ renames = [u \in Ids |-> 0] /\ resting = {}
    /\ cooling = {}
    /\ session = [q \in Requests |-> Nothing]
    /\ link = [q \in Requests |-> Nothing]
    /\ devices = [u \in Ids |-> {}]
    /\ attempts = 0 /\ ttl = FALSE
    /\ pc = [q \in Requests |-> "idle"]
    /\ op = [q \in Requests |-> "none"]
    /\ about = [q \in Requests |-> Nothing]
    /\ addr = [q \in Requests |-> Nothing]
    /\ wish = [q \in Requests |-> Nothing]
    /\ copy = [q \in Requests |-> Nothing]
    /\ clashed = {} /\ failed = {} /\ spent = {}
    /\ madeWith = [u \in Ids |-> Nothing]
    /\ flipped = {}
    /\ renamed = [u \in Ids |-> 0]
    /\ withheld = {}

-----------------------------------------------------------------------------
(* Requests.                                                               *)

\* What a request needs to itself for its check to be true when it writes.
Needs(handler, u, c) ==
    CASE handler = "complete"             -> {<<"link", c>>}
      [] handler = "toggle"               -> {<<"active", u>>}
      [] handler = "verify"               -> {<<"code", c.by>>, <<"insert", Nothing>>}
      [] handler \in {"register", "oauth"} -> {<<"insert", Nothing>>}
      [] handler = "link"                 -> {<<"devices", u>>}
      [] handler = "rename"               -> {<<"name", u>>, <<"insert", Nothing>>}
      [] OTHER                            -> {}

Needed == UNION {Needs(op[p], about[p], copy[p]) : p \in Running}

Starts(q, handler, label, u, a, n, c) ==
    /\ pc[q] = "idle"
    /\ pc' = [pc EXCEPT ![q] = label]
    /\ op' = [op EXCEPT ![q] = handler]
    /\ about' = [about EXCEPT ![q] = u]
    /\ addr' = [addr EXCEPT ![q] = a]
    /\ wish' = [wish EXCEPT ![q] = n]
    /\ copy' = [copy EXCEPT ![q] = c]
    /\ clashed' = clashed \cup (Needs(handler, u, c) \cap Needed)

Goto(q, label) ==
    /\ pc' = [pc EXCEPT ![q] = label]
    /\ UNCHANGED request

\* Fault: the request is over and still counts as one about its user.
EndsHalf(q) ==
    /\ pc' = [pc EXCEPT ![q] = "done"]
    /\ UNCHANGED request

Ends(q) ==
    /\ pc' = [pc EXCEPT ![q] = "done"]
    /\ op' = [op EXCEPT ![q] = "none"]
    /\ about' = [about EXCEPT ![q] = Nothing]
    /\ addr' = [addr EXCEPT ![q] = Nothing]
    /\ wish' = [wish EXCEPT ![q] = Nothing]
    /\ copy' = [copy EXCEPT ![q] = Nothing]
    /\ UNCHANGED clashed

\* A handler of one statement.
AtOnce(q) ==
    /\ pc[q] = "idle"
    /\ pc' = [pc EXCEPT ![q] = "done"]
    /\ UNCHANGED <<op, about, addr, wish, copy>>

Works    == UNCHANGED failed
Fails(x) == failed' = failed \cup {x}

\* The EXISTS checks look at rows that are not deleted, the UNIQUE columns at all.
EmailTaken(a) == \E u \in rows \ deleted : email[u] = a
NameTaken(n)  == \E u \in rows \ deleted : name[u] = n
Held(a, n)    == \E u \in rows : email[u] = a \/ name[u] = n

-----------------------------------------------------------------------------
(* handleRegisterInit and handleRegister: the same two checks; then the    *)
(* first stores the registration with a code, the second inserts the row.  *)

StartRegisterInit(q, a, n) ==
    /\ Starts(q, "init", "email", Nothing, a, n, Nothing)
    /\ UNCHANGED <<users, keys, devices, limiter, failed, ghosts>>

StartRegister(q, a, n) ==
    /\ Starts(q, "register", "email", Nothing, a, n, Nothing)
    /\ UNCHANGED <<users, keys, devices, limiter, failed, ghosts>>

CheckEmail(q) ==
    /\ pc[q] = "email"
    /\ IF EmailTaken(addr[q]) THEN Ends(q) ELSE Goto(q, "name")
    /\ UNCHANGED <<users, keys, devices, limiter, failed, ghosts>>

CheckName(q) ==
    /\ pc[q] = "name"
    /\ IF NameTaken(wish[q]) THEN Ends(q)
       ELSE Goto(q, IF op[q] = "init" THEN "cooldown" ELSE "insert")
    /\ UNCHANGED <<users, keys, devices, limiter, failed, ghosts>>

CheckCooldown(q) ==
    /\ pc[q] = "cooldown"
    /\ IF addr[q] \in cooling THEN Ends(q) ELSE Goto(q, "pend")
    /\ UNCHANGED <<users, keys, devices, limiter, failed, ghosts>>

\* The code is mailed whatever becomes of the cooldown.
StorePending(q) ==
    /\ pc[q] = "pend"
    /\ pending' = [pending EXCEPT ![addr[q]] = [name |-> wish[q], by |-> q]]
    /\ Goto(q, "cool")
    /\ UNCHANGED <<users, cooling, session, link, devices, limiter, failed, ghosts>>

StartCooldown(q) ==
    /\ pc[q] = "cool"
    /\ cooling' = cooling \cup {addr[q]} \/ UNCHANGED cooling
    /\ Ends(q)
    /\ UNCHANGED <<users, pending, session, link, devices, limiter, failed, ghosts>>

-----------------------------------------------------------------------------
(* handleRegisterVerify, and the rest of the registrations.                *)

\* GET otp_register:<address>; the caller's code is the one that is stored.
StartVerify(q, a) ==
    /\ pending[a] # Nothing
    /\ Starts(q, "verify", "recheck", Nothing, a, pending[a].name, pending[a])
    /\ UNCHANGED <<users, keys, devices, limiter, failed, ghosts>>

Recheck(q) ==
    /\ pc[q] = "recheck"
    /\ IF EmailTaken(addr[q])
       THEN pending' = [pending EXCEPT ![addr[q]] = Nothing] /\ Ends(q)
       ELSE UNCHANGED pending /\ Goto(q, "insert")
    /\ UNCHANGED <<users, cooling, session, link, devices, limiter, failed, ghosts>>

\* INSERT INTO users.  A registration by code brings the password of the request that
\* asked for the code, an OAuth account has none.
Insert(q) ==
    /\ pc[q] = "insert"
    /\ IF Held(addr[q], wish[q])
       THEN /\ Ends(q)
            /\ UNCHANGED <<rows, email, name, password, madeWith>>
       ELSE /\ \E u \in Ids \ rows :
                  /\ rows' = rows \cup {u}
                  /\ email' = [email EXCEPT ![u] = addr[q]]
                  /\ name' = [name EXCEPT ![u] = wish[q]]
                  /\ password' = [password EXCEPT ![u] =
                        CASE op[q] = "verify" -> copy[q].by
                          [] op[q] = "register" -> q
                          [] op[q] = "oauth" -> Nothing]
                  /\ about' = [about EXCEPT ![q] = u]
                  /\ madeWith' = IF op[q] = "verify"
                                 THEN [madeWith EXCEPT ![u] = copy[q].by] ELSE madeWith
            /\ pc' = [pc EXCEPT ![q] = "settings"]
            /\ UNCHANGED <<op, addr, wish, copy, clashed>>
    /\ UNCHANGED <<deleted, disabled, equipped, renames, resting, keys, devices, limiter,
                   failed, spent, flipped, renamed, withheld>>

Equip(q, thing) ==
    \/ /\ equipped' = [equipped EXCEPT ![about[q]] = @ \cup {thing}]
       /\ Works
    \/ Fails(about[q]) /\ UNCHANGED equipped

InsertSettings(q) ==
    /\ pc[q] = "settings"
    /\ Equip(q, "settings")
    /\ Goto(q, IF op[q] = "oauth" THEN "session" ELSE "codes")
    /\ UNCHANGED <<rows, email, name, password, deleted, disabled, renames, resting, keys,
                   devices, limiter, ghosts>>

\* Ten inserts; one that fails leaves the account with fewer codes.
InsertCodes(q) ==
    /\ pc[q] = "codes"
    /\ Equip(q, "codes")
    /\ Goto(q, IF op[q] = "verify" THEN "clear" ELSE "session")
    /\ UNCHANGED <<rows, email, name, password, deleted, disabled, renames, resting, keys,
                   devices, limiter, ghosts>>

\* Fault: the code stays good for ten minutes.
KeepPending(q) ==
    /\ pc[q] = "clear"
    /\ Goto(q, "uncool")
    /\ UNCHANGED <<users, keys, devices, limiter, failed, ghosts>>

ClearPending(q) ==
    /\ pc[q] = "clear"
    /\ \/ pending' = [pending EXCEPT ![addr[q]] = Nothing] /\ Works
       \/ Fails(copy[q].by) /\ UNCHANGED pending
    /\ Goto(q, "uncool")
    /\ UNCHANGED <<users, cooling, session, link, devices, limiter, ghosts>>

ClearCooldown(q) ==
    /\ pc[q] = "uncool"
    /\ cooling' = cooling \ {addr[q]} \/ UNCHANGED cooling
    /\ Goto(q, "session")
    /\ UNCHANGED <<users, pending, session, link, devices, limiter, failed, ghosts>>

\* The last step of every way in; the answer carries the token even if the key was not set.
StoreSession(q) ==
    /\ pc[q] = "session"
    /\ session' = [session EXCEPT ![q] = about[q]] \/ UNCHANGED session
    /\ Ends(q)
    /\ UNCHANGED <<users, pending, cooling, link, devices, limiter, failed, ghosts>>

-----------------------------------------------------------------------------
(* handleGoogleOAuth, handleGitHubOAuth, handleAppleOAuth.                 *)

StartOAuth(q, a, n) ==
    /\ Starts(q, "oauth", "find", Nothing, a, n, Nothing)
    /\ UNCHANGED <<users, keys, devices, limiter, failed, ghosts>>

\* The account of the address, disabled or not.
FindAccount(q) ==
    /\ pc[q] = "find"
    /\ IF EmailTaken(addr[q])
       THEN /\ \E u \in rows \ deleted :
                  email[u] = addr[q] /\ about' = [about EXCEPT ![q] = u]
            /\ pc' = [pc EXCEPT ![q] = "session"]
            /\ UNCHANGED <<op, addr, wish, copy, clashed>>
       ELSE Goto(q, "suggest")
    /\ UNCHANGED <<users, keys, devices, limiter, failed, ghosts>>

\* generateUsername: a name that is taken gets a suffix of the time, and no second look.
SuggestName(q) ==
    /\ pc[q] = "suggest"
    /\ IF NameTaken(wish[q])
       THEN \E n \in Names \ {wish[q]} : wish' = [wish EXCEPT ![q] = n]
       ELSE UNCHANGED wish
    /\ pc' = [pc EXCEPT ![q] = "insert"]
    /\ UNCHANGED <<op, about, addr, copy, clashed,
                   users, keys, devices, limiter, failed, ghosts>>

\* The three providers differ in how they learn the address and the name.
OAuth(q) == FindAccount(q) \/ SuggestName(q)

-----------------------------------------------------------------------------
(* handleLogin, handleRefresh.                                             *)

MayLogin(u) == u \in rows \ deleted /\ u \notin disabled /\ password[u] # Nothing

StartLogin(q, u) ==
    /\ MayLogin(u)
    /\ Starts(q, "login", "session", u, Nothing, Nothing, Nothing)
    /\ UNCHANGED <<users, keys, devices, limiter, failed, ghosts>>

StartRefresh(q, token) ==
    /\ session[token] # Nothing
    /\ Starts(q, "refresh", "drop", session[token], Nothing, Nothing, token)
    /\ UNCHANGED <<users, keys, devices, limiter, failed, ghosts>>

\* The session is deleted, and then its value, the user's id followed by ":", is parsed
\* as an id: uuid.Parse refuses it and the handler returns.
RefreshDrops(q) ==
    /\ pc[q] = "drop"
    /\ session' = [session EXCEPT ![copy[q]] = Nothing] \/ UNCHANGED session
    /\ Ends(q)
    /\ UNCHANGED <<users, pending, cooling, link, devices, limiter, failed, ghosts>>

-----------------------------------------------------------------------------
(* handleRecover.  The codes are stored as hashes with their dash and      *)
(* looked up without it: after the count no row is ever found.             *)

\* Fault: an expiry is set once the second attempt is counted.
FirstAttemptMissed == attempts = 1

FirstAttempt == attempts = 0

\* INCR; attempts are told apart up to one above the limit.
StartRecover(q) ==
    /\ attempts' = IF attempts > MaxAttempts THEN attempts ELSE attempts + 1
    /\ IF FirstAttempt
       THEN Starts(q, "code", "expire", Nothing, Nothing, Nothing, Nothing)
       ELSE AtOnce(q) /\ UNCHANGED clashed
    /\ UNCHANGED <<users, keys, devices, ttl, failed, ghosts>>

ExpireAttempts(q) ==
    /\ pc[q] = "expire"
    /\ \/ ttl' = (attempts > 0) /\ Works
       \/ Fails("attempts") /\ UNCHANGED ttl
    /\ Ends(q)
    /\ UNCHANGED <<users, keys, devices, attempts, ghosts>>

-----------------------------------------------------------------------------
(* handleRecoverEmail, handleRecoverEmailComplete.                         *)

\* The address of a deleted row finds it too.
StartRecoverEmail(q, u) ==
    /\ u \in rows /\ email[u] # Nothing
    /\ Starts(q, "mail", "store", u, Nothing, Nothing, Nothing)
    /\ UNCHANGED <<users, keys, devices, limiter, failed, ghosts>>

StoreLink(q) ==
    /\ pc[q] = "store"
    /\ link' = [link EXCEPT ![q] = about[q]]
    /\ Ends(q)
    /\ UNCHANGED <<users, pending, cooling, session, devices, limiter, failed, ghosts>>

StartComplete(q, token) ==
    /\ link[token] # Nothing
    /\ Starts(q, "complete", "write", link[token], Nothing, Nothing, token)
    /\ UNCHANGED <<users, keys, devices, limiter, failed, ghosts>>

\* UPDATE users SET password_hash, of handleRecoverEmailComplete, handleChangePassword and
\* handleAdminResetPassword.
WritePassword(q) ==
    /\ pc[q] = "write"
    /\ password' = [password EXCEPT ![about[q]] = q]
    /\ IF op[q] = "complete"
       THEN Goto(q, "unlink") /\ spent' = spent \cup {copy[q]}
       ELSE Ends(q) /\ UNCHANGED spent
    /\ UNCHANGED <<rows, email, name, deleted, disabled, equipped, renames, resting, keys,
                   devices, limiter, failed, madeWith, flipped, renamed, withheld>>

\* Fault: the link stays good for fifteen minutes.
KeepLink(q) ==
    /\ pc[q] = "unlink"
    /\ Ends(q)
    /\ UNCHANGED <<users, keys, devices, limiter, failed, ghosts>>

DeleteLink(q) ==
    /\ pc[q] = "unlink"
    /\ \/ link' = [link EXCEPT ![copy[q]] = Nothing] /\ Works
       \/ Fails(copy[q]) /\ UNCHANGED link
    /\ Ends(q)
    /\ UNCHANGED <<users, pending, cooling, session, devices, limiter, ghosts>>

-----------------------------------------------------------------------------
(* handleChangePassword, handleAdminResetPassword.  An access token is     *)
(* good for an hour whatever becomes of its user.                          *)

Knows(u, old) == u \in rows /\ old = password[u] /\ old # Nothing

StartChange(q, u, old) ==
    /\ Knows(u, old)
    /\ Starts(q, "change", "write", u, Nothing, Nothing, old)
    /\ UNCHANGED <<users, keys, devices, limiter, failed, ghosts>>

StartReset(q, u) ==
    /\ u \in rows \ deleted
    /\ Starts(q, "reset", "write", u, Nothing, Nothing, Nothing)
    /\ UNCHANGED <<users, keys, devices, limiter, failed, ghosts>>

-----------------------------------------------------------------------------
(* handleUpdateProfile with a new user name.                               *)

StartRename(q, u, n) ==
    /\ u \in rows
    /\ n # name[u]
    /\ u \notin resting
    /\ renames[u] < MaxRenames
    /\ Starts(q, "rename", "free", u, Nothing, n, renames[u])
    /\ UNCHANGED <<users, keys, devices, limiter, failed, ghosts>>

\* This check looks at all other rows.
CheckNameFree(q) ==
    /\ pc[q] = "free"
    /\ IF \E u \in rows \ {about[q]} : name[u] = wish[q] THEN Ends(q) ELSE Goto(q, "rename")
    /\ UNCHANGED <<users, keys, devices, limiter, failed, ghosts>>

\* UPDATE users SET username, username_changes = the count read + 1, username_changed_at
Rename(q) ==
    /\ pc[q] = "rename"
    /\ IF \E u \in rows \ {about[q]} : name[u] = wish[q]
       THEN UNCHANGED <<name, renames, resting, renamed, withheld>>
       ELSE /\ name' = [name EXCEPT ![about[q]] = wish[q]]
            /\ renames' = [renames EXCEPT ![about[q]] = copy[q] + 1]
            /\ resting' = resting \cup {about[q]}
            /\ renamed' = [renamed EXCEPT ![about[q]] = @ + 1]
            /\ withheld' = withheld \cup ({about[q]} \cap deleted)
    /\ Ends(q)
    /\ UNCHANGED <<rows, email, password, deleted, disabled, equipped, keys, devices, limiter,
                   failed, spent, madeWith, flipped>>

-----------------------------------------------------------------------------
(* handleLinkDevice, handleRevokeDevice.                                   *)

\* Fault: the limit itself still lets one in.
MayLinkOneMore(u) == Cardinality(devices[u]) <= MaxDevices

MayLink(u) == Cardinality(devices[u]) < MaxDevices

StartLink(q, u) ==
    /\ u \in rows
    /\ MayLink(u)
    /\ Starts(q, "link", "device", u, Nothing, Nothing, Nothing)
    /\ UNCHANGED <<users, keys, devices, limiter, failed, ghosts>>

LinkDevice(q) ==
    /\ pc[q] = "device"
    /\ devices' = [devices EXCEPT ![about[q]] = @ \cup {q}]
    /\ Ends(q)
    /\ UNCHANGED <<users, keys, limiter, failed, ghosts>>

RevokeDevice(q, u, d) ==
    /\ AtOnce(q)
    /\ d \in devices[u]
    /\ devices' = [devices EXCEPT ![u] = @ \ {d}]
    /\ UNCHANGED <<users, keys, limiter, clashed, failed, ghosts>>

-----------------------------------------------------------------------------
(* handleAdminDisableUser, handleDeleteAccount, handleAdminBatchDelete-    *)
(* Users.  handleAdminDeleteUser always fails: one of its statements names *)
(* a column and another a table that do not exist, which aborts it.        *)

StartToggle(q, u) ==
    /\ u \in rows \ deleted
    /\ Starts(q, "toggle", IF u \in disabled THEN "enable" ELSE "disable", u,
              Nothing, Nothing, Nothing)
    /\ UNCHANGED <<users, keys, devices, limiter, failed, ghosts>>

\* Fault: what was read is written.
ToggleBack(q) ==
    /\ pc[q] \in {"enable", "disable"}
    /\ disabled' = IF pc[q] = "enable" THEN disabled \cup {about[q]} ELSE disabled \ {about[q]}
    /\ flipped' = (flipped \cup {about[q]}) \ (flipped \cap {about[q]})
    /\ Ends(q)
    /\ UNCHANGED <<rows, email, name, password, deleted, equipped, renames, resting, keys,
                   devices, limiter, failed, spent, madeWith, renamed, withheld>>

\* The opposite of what was read, also to a row deleted since.
Toggle(q) ==
    /\ pc[q] \in {"enable", "disable"}
    /\ disabled' = IF pc[q] = "enable" THEN disabled \ {about[q]} ELSE disabled \cup {about[q]}
    /\ flipped' = (flipped \cup {about[q]}) \ (flipped \cap {about[q]})
    /\ Ends(q)
    /\ UNCHANGED <<rows, email, name, password, deleted, equipped, renames, resting, keys,
                   devices, limiter, failed, spent, madeWith, renamed, withheld>>

Delete(q, u) ==
    /\ AtOnce(q)
    /\ u \in rows \ deleted
    /\ deleted' = deleted \cup {u}
    /\ disabled' = disabled \cup {u}
    /\ clashed' = clashed \cup ({<<"active", u>>} \cap Needed)
    /\ UNCHANGED <<rows, password, equipped, renames, resting, keys, devices, limiter, failed,
                   spent, madeWith, flipped, renamed>>

\* Fault: the row keeps its address and name.
DeleteInPlace(q, u) ==
    /\ Delete(q, u)
    /\ UNCHANGED <<email, name, withheld>>

\* The address and the name are replaced by ones made of the id.
DeleteAccount(q, u) ==
    /\ Delete(q, u)
    /\ email' = [email EXCEPT ![u] = Nothing]
    /\ name' = [name EXCEPT ![u] = Nothing]
    /\ UNCHANGED withheld

\* One of the ids in the request; each has a statement of its own.
BatchDelete(q, u) ==
    /\ Delete(q, u)
    /\ withheld' = withheld \cup {u}
    /\ UNCHANGED <<email, name>>

-----------------------------------------------------------------------------
(* Time: Valkey's expiries, and fourteen days.                             *)

TimePasses ==
    /\ \/ \E a \in Addresses :
             /\ pending[a] # Nothing
             /\ pending' = [pending EXCEPT ![a] = Nothing]
             /\ UNCHANGED <<cooling, session, link, resting, limiter>>
       \/ \E a \in cooling :
             cooling' = cooling \ {a} /\ UNCHANGED <<pending, session, link, resting, limiter>>
       \/ \E t \in Requests :
             /\ link[t] # Nothing
             /\ link' = [link EXCEPT ![t] = Nothing]
             /\ UNCHANGED <<pending, cooling, session, resting, limiter>>
       \/ \E t \in Requests :
             /\ session[t] # Nothing
             /\ session' = [session EXCEPT ![t] = Nothing]
             /\ UNCHANGED <<pending, cooling, link, resting, limiter>>
       \/ \E u \in resting :
             resting' = resting \ {u} /\ UNCHANGED <<pending, cooling, session, link, limiter>>
       \/ /\ ttl
          /\ attempts' = 0 /\ ttl' = FALSE
          /\ UNCHANGED <<pending, cooling, session, link, resting>>
    /\ UNCHANGED <<rows, email, name, password, deleted, disabled, equipped, renames, devices,
                   pc, request, failed, ghosts>>

-----------------------------------------------------------------------------
Start(q) ==
    \/ \E a \in Addresses, n \in Names :
          StartRegisterInit(q, a, n) \/ StartRegister(q, a, n) \/ StartOAuth(q, a, n)
    \/ \E a \in Addresses : StartVerify(q, a)
    \/ \E token \in Requests : StartRefresh(q, token) \/ StartComplete(q, token)
    \/ StartRecover(q)
    \/ \E u \in Ids :
          \/ StartLogin(q, u) \/ StartRecoverEmail(q, u) \/ StartReset(q, u)
          \/ StartLink(q, u) \/ StartToggle(q, u)
          \/ DeleteAccount(q, u) \/ BatchDelete(q, u)
          \/ \E old \in Bringers : StartChange(q, u, old)
          \/ \E n \in Names : StartRename(q, u, n)
          \/ \E d \in Requests : RevokeDevice(q, u, d)

Step(q) ==
    \/ CheckEmail(q) \/ CheckName(q) \/ CheckCooldown(q) \/ StorePending(q) \/ StartCooldown(q)
    \/ Recheck(q) \/ OAuth(q) \/ Insert(q)
    \/ InsertSettings(q) \/ InsertCodes(q) \/ ClearPending(q) \/ ClearCooldown(q)
    \/ StoreSession(q) \/ RefreshDrops(q) \/ ExpireAttempts(q)
    \/ StoreLink(q) \/ WritePassword(q) \/ DeleteLink(q)
    \/ CheckNameFree(q) \/ Rename(q) \/ LinkDevice(q) \/ Toggle(q)

Next == (\E q \in Requests : Start(q) \/ Step(q)) \/ TimePasses

Spec == Init /\ [][Next]_vars

-----------------------------------------------------------------------------
(* Properties.                                                             *)

\* Types, and: a request is about something exactly while it runs, and what it has read is
\* what its handler reads.
TypeOK ==
    /\ rows \subseteq Ids
    /\ deleted \subseteq rows /\ disabled \subseteq rows /\ resting \subseteq rows
    /\ email \in [Ids -> Addresses \cup {Nothing}]
    /\ name \in [Ids -> Names \cup {Nothing}]
    /\ password \in [Ids -> Bringers \cup {Nothing}]
    /\ \A u \in Ids \ rows : email[u] = Nothing /\ name[u] = Nothing /\ password[u] = Nothing
    /\ equipped \in [Ids -> SUBSET {"settings", "codes"}]
    /\ renames \in [Ids -> 0 .. MaxRenames]
    /\ pending \in [Addresses -> Offers \cup {Nothing}]
    /\ cooling \subseteq Addresses
    /\ session \in [Requests -> rows \cup {Nothing}] /\ link \in [Requests -> rows \cup {Nothing}]
    /\ devices \in [Ids -> SUBSET Requests]
    /\ attempts \in 0 .. MaxAttempts + 1 /\ ttl \in BOOLEAN
    /\ pc \in [Requests -> Labels] /\ op \in [Requests -> Handlers]
    /\ \A q \in Requests : (op[q] # "none") = (q \in Running)
    /\ about \in [Requests -> rows \cup {Nothing}]
    /\ addr \in [Requests -> Addresses \cup {Nothing}]
    /\ wish \in [Requests -> Names \cup {Nothing}]
    /\ \A q \in Requests :
          CASE op[q] = "verify"                  -> copy[q] \in Offers
            [] op[q] \in {"refresh", "complete"} -> copy[q] \in Requests
            [] op[q] = "change"                  -> copy[q] \in Bringers
            [] op[q] = "rename"                  -> copy[q] \in 0 .. MaxRenames - 1
            [] OTHER                             -> copy[q] = Nothing
    /\ spent \subseteq Requests
    /\ madeWith \in [Ids -> Bringers \cup {Nothing}]
    /\ flipped \subseteq rows /\ withheld \subseteq deleted
    /\ renamed \in [Ids -> Nat]

\* An emailed code makes one account, also when the account is deleted and the code entered
\* again, unless two requests verified it at the same time or its removal failed.
CodeMakesOneAccount ==
    \A u, v \in Ids :
        madeWith[u] = madeWith[v] /\ madeWith[u] # Nothing
            => u = v \/ <<"code", madeWith[u]>> \in clashed \/ madeWith[u] \in failed

\* A registration that found its address and its name free is refused by the table only if
\* another one or a renaming ran beside it, or a row has them that an administrator deleted
\* or that was renamed after its deletion; a deleted account else leaves both to others.
RefusedOnlyWhenTaken ==
    [][\A q \in Requests :
          op[q] = "register" /\ pc[q] = "insert" /\ pc'[q] = "done"
             => \/ <<"insert", Nothing>> \in clashed
                \/ \E u \in withheld : email[u] = addr[q] \/ name[u] = wish[q]]_vars

\* A recovery link sets a password once, unless two requests used it at the same time or
\* its removal failed.
LinkIsSpent ==
    [][\A q \in Requests :
          op[q] = "complete" /\ pc[q] = "write" /\ pc'[q] # "write"
             => \/ copy[q] \notin spent
                \/ <<"link", copy[q]>> \in clashed \/ copy[q] \in failed]_vars

\* An account is disabled if it was toggled an odd number of times or is deleted, unless two
\* of these requests overlapped.
ActiveAsOrdered ==
    \A u \in rows :
        <<"active", u>> \notin clashed => (u \in disabled <=> u \in flipped \cup deleted)

\* A user changes the name no more often than allowed and has no more active devices than
\* allowed, unless two changes overlapped or two devices were linked at the same time.
LimitsHold ==
    \A u \in Ids :
        /\ renamed[u] <= MaxRenames \/ <<"name", u>> \in clashed
        /\ Cardinality(devices[u]) <= MaxDevices \/ <<"devices", u>> \in clashed

\* Whoever is locked out of the recovery by too many attempts gets back in: the count expires,
\* unless the command that says so failed or has not been sent yet.
LockoutEnds ==
    attempts > 0 /\ ~ttl => "attempts" \in failed \/ \E q \in Requests : pc[q] = "expire"
=============================================================================
