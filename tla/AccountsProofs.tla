---------------------------- MODULE AccountsProofs ----------------------------
(***************************************************************************)
(* Proofs about Accounts, for any accounts, addresses, names, limits and   *)
(* requests, in any interleaving of their statements and with any of them  *)
(* failing.                                                                *)
(***************************************************************************)
EXTENDS Accounts, FiniteSetTheorems, TLAPS

Copies == Offers \cup Bringers \cup Nat \cup {Nothing}

UsersTyped ==
    /\ rows \subseteq Ids
    /\ deleted \subseteq rows /\ disabled \subseteq rows /\ resting \subseteq rows
    /\ email \in [Ids -> Addresses \cup {Nothing}]
    /\ name \in [Ids -> Names \cup {Nothing}]
    /\ password \in [Ids -> Bringers \cup {Nothing}]
    /\ \A u \in Ids \ rows : email[u] = Nothing /\ name[u] = Nothing /\ password[u] = Nothing
    /\ equipped \in [Ids -> SUBSET {"settings", "codes"}]
    /\ renames \in [Ids -> 0 .. MaxRenames]
    /\ devices \in [Ids -> SUBSET Requests]

KeysTyped ==
    /\ pending \in [Addresses -> Offers \cup {Nothing}]
    /\ cooling \subseteq Addresses
    /\ session \in [Requests -> rows \cup {Nothing}]
    /\ link \in [Requests -> rows \cup {Nothing}]
    /\ attempts \in 0 .. MaxAttempts + 1 /\ ttl \in BOOLEAN

GhostsTyped ==
    /\ spent \subseteq Requests
    /\ madeWith \in [Ids -> Bringers \cup {Nothing}]
    /\ flipped \subseteq rows /\ withheld \subseteq deleted
    /\ renamed \in [Ids -> Nat]

RequestsTyped ==
    /\ pc \in [Requests -> Labels] /\ op \in [Requests -> Handlers]
    /\ about \in [Requests -> rows \cup {Nothing}]
    /\ addr \in [Requests -> Addresses \cup {Nothing}]
    /\ wish \in [Requests -> Names \cup {Nothing}]
    /\ copy \in [Requests -> Copies]

Typed == UsersTyped /\ KeysTyped /\ GhostsTyped /\ RequestsTyped

\* The statements of the handler a request runs.
OnPath(q) ==
    \/ op[q] = "none" /\ pc[q] \in {"idle", "done"}
    \/ op[q] = "init" /\ pc[q] \in {"email", "name", "cooldown", "pend", "cool"}
    \/ op[q] = "register" /\ pc[q] \in {"email", "name", "insert", "settings", "codes", "session"}
    \/ /\ op[q] = "verify"
       /\ pc[q] \in {"recheck", "insert", "settings", "codes", "clear", "uncool", "session"}
    \/ op[q] = "oauth" /\ pc[q] \in {"find", "suggest", "insert", "settings", "session"}
    \/ op[q] = "login" /\ pc[q] = "session"
    \/ op[q] = "refresh" /\ pc[q] = "drop"
    \/ op[q] = "code" /\ pc[q] = "expire"
    \/ op[q] = "mail" /\ pc[q] = "store"
    \/ op[q] = "complete" /\ pc[q] \in {"write", "unlink"}
    \/ op[q] \in {"change", "reset"} /\ pc[q] = "write"
    \/ op[q] = "toggle" /\ pc[q] \in {"enable", "disable"}
    \/ op[q] = "link" /\ pc[q] = "device"
    \/ op[q] = "rename" /\ pc[q] \in {"free", "rename"}

\* Where the request is about a user whose row is there.
AtUser == {"settings", "codes", "clear", "uncool", "session", "drop", "store", "write",
           "unlink", "enable", "disable", "device", "free", "rename"}

\* What the request has been told or has read.
Carries(q) ==
    /\ pc[q] \in AtUser => about[q] \in rows
    /\ op[q] \in {"init", "register", "verify", "oauth"} => addr[q] \in Addresses
    /\ op[q] \in {"init", "register", "verify", "oauth", "rename"} => wish[q] \in Names
    /\ op[q] = "verify" => copy[q] \in Offers
    /\ op[q] \in {"refresh", "complete"} => copy[q] \in Requests
    /\ op[q] = "change" => copy[q] \in Bringers
    /\ op[q] = "rename" => copy[q] \in 0 .. MaxRenames - 1
    /\ op[q] \notin {"verify", "refresh", "complete", "change", "rename"} => copy[q] = Nothing

Own(q) == OnPath(q) /\ Carries(q)

\* What a request needs to itself, it has to itself, or it is in clashed.
Mine(q) == Needs(op[q], about[q], copy[q])
Solo    == \A p, q \in Requests : p # q => Mine(p) \cap Mine(q) \subseteq clashed

Inv == Typed /\ (\A q \in Requests : Own(q)) /\ Solo

-----------------------------------------------------------------------------
(* What a step of q leaves to the other requests.                          *)

Alone(q) ==
    \A p \in Requests \ {q} :
        /\ pc'[p] = pc[p] /\ op'[p] = op[p] /\ about'[p] = about[p]
        /\ addr'[p] = addr[p] /\ wish'[p] = wish[p] /\ copy'[p] = copy[p]

Shared(q) == \A p \in Requests \ {q} : Mine(q)' \cap Mine(p) \subseteq clashed'

Grows == rows \subseteq rows' /\ clashed \subseteq clashed' /\ failed \subseteq failed'

\* What is proved of every step of q.
Good(q) == Typed' /\ Own(q)' /\ Alone(q) /\ Shared(q) /\ Grows

\* A step of q keeps what another request relies on.
LEMMA GoodKeepsInv ==
    ASSUME Inv, NEW q \in Requests, Good(q)
    PROVE  Inv'
<1>1. ASSUME NEW p \in Requests \ {q}
      PROVE  Own(p)' /\ Mine(p)' = Mine(p)
  <2>1. Own(p) /\ rows \subseteq rows'
    BY DEF Inv, Good, Grows
  <2>2. /\ pc'[p] = pc[p] /\ op'[p] = op[p] /\ about'[p] = about[p]
        /\ addr'[p] = addr[p] /\ wish'[p] = wish[p] /\ copy'[p] = copy[p]
    BY DEF Good, Alone
  <2>3. OnPath(p)'
    BY <2>1, <2>2 DEF Own, OnPath
  <2>4. Carries(p)'
    BY <2>1, <2>2 DEF Own, Carries, AtUser
  <2> QED BY <2>2, <2>3, <2>4 DEF Own, Mine
<1>2. Solo'
  <2> SUFFICES ASSUME NEW p \in Requests, NEW r \in Requests, p # r
               PROVE  Mine(p)' \cap Mine(r)' \subseteq clashed'
    BY DEF Solo
  <2>1. CASE p = q
    BY <2>1, <1>1 DEF Good, Shared
  <2>2. CASE r = q
    BY <2>2, <1>1 DEF Good, Shared
  <2>3. CASE p # q /\ r # q
    BY <2>3, <1>1 DEF Good, Grows, Inv, Solo
  <2> QED BY <2>1, <2>2, <2>3
<1>3. \A p \in Requests : Own(p)'
  BY <1>1 DEF Good
<1> QED BY <1>2, <1>3 DEF Inv, Good

\* A request that runs nothing needs nothing.
LEMMA IdleNeedsNothing ==
    ASSUME NEW q \in Requests, op[q] = "none"
    PROVE  Mine(q) = {}
BY DEF Mine, Needs

LEMMA RunningNeeds ==
    ASSUME Inv, NEW q \in Requests
    PROVE  Mine(q) \subseteq Needed
<1>1. CASE op[q] = "none"
  BY <1>1, IdleNeedsNothing
<1>2. CASE op[q] # "none"
  <2>1. q \in Running
    BY <1>2 DEF Inv, Own, OnPath, Running
  <2> QED BY <2>1 DEF Needed, Mine
<1> QED BY <1>1, <1>2

\* What a start does to the request, and that whatever it shares with another is in clashed.
LEMMA StartsGood ==
    ASSUME Inv, NEW q \in Requests, NEW handler \in Handlers, NEW label \in Labels,
           NEW u \in rows \cup {Nothing}, NEW a \in Addresses \cup {Nothing},
           NEW n \in Names \cup {Nothing}, NEW c \in Copies,
           Starts(q, handler, label, u, a, n, c), rows' = rows
    PROVE  /\ RequestsTyped' /\ Alone(q) /\ Shared(q)
           /\ clashed \subseteq clashed'
           /\ pc[q] = "idle" /\ pc'[q] = label /\ op'[q] = handler
           /\ about'[q] = u /\ addr'[q] = a /\ wish'[q] = n /\ copy'[q] = c
<1> USE DEF Inv, Typed, RequestsTyped
<1>1. pc[q] = "idle" /\ pc'[q] = label /\ op'[q] = handler
  BY DEF Starts
<1>2. about'[q] = u /\ addr'[q] = a /\ wish'[q] = n /\ copy'[q] = c
  BY DEF Starts
<1>3. RequestsTyped'
  BY DEF Starts
<1>4. Alone(q)
  BY DEF Starts, Alone
<1>5. Shared(q)
  <2> SUFFICES ASSUME NEW p \in Requests \ {q}
               PROVE  Mine(q)' \cap Mine(p) \subseteq clashed'
    BY DEF Shared
  <2>1. Mine(q)' = Needs(handler, u, c)
    BY <1>1, <1>2 DEF Mine, Needs
  <2>2. Mine(p) \subseteq Needed
    BY RunningNeeds
  <2> QED BY <2>1, <2>2 DEF Starts
<1> QED BY <1>1, <1>2, <1>3, <1>4, <1>5 DEF Starts

\* A statement after which the request goes on.
LEMMA GotoGood ==
    ASSUME Inv, NEW q \in Requests, NEW label \in Labels, Goto(q, label), rows \subseteq rows'
    PROVE  /\ RequestsTyped' /\ Alone(q) /\ Shared(q)
           /\ clashed' = clashed
           /\ pc'[q] = label /\ op'[q] = op[q] /\ about'[q] = about[q]
           /\ addr'[q] = addr[q] /\ wish'[q] = wish[q] /\ copy'[q] = copy[q]
           /\ Mine(q)' = Mine(q)
<1> USE DEF Inv, Typed, RequestsTyped, Goto, request
<1>1. /\ pc'[q] = label /\ op'[q] = op[q] /\ about'[q] = about[q]
      /\ addr'[q] = addr[q] /\ wish'[q] = wish[q] /\ copy'[q] = copy[q]
  OBVIOUS
<1>2. RequestsTyped'
  OBVIOUS
<1>3. Alone(q)
  BY DEF Alone
<1>4. Mine(q)' = Mine(q)
  BY DEF Mine
<1>5. Shared(q)
  BY <1>4 DEF Shared, Solo
<1> QED BY <1>1, <1>2, <1>3, <1>4, <1>5

\* The last statement of a request.
LEMMA EndsGood ==
    ASSUME Inv, NEW q \in Requests, Ends(q), rows \subseteq rows'
    PROVE  /\ RequestsTyped' /\ Own(q)' /\ Alone(q) /\ Shared(q)
           /\ clashed' = clashed
           /\ pc'[q] = "done" /\ op'[q] = "none"
<1> USE DEF Inv, Typed, RequestsTyped, Ends
<1>1. /\ pc'[q] = "done" /\ op'[q] = "none"
      /\ about'[q] = Nothing /\ addr'[q] = Nothing /\ wish'[q] = Nothing /\ copy'[q] = Nothing
  OBVIOUS
<1>2. RequestsTyped'
  BY DEF Labels, Handlers, Copies
<1>3. Alone(q)
  BY DEF Alone
<1>4. Own(q)'
  BY <1>1 DEF Own, OnPath, Carries, AtUser
<1>5. Mine(q)' = {}
  BY <1>1 DEF Mine, Needs
<1>6. Shared(q)
  BY <1>5 DEF Shared
<1> QED BY <1>1, <1>2, <1>3, <1>4, <1>6

\* A handler of one statement.
LEMMA AtOnceGood ==
    ASSUME Inv, NEW q \in Requests, AtOnce(q), rows \subseteq rows', clashed \subseteq clashed'
    PROVE  /\ RequestsTyped' /\ Own(q)' /\ Alone(q) /\ Shared(q)
           /\ pc[q] = "idle" /\ pc'[q] = "done" /\ op[q] = "none" /\ op'[q] = "none"
<1> USE DEF Inv, Typed, RequestsTyped, AtOnce
<1>1. pc[q] = "idle" /\ pc'[q] = "done" /\ op'[q] = op[q] /\ copy'[q] = copy[q]
  OBVIOUS
<1>2. op[q] = "none"
  BY <1>1 DEF Own, OnPath
<1>3. RequestsTyped'
  BY DEF Labels
<1>4. Alone(q)
  BY DEF Alone
<1>5. Own(q)'
  BY <1>1, <1>2 DEF Own, OnPath, Carries, AtUser
<1>6. Mine(q)' = {}
  BY <1>1, <1>2 DEF Mine, Needs
<1>7. Shared(q)
  BY <1>6 DEF Shared
<1> QED BY <1>1, <1>2, <1>3, <1>4, <1>5, <1>7
-----------------------------------------------------------------------------
(* The starts and the steps, types first.                                  *)

StoresTyped == UsersTyped /\ KeysTyped /\ GhostsTyped

\* Handlers that read first: the table and the keys stay as they are.
LEMMA ReadingStart ==
    ASSUME Inv, NEW q \in Requests, NEW handler \in Handlers, NEW label \in Labels,
           NEW u \in rows \cup {Nothing}, NEW a \in Addresses \cup {Nothing},
           NEW n \in Names \cup {Nothing}, NEW c \in Copies,
           Starts(q, handler, label, u, a, n, c),
           UNCHANGED <<users, keys, devices, limiter, failed, ghosts>>
    PROVE  /\ StoresTyped' /\ RequestsTyped' /\ Alone(q) /\ Shared(q) /\ Grows
           /\ pc'[q] = label /\ op'[q] = handler /\ rows' = rows
           /\ about'[q] = u /\ addr'[q] = a /\ wish'[q] = n /\ copy'[q] = c
<1>1. rows' = rows /\ failed' = failed
  BY DEF users
<1>2. StoresTyped'
  <2>1. UsersTyped'
    BY DEF Inv, Typed, UsersTyped, users
  <2>2. KeysTyped'
    BY DEF Inv, Typed, KeysTyped, users, keys, limiter
  <2>3. GhostsTyped'
    BY DEF Inv, Typed, GhostsTyped, users, ghosts
  <2> QED BY <2>1, <2>2, <2>3 DEF StoresTyped
<1>3. /\ RequestsTyped' /\ Alone(q) /\ Shared(q) /\ clashed \subseteq clashed'
      /\ pc'[q] = label /\ op'[q] = handler
      /\ about'[q] = u /\ addr'[q] = a /\ wish'[q] = n /\ copy'[q] = c
  BY <1>1, StartsGood
<1> QED BY <1>1, <1>2, <1>3 DEF Grows

LEMMA RegisterStartGood ==
    ASSUME Inv, NEW q \in Requests, NEW a \in Addresses, NEW n \in Names,
           StartRegisterInit(q, a, n) \/ StartRegister(q, a, n) \/ StartOAuth(q, a, n)
    PROVE  Good(q)
<1>1. PICK handler \in {"init", "register", "oauth"}, label \in {"email", "find"} :
         /\ Starts(q, handler, label, Nothing, a, n, Nothing)
         /\ handler = "oauth" <=> label = "find"
         /\ UNCHANGED <<users, keys, devices, limiter, failed, ghosts>>
  BY DEF StartRegisterInit, StartRegister, StartOAuth
<1>2. handler \in Handlers /\ label \in Labels /\ Nothing \in Copies
  BY DEF Handlers, Labels, Copies
<1>3. /\ StoresTyped' /\ RequestsTyped' /\ Alone(q) /\ Shared(q) /\ Grows
      /\ pc'[q] = label /\ op'[q] = handler
      /\ addr'[q] = a /\ wish'[q] = n /\ copy'[q] = Nothing
  BY ONLY Inv, q \in Requests, a \in Addresses, n \in Names, <1>1, <1>2, ReadingStart
<1> QED BY <1>1, <1>3 DEF Good, Typed, StoresTyped, Own, OnPath, Carries, AtUser

LEMMA VerifyStartGood ==
    ASSUME Inv, NEW q \in Requests, NEW a \in Addresses, StartVerify(q, a)
    PROVE  Good(q)
<1>1. pending[a] \in Offers /\ pending[a].name \in Names
  BY DEF StartVerify, Inv, Typed, KeysTyped, Offers
<1>0. "verify" \in Handlers /\ "recheck" \in Labels /\ pending[a] \in Copies
  BY <1>1 DEF Handlers, Labels, Copies
<1>2. /\ StoresTyped' /\ RequestsTyped' /\ Alone(q) /\ Shared(q) /\ Grows
      /\ pc'[q] = "recheck" /\ op'[q] = "verify"
      /\ addr'[q] = a /\ wish'[q] = pending[a].name /\ copy'[q] = pending[a]
  BY <1>1, <1>0, ReadingStart DEF StartVerify
<1> QED BY <1>1, <1>2 DEF Good, Typed, StoresTyped, Own, OnPath, Carries, AtUser

LEMMA TokenStartGood ==
    ASSUME Inv, NEW q \in Requests, NEW token \in Requests,
           StartRefresh(q, token) \/ StartComplete(q, token)
    PROVE  Good(q)
<1> USE DEF Good, Typed, StoresTyped, Own, OnPath, Carries, AtUser
<1>0. /\ {"refresh", "complete"} \subseteq Handlers /\ {"drop", "write"} \subseteq Labels
      /\ token \in Copies
  BY DEF Handlers, Labels, Copies, Bringers
<1>1. CASE StartRefresh(q, token)
  <2>1. session[token] \in rows
    BY <1>1 DEF StartRefresh, Inv, KeysTyped
  <2>2. /\ StoresTyped' /\ RequestsTyped' /\ Alone(q) /\ Shared(q) /\ Grows
        /\ pc'[q] = "drop" /\ op'[q] = "refresh" /\ rows' = rows
        /\ about'[q] = session[token] /\ copy'[q] = token
    BY <1>1, <1>0, <2>1, ReadingStart DEF StartRefresh
  <2> QED BY <2>1, <2>2
<1>2. CASE StartComplete(q, token)
  <2>1. link[token] \in rows
    BY <1>2 DEF StartComplete, Inv, KeysTyped
  <2>2. /\ StoresTyped' /\ RequestsTyped' /\ Alone(q) /\ Shared(q) /\ Grows
        /\ pc'[q] = "write" /\ op'[q] = "complete" /\ rows' = rows
        /\ about'[q] = link[token] /\ copy'[q] = token
    BY <1>2, <1>0, <2>1, ReadingStart DEF StartComplete
  <2> QED BY <2>1, <2>2
<1> QED BY <1>1, <1>2

LEMMA RecoverStartGood ==
    ASSUME Inv, NEW q \in Requests, StartRecover(q)
    PROVE  Good(q)
<1>1. rows' = rows /\ failed' = failed
  BY DEF StartRecover, users
<1>2. UsersTyped'
  BY DEF StartRecover, Inv, Typed, UsersTyped, users
<1>3. KeysTyped'
  BY AccountsAssumption DEF StartRecover, Inv, Typed, KeysTyped, users, keys
<1>4. GhostsTyped'
  BY DEF StartRecover, Inv, Typed, GhostsTyped, users, ghosts
<1>5. RequestsTyped' /\ Own(q)' /\ Alone(q) /\ Shared(q) /\ clashed \subseteq clashed'
  <2>1. CASE FirstAttempt
    <3>1. Starts(q, "code", "expire", Nothing, Nothing, Nothing, Nothing)
      BY <2>1 DEF StartRecover
    <3>2. /\ RequestsTyped' /\ Alone(q) /\ Shared(q) /\ clashed \subseteq clashed'
          /\ pc'[q] = "expire" /\ op'[q] = "code" /\ copy'[q] = Nothing
      <4>1. "code" \in Handlers /\ "expire" \in Labels /\ Nothing \in Copies
        BY DEF Handlers, Labels, Copies
      <4> QED BY <1>1, <3>1, <4>1, StartsGood
    <3> QED BY <3>2 DEF Own, OnPath, Carries, AtUser
  <2>2. CASE ~FirstAttempt
    BY <1>1, <2>2, AtOnceGood DEF StartRecover
  <2> QED BY <2>1, <2>2
<1> QED BY <1>1, <1>2, <1>3, <1>4, <1>5 DEF Good, Typed, Grows

\* Handlers that are about a user whose row they have seen.
LEMMA UserStartGood ==
    ASSUME Inv, NEW q \in Requests, NEW u \in rows, NEW handler, NEW label, NEW n, NEW c,
           Starts(q, handler, label, u, Nothing, n, c),
           UNCHANGED <<users, keys, devices, limiter, failed, ghosts>>,
           \/ handler = "login" /\ label = "session" /\ n = Nothing /\ c = Nothing
           \/ handler = "mail" /\ label = "store" /\ n = Nothing /\ c = Nothing
           \/ handler = "change" /\ label = "write" /\ n = Nothing /\ c \in Bringers
           \/ handler = "reset" /\ label = "write" /\ n = Nothing /\ c = Nothing
           \/ handler = "rename" /\ label = "free" /\ n \in Names /\ c \in 0 .. MaxRenames - 1
           \/ handler = "link" /\ label = "device" /\ n = Nothing /\ c = Nothing
           \/ handler = "toggle" /\ label \in {"enable", "disable"} /\ n = Nothing /\ c = Nothing
    PROVE  Good(q)
<1>1. handler \in Handlers /\ label \in Labels /\ n \in Names \cup {Nothing}
  BY DEF Handlers, Labels
<1>2. c \in Copies
  BY AccountsAssumption DEF Copies
<1>3. /\ StoresTyped' /\ RequestsTyped' /\ Alone(q) /\ Shared(q) /\ Grows
      /\ pc'[q] = label /\ op'[q] = handler /\ rows' = rows
      /\ about'[q] = u /\ wish'[q] = n /\ copy'[q] = c
  BY <1>1, <1>2, ReadingStart
<1>4. OnPath(q)'
  BY <1>3 DEF OnPath
<1>5. Carries(q)'
  BY <1>3 DEF Carries, AtUser
<1> QED BY <1>3, <1>4, <1>5 DEF Good, Typed, StoresTyped, Own

LEMMA AboutStartGood ==
    ASSUME Inv, NEW q \in Requests, NEW u \in Ids,
           \/ StartLogin(q, u) \/ StartRecoverEmail(q, u) \/ StartReset(q, u)
           \/ StartLink(q, u) \/ StartToggle(q, u)
           \/ \E old \in Bringers : StartChange(q, u, old)
           \/ \E n \in Names : StartRename(q, u, n)
    PROVE  Good(q)
<1>1. CASE StartLogin(q, u)
  BY <1>1, UserStartGood DEF StartLogin, MayLogin
<1>2. CASE StartRecoverEmail(q, u)
  BY <1>2, UserStartGood DEF StartRecoverEmail
<1>3. CASE StartReset(q, u)
  BY <1>3, UserStartGood DEF StartReset
<1>4. CASE StartLink(q, u)
  BY <1>4, UserStartGood DEF StartLink
<1>5. CASE StartToggle(q, u)
  <2>1. CASE u \in disabled
    BY <1>5, <2>1, UserStartGood DEF StartToggle
  <2>2. CASE u \notin disabled
    BY <1>5, <2>2, UserStartGood DEF StartToggle
  <2> QED BY <2>1, <2>2
<1>6. ASSUME NEW old \in Bringers, StartChange(q, u, old)
      PROVE  Good(q)
  BY <1>6, UserStartGood DEF StartChange, Knows
<1>7. ASSUME NEW n \in Names, StartRename(q, u, n)
      PROVE  Good(q)
  <2>1. renames[u] \in 0 .. MaxRenames - 1
    BY <1>7, AccountsAssumption DEF StartRename, Inv, Typed, UsersTyped
  <2> QED BY <1>7, <2>1, UserStartGood DEF StartRename
<1> QED BY <1>1, <1>2, <1>3, <1>4, <1>5, <1>6, <1>7

LEMMA DeleteGood ==
    ASSUME Inv, NEW q \in Requests, NEW u \in Ids, DeleteAccount(q, u) \/ BatchDelete(q, u)
    PROVE  Good(q)
<1>1. Delete(q, u)
  BY DEF DeleteAccount, BatchDelete
<1>2. rows' = rows /\ failed' = failed /\ clashed \subseteq clashed'
  BY <1>1 DEF Delete
<1>3. RequestsTyped' /\ Own(q)' /\ Alone(q) /\ Shared(q)
  BY <1>1, <1>2, AtOnceGood DEF Delete
<1>4. UsersTyped'
  BY <1>1 DEF DeleteAccount, BatchDelete, Delete, Inv, Typed, UsersTyped
<1>5. KeysTyped'
  BY <1>1 DEF Delete, keys, limiter, Inv, Typed, KeysTyped
<1>6. GhostsTyped'
  BY <1>1 DEF DeleteAccount, BatchDelete, Delete, Inv, Typed, GhostsTyped
<1> QED BY <1>2, <1>3, <1>4, <1>5, <1>6 DEF Good, Typed, Grows

LEMMA RevokeGood ==
    ASSUME Inv, NEW q \in Requests, NEW u \in Ids, NEW d \in Requests, RevokeDevice(q, u, d)
    PROVE  Good(q)
<1>1. rows' = rows /\ failed' = failed /\ clashed' = clashed
  BY DEF RevokeDevice, users
<1>2. RequestsTyped' /\ Own(q)' /\ Alone(q) /\ Shared(q)
  BY <1>1, AtOnceGood DEF RevokeDevice
<1>3. UsersTyped'
  BY DEF RevokeDevice, users, Inv, Typed, UsersTyped
<1>4. KeysTyped'
  BY DEF RevokeDevice, users, keys, limiter, Inv, Typed, KeysTyped
<1>5. GhostsTyped'
  BY DEF RevokeDevice, users, ghosts, Inv, Typed, GhostsTyped
<1> QED BY <1>1, <1>2, <1>3, <1>4, <1>5 DEF Good, Typed, Grows

LEMMA StartGood ==
    ASSUME Inv, NEW q \in Requests, Start(q)
    PROVE  Good(q)
BY RegisterStartGood, VerifyStartGood, TokenStartGood, RecoverStartGood, AboutStartGood,
   DeleteGood, RevokeGood DEF Start
-----------------------------------------------------------------------------
\* Checks: a request looks and goes on or ends.
LEMMA CheckGood ==
    ASSUME Inv, NEW q \in Requests,
           CheckEmail(q) \/ CheckName(q) \/ CheckCooldown(q) \/ CheckNameFree(q)
    PROVE  Good(q)
<1>1. /\ UNCHANGED <<users, keys, devices, limiter, failed, ghosts>>
      /\ \/ Ends(q)
         \/ pc[q] = "email" /\ Goto(q, "name")
         \/ pc[q] = "name" /\ op[q] = "init" /\ Goto(q, "cooldown")
         \/ pc[q] = "name" /\ op[q] # "init" /\ Goto(q, "insert")
         \/ pc[q] = "cooldown" /\ Goto(q, "pend")
         \/ pc[q] = "free" /\ Goto(q, "rename")
  BY DEF CheckEmail, CheckName, CheckCooldown, CheckNameFree
<1>2. rows' = rows /\ failed' = failed
  BY <1>1 DEF users
<1>3. UsersTyped'
  BY <1>1 DEF Inv, Typed, UsersTyped, users
<1>4. KeysTyped'
  BY <1>1 DEF Inv, Typed, KeysTyped, users, keys, limiter
<1>5. GhostsTyped'
  BY <1>1 DEF Inv, Typed, GhostsTyped, users, ghosts
<1>6. RequestsTyped' /\ Own(q)' /\ Alone(q) /\ Shared(q) /\ clashed' = clashed
  <2>1. CASE Ends(q)
    BY <1>2, <2>1, EndsGood
  <2>2. ASSUME NEW label \in {"name", "cooldown", "insert", "pend", "rename"}, Goto(q, label),
               \/ pc[q] = "email" /\ label = "name"
               \/ pc[q] = "name" /\ op[q] = "init" /\ label = "cooldown"
               \/ pc[q] = "name" /\ op[q] # "init" /\ label = "insert"
               \/ pc[q] = "cooldown" /\ label = "pend"
               \/ pc[q] = "free" /\ label = "rename"
        PROVE  RequestsTyped' /\ Own(q)' /\ Alone(q) /\ Shared(q) /\ clashed' = clashed
    <3>1. label \in Labels
      BY DEF Labels
    <3>2. /\ RequestsTyped' /\ Alone(q) /\ Shared(q) /\ clashed' = clashed
          /\ pc'[q] = label /\ op'[q] = op[q] /\ about'[q] = about[q]
          /\ addr'[q] = addr[q] /\ wish'[q] = wish[q] /\ copy'[q] = copy[q]
      BY <1>2, <2>2, <3>1, GotoGood
    <3>3. OnPath(q) /\ Carries(q)
      BY DEF Inv, Own
    <3>4. OnPath(q)'
      BY <2>2, <3>2, <3>3 DEF OnPath
    <3>5. Carries(q)'
      BY <1>2, <2>2, <3>2, <3>3 DEF Carries, AtUser
    <3> QED BY <3>2, <3>4, <3>5 DEF Own
  <2> QED BY <1>1, <2>1, <2>2
<1> QED BY <1>2, <1>3, <1>4, <1>5, <1>6 DEF Good, Typed, Grows

\* A statement that goes on, along the handler's path.
LEMMA OnwardsGood ==
    ASSUME Inv, NEW q \in Requests, NEW label, Goto(q, label), rows \subseteq rows',
           \/ pc[q] = "pend" /\ label = "cool"
           \/ pc[q] = "recheck" /\ label = "insert"
           \/ pc[q] = "settings" /\ op[q] = "oauth" /\ label = "session"
           \/ pc[q] = "settings" /\ op[q] # "oauth" /\ label = "codes"
           \/ pc[q] = "codes" /\ op[q] = "verify" /\ label = "clear"
           \/ pc[q] = "codes" /\ op[q] # "verify" /\ label = "session"
           \/ pc[q] = "clear" /\ label = "uncool"
           \/ pc[q] = "uncool" /\ label = "session"
           \/ pc[q] = "find" /\ label = "suggest"
           \/ pc[q] = "write" /\ op[q] = "complete" /\ label = "unlink"
    PROVE  RequestsTyped' /\ Own(q)' /\ Alone(q) /\ Shared(q) /\ clashed' = clashed
<1>1. label \in Labels
  BY DEF Labels
<1>2. /\ RequestsTyped' /\ Alone(q) /\ Shared(q) /\ clashed' = clashed
      /\ pc'[q] = label /\ op'[q] = op[q] /\ about'[q] = about[q]
      /\ addr'[q] = addr[q] /\ wish'[q] = wish[q] /\ copy'[q] = copy[q]
  BY <1>1, GotoGood
<1>3. OnPath(q) /\ Carries(q)
  BY DEF Inv, Own
<1>4. OnPath(q)'
  BY <1>2, <1>3 DEF OnPath
<1>5. Carries(q)'
  BY <1>2, <1>3 DEF Carries, AtUser
<1> QED BY <1>2, <1>4, <1>5 DEF Own

\* Statements on the keys.
LEMMA KeysStepGood ==
    ASSUME Inv, NEW q \in Requests,
           \/ StorePending(q) \/ StartCooldown(q) \/ Recheck(q) \/ ClearPending(q)
           \/ ClearCooldown(q) \/ StoreSession(q) \/ RefreshDrops(q) \/ ExpireAttempts(q)
           \/ StoreLink(q) \/ DeleteLink(q)
    PROVE  Good(q)
<1> USE DEF StorePending, StartCooldown, Recheck, ClearPending, ClearCooldown, StoreSession,
            RefreshDrops, ExpireAttempts, StoreLink, DeleteLink
<1>1. UNCHANGED <<users, devices, ghosts>>
  OBVIOUS
<1>2. failed \subseteq failed'
  BY DEF Works, Fails
<1>3. rows' = rows
  BY <1>1 DEF users
<1>4. UsersTyped'
  BY ONLY Inv, <1>1 DEF Inv, Typed, UsersTyped, users
<1>5. GhostsTyped'
  BY ONLY Inv, <1>1 DEF Inv, Typed, GhostsTyped, users, ghosts
<1>6. RequestsTyped' /\ Own(q)' /\ Alone(q) /\ Shared(q) /\ clashed' = clashed
  <2>1. CASE Ends(q)
    BY <1>3, <2>1, EndsGood
  <2>2. CASE ~Ends(q)
    <3>1. \/ pc[q] = "pend" /\ Goto(q, "cool")
          \/ pc[q] = "recheck" /\ Goto(q, "insert")
          \/ pc[q] = "clear" /\ Goto(q, "uncool")
          \/ pc[q] = "uncool" /\ Goto(q, "session")
      BY <2>2
    <3> QED BY ONLY Inv, q \in Requests, <1>3, <3>1, OnwardsGood
  <2> QED BY <2>1, <2>2
<1>7. /\ KeysTyped /\ OnPath(q) /\ Carries(q)
      /\ pc[q] \in {"cool", "recheck", "clear", "uncool", "pend"} => addr[q] \in Addresses
  BY DEF Inv, Typed, Own, OnPath, Carries
<1>8. KeysTyped'
  <2>1. CASE StorePending(q)
    <3>1. [name |-> wish[q], by |-> q] \in Offers
      BY <2>1, <1>7 DEF Offers, Bringers, OnPath, Carries
    <3> QED BY <2>1, <3>1, <1>3, <1>7 DEF KeysTyped, limiter
  <2>2. CASE StartCooldown(q) \/ ClearCooldown(q)
    BY <2>2, <1>3, <1>7 DEF KeysTyped, limiter
  <2>3. CASE Recheck(q) \/ ClearPending(q)
    BY <2>3, <1>3, <1>7 DEF KeysTyped, limiter
  <2>4. CASE StoreSession(q)
    <3>1. about[q] \in rows
      BY <2>4, <1>7 DEF Carries, AtUser
    <3> QED BY <2>4, <3>1, <1>3, <1>7 DEF KeysTyped, limiter
  <2>5. CASE RefreshDrops(q)
    BY <2>5, <1>3, <1>7 DEF KeysTyped, limiter
  <2>6. CASE ExpireAttempts(q)
    <3>1. UNCHANGED keys /\ attempts' = attempts /\ (ttl' = (attempts > 0) \/ ttl' = ttl)
      BY <2>6
    <3>2. (attempts > 0) \in BOOLEAN
      BY <1>7, AccountsAssumption DEF KeysTyped
    <3>3. ttl' \in BOOLEAN
      BY ONLY <3>1, <3>2, <1>7, Zenon DEF KeysTyped
    <3> QED BY <3>1, <3>3, <1>3, <1>7 DEF KeysTyped, keys
  <2>7. CASE StoreLink(q)
    <3>1. about[q] \in rows
      BY <2>7, <1>7 DEF Carries, AtUser
    <3> QED BY <2>7, <3>1, <1>3, <1>7 DEF KeysTyped, limiter
  <2>8. CASE DeleteLink(q)
    BY <2>8, <1>3, <1>7 DEF KeysTyped, limiter
  <2> QED BY <2>1, <2>2, <2>3, <2>4, <2>5, <2>6, <2>7, <2>8
<1> QED BY ONLY <1>2, <1>3, <1>4, <1>5, <1>6, <1>8, Inv DEF Good, Typed, Grows

\* What OAuth finds and suggests.
LEMMA OAuthGood ==
    ASSUME Inv, NEW q \in Requests, OAuth(q)
    PROVE  Good(q)
<1> USE DEF OAuth, FindAccount, SuggestName
<1>1. UNCHANGED <<users, keys, devices, limiter, failed, ghosts>>
  OBVIOUS
<1>2. rows' = rows /\ failed' = failed
  BY <1>1 DEF users
<1>3. UsersTyped'
  BY ONLY Inv, <1>1 DEF Inv, Typed, UsersTyped, users
<1>4. KeysTyped'
  BY ONLY Inv, <1>1 DEF Inv, Typed, KeysTyped, users, keys, limiter
<1>5. GhostsTyped'
  BY ONLY Inv, <1>1 DEF Inv, Typed, GhostsTyped, users, ghosts
<1>6. RequestsTyped /\ OnPath(q) /\ Carries(q) /\ rows \subseteq Ids
  BY DEF Inv, Typed, UsersTyped, Own
<1>7. RequestsTyped' /\ Own(q)' /\ Alone(q) /\ Shared(q) /\ clashed' = clashed
  <2>1. CASE Goto(q, "suggest") /\ pc[q] = "find"
    BY <1>2, <2>1, OnwardsGood
  <2>2. ASSUME NEW u \in rows, pc[q] = "find", about' = [about EXCEPT ![q] = u],
               pc' = [pc EXCEPT ![q] = "session"], UNCHANGED <<op, addr, wish, copy, clashed>>
        PROVE  RequestsTyped' /\ Own(q)' /\ Alone(q) /\ Shared(q) /\ clashed' = clashed
    <3>1. RequestsTyped'
      BY ONLY <1>2, <1>6, <2>2, q \in Requests DEF RequestsTyped, Labels
    <3>2. pc'[q] = "session" /\ op'[q] = "oauth" /\ op[q] = "oauth" /\ about'[q] = u
      BY <2>2, <1>6 DEF OnPath, RequestsTyped
    <3>3. Own(q)'
      BY <2>2, <3>2, <1>2, <1>6 DEF Own, OnPath, Carries, AtUser
    <3>4. Alone(q)
      BY <2>2, <1>6 DEF Alone, RequestsTyped
    <3>5. Mine(q)' = Mine(q)
      <4>1. Mine(q) = {<<"insert", Nothing>>} /\ Mine(q)' = {<<"insert", Nothing>>}
        BY ONLY <3>2 DEF Mine, Needs
      <4> QED BY <4>1
    <3>6. Shared(q)
      BY <3>5, <2>2 DEF Shared, Inv, Solo
    <3> QED BY <2>2, <3>1, <3>3, <3>4, <3>6
  <2>3. CASE SuggestName(q)
    <3>1. PICK n \in Names : wish' = [wish EXCEPT ![q] = n]
      <4>1. wish = [wish EXCEPT ![q] = wish[q]] /\ wish[q] \in Names
        BY <2>3, <1>6 DEF RequestsTyped, OnPath, Carries
      <4> QED BY <2>3, <4>1
    <3>2. /\ pc' = [pc EXCEPT ![q] = "insert"] /\ pc[q] = "suggest"
          /\ UNCHANGED <<op, about, addr, copy, clashed>>
      BY <2>3
    <3>3. RequestsTyped'
      BY ONLY <1>2, <1>6, <3>1, <3>2, q \in Requests DEF RequestsTyped, Labels
    <3>4. Own(q)'
      BY <3>1, <3>2, <1>2, <1>6 DEF Own, OnPath, Carries, AtUser, RequestsTyped
    <3>5. Alone(q)
      BY <3>1, <3>2, <1>6 DEF Alone, RequestsTyped
    <3>6. Mine(q)' = Mine(q)
      BY <3>2 DEF Mine
    <3>7. Shared(q)
      BY <3>6, <3>2 DEF Shared, Inv, Solo
    <3> QED BY <3>2, <3>3, <3>4, <3>5, <3>7
  <2> QED BY <2>1, <2>2, <2>3
<1> QED BY ONLY <1>2, <1>3, <1>4, <1>5, <1>7, Inv DEF Good, Typed, Grows
-----------------------------------------------------------------------------
\* Statements on the table.
LEMMA InsertGood ==
    ASSUME Inv, NEW q \in Requests, Insert(q)
    PROVE  Good(q)
<1>1. OnPath(q) /\ Carries(q) /\ Typed
  BY DEF Inv, Own
<1>2. CASE Held(addr[q], wish[q])
  <2>1. Ends(q) /\ UNCHANGED <<users, keys, devices, limiter, failed, ghosts>>
    BY <1>2 DEF Insert, users, ghosts
  <2>2. rows' = rows /\ failed' = failed
    BY <2>1 DEF users
  <2>3. UsersTyped'
    BY <1>1, <2>1 DEF Typed, UsersTyped, users
  <2>4. KeysTyped'
    BY <1>1, <2>1 DEF Typed, KeysTyped, users, keys, limiter
  <2>5. GhostsTyped'
    BY <1>1, <2>1 DEF Typed, GhostsTyped, users, ghosts
  <2> QED BY <2>1, <2>2, <2>3, <2>4, <2>5, EndsGood DEF Good, Typed, Grows
<1>3. CASE ~Held(addr[q], wish[q])
  <2>1. PICK u \in Ids \ rows :
           /\ rows' = rows \cup {u}
           /\ email' = [email EXCEPT ![u] = addr[q]]
           /\ name' = [name EXCEPT ![u] = wish[q]]
           /\ password' = [password EXCEPT ![u] =
                 CASE op[q] = "verify" -> copy[q].by
                   [] op[q] = "register" -> q
                   [] op[q] = "oauth" -> Nothing]
           /\ about' = [about EXCEPT ![q] = u]
           /\ madeWith' = IF op[q] = "verify"
                          THEN [madeWith EXCEPT ![u] = copy[q].by] ELSE madeWith
    BY <1>3 DEF Insert
  <2>2. /\ pc[q] = "insert" /\ pc' = [pc EXCEPT ![q] = "settings"]
        /\ UNCHANGED <<op, addr, wish, copy, clashed>>
        /\ UNCHANGED <<deleted, disabled, equipped, renames, resting, keys, devices, limiter,
                       failed, spent, flipped, renamed, withheld>>
    BY <1>3 DEF Insert
  <2>3. op[q] \in {"verify", "register", "oauth"} /\ addr[q] \in Addresses /\ wish[q] \in Names
    BY <1>1, <2>2 DEF OnPath, Carries
  <2>4. op[q] = "verify" => copy[q].by \in Bringers
    BY <1>1 DEF Carries, Offers
  <2>5. PICK b \in Bringers \cup {Nothing} : password' = [password EXCEPT ![u] = b]
    <3>1. CASE op[q] = "verify"
      BY <2>1, <2>4, <3>1
    <3>2. CASE op[q] = "register"
      BY <2>1, <3>2 DEF Bringers
    <3>3. CASE op[q] = "oauth"
      BY <2>1, <3>3
    <3> QED BY <2>3, <3>1, <3>2, <3>3
  <2>6. UsersTyped'
    <3> USE DEF UsersTyped, Typed
    <3>1. rows' \subseteq Ids /\ deleted' \subseteq rows' /\ disabled' \subseteq rows'
          /\ resting' \subseteq rows'
      BY <1>1, <2>1, <2>2
    <3>2. email' \in [Ids -> Addresses \cup {Nothing}] /\ name' \in [Ids -> Names \cup {Nothing}]
      BY <1>1, <2>1, <2>3
    <3>3. password' \in [Ids -> Bringers \cup {Nothing}]
      BY <1>1, <2>5
    <3>4. \A v \in Ids \ rows' : email'[v] = Nothing /\ name'[v] = Nothing /\ password'[v] = Nothing
      BY <1>1, <2>1, <2>5
    <3> QED BY <1>1, <2>2, <3>1, <3>2, <3>3, <3>4
  <2>7. KeysTyped'
    BY <1>1, <2>1, <2>2 DEF Typed, KeysTyped, keys, limiter
  <2>8. GhostsTyped'
    BY <1>1, <2>1, <2>2, <2>4 DEF Typed, GhostsTyped
  <2>9. RequestsTyped'
    BY <1>1, <2>1, <2>2 DEF Typed, RequestsTyped, Labels
  <2>10. pc'[q] = "settings" /\ about'[q] = u /\ u \in rows'
    BY <1>1, <2>1, <2>2 DEF Typed, RequestsTyped
  <2>11. Own(q)'
    BY <1>1, <2>2, <2>3, <2>10 DEF Own, OnPath, Carries, AtUser
  <2>12. Alone(q)
    BY <1>1, <2>1, <2>2 DEF Alone, Typed, RequestsTyped
  <2>13. Mine(q)' = Mine(q)
    <3>1. CASE op[q] = "verify"
      BY <3>1, <2>2 DEF Mine, Needs
    <3>2. CASE op[q] \in {"register", "oauth"}
      <4>1. Mine(q) = {<<"insert", Nothing>>} /\ Mine(q)' = {<<"insert", Nothing>>}
        BY ONLY <3>2, <2>2 DEF Mine, Needs
      <4> QED BY <4>1
    <3> QED BY <2>3, <3>1, <3>2
  <2>14. Shared(q)
    BY <2>13, <2>2 DEF Shared, Inv, Solo
  <2>15. Grows
    BY <2>1, <2>2 DEF Grows
  <2> QED BY ONLY <2>6, <2>7, <2>8, <2>9, <2>11, <2>12, <2>14, <2>15 DEF Good, Typed
<1> QED BY <1>2, <1>3

LEMMA EquipGood ==
    ASSUME Inv, NEW q \in Requests, InsertSettings(q) \/ InsertCodes(q)
    PROVE  Good(q)
<1>1. OnPath(q) /\ Carries(q) /\ Typed
  BY DEF Inv, Own
<1>2. PICK thing \in {"settings", "codes"} : Equip(q, thing)
  BY DEF InsertSettings, InsertCodes
<1>3. /\ UNCHANGED <<rows, email, name, password, deleted, disabled, renames, resting, keys,
                     devices, limiter, ghosts>>
      /\ about[q] \in rows
  BY <1>1 DEF InsertSettings, InsertCodes, Carries, AtUser
<1>4. failed \subseteq failed' /\ equipped' \in [Ids -> SUBSET {"settings", "codes"}]
  BY <1>1, <1>2, <1>3 DEF Equip, Works, Fails, Typed, UsersTyped
<1>5. UsersTyped'
  BY ONLY <1>1, <1>3, <1>4 DEF Typed, UsersTyped
<1>6. KeysTyped'
  BY ONLY <1>1, <1>3 DEF Typed, KeysTyped, keys, limiter
<1>7. GhostsTyped'
  BY ONLY <1>1, <1>3 DEF Typed, GhostsTyped, ghosts
<1>8. RequestsTyped' /\ Own(q)' /\ Alone(q) /\ Shared(q) /\ clashed' = clashed
  <2>1. \/ pc[q] = "settings" /\ op[q] = "oauth" /\ Goto(q, "session")
        \/ pc[q] = "settings" /\ op[q] # "oauth" /\ Goto(q, "codes")
        \/ pc[q] = "codes" /\ op[q] = "verify" /\ Goto(q, "clear")
        \/ pc[q] = "codes" /\ op[q] # "verify" /\ Goto(q, "session")
    BY DEF InsertSettings, InsertCodes
  <2> QED BY ONLY Inv, q \in Requests, <1>3, <2>1, OnwardsGood
<1> QED BY ONLY <1>3, <1>4, <1>5, <1>6, <1>7, <1>8 DEF Good, Typed, Grows

\* Where the last statement, or the last but one, is an UPDATE.
LEMMA UpdateGood ==
    ASSUME Inv, NEW q \in Requests, WritePassword(q) \/ Rename(q) \/ LinkDevice(q) \/ Toggle(q)
    PROVE  Good(q)
<1>1. OnPath(q) /\ Carries(q) /\ Typed
  BY DEF Inv, Own
<1>2. rows' = rows /\ failed' = failed /\ about[q] \in rows
  BY <1>1 DEF WritePassword, Rename, LinkDevice, Toggle, users, Carries, AtUser
<1>3. RequestsTyped' /\ Own(q)' /\ Alone(q) /\ Shared(q) /\ clashed' = clashed
  <2>1. CASE Ends(q)
    BY <1>2, <2>1, EndsGood
  <2>2. CASE ~Ends(q)
    BY <1>2, <2>2, OnwardsGood DEF WritePassword, Rename, LinkDevice, Toggle
  <2> QED BY <2>1, <2>2
<1>4. KeysTyped'
  BY <1>1, <1>2 DEF WritePassword, Rename, LinkDevice, Toggle, Typed, KeysTyped, keys, limiter
<1>5. UsersTyped' /\ GhostsTyped'
  <2> USE DEF Typed, UsersTyped, GhostsTyped
  <2>1. CASE WritePassword(q)
    <3>1. op[q] = "complete" => copy[q] \in Requests
      BY <1>1 DEF Carries
    <3>2. UNCHANGED <<rows, email, name, deleted, disabled, equipped, renames, resting, devices>>
          /\ password' = [password EXCEPT ![about[q]] = q]
      BY <2>1 DEF WritePassword
    <3>3. UsersTyped'
      BY <1>1, <1>2, <3>2 DEF Bringers
    <3>4. GhostsTyped'
      BY <1>1, <2>1, <3>1 DEF WritePassword
    <3> QED BY <3>3, <3>4
  <2>2. CASE Rename(q)
    <3>1. wish[q] \in Names /\ copy[q] \in 0 .. MaxRenames - 1 /\ MaxRenames \in Nat
      BY <1>1, <2>2, AccountsAssumption DEF Rename, OnPath, Carries
    <3>2. /\ name' \in [Ids -> Names \cup {Nothing}]
          /\ \A v \in Ids \ rows : name'[v] = name[v]
      BY <1>1, <1>2, <2>2, <3>1 DEF Rename
    <3>3. renames' \in [Ids -> 0 .. MaxRenames] /\ resting' \subseteq rows
      BY <1>1, <1>2, <2>2, <3>1 DEF Rename
    <3>4. renamed' \in [Ids -> Nat] /\ withheld' \subseteq deleted
      BY <1>1, <1>2, <2>2 DEF Rename
    <3> QED BY <1>1, <2>2, <3>2, <3>3, <3>4 DEF Rename
  <2>3. CASE LinkDevice(q)
    <3>1. UNCHANGED <<users, ghosts>> /\ devices' = [devices EXCEPT ![about[q]] = @ \cup {q}]
      BY <2>3 DEF LinkDevice
    <3> QED BY <1>1, <1>2, <3>1 DEF users, ghosts
  <2>4. CASE Toggle(q)
    <3>1. disabled' \subseteq rows /\ flipped' \subseteq rows
      BY <1>1, <1>2, <2>4 DEF Toggle
    <3> QED BY <1>1, <2>4, <3>1 DEF Toggle
  <2> QED BY <2>1, <2>2, <2>3, <2>4
<1> QED BY ONLY <1>2, <1>3, <1>4, <1>5 DEF Good, Typed, Grows

LEMMA StepGood ==
    ASSUME Inv, NEW q \in Requests, Step(q)
    PROVE  Good(q)
BY CheckGood, KeysStepGood, OAuthGood, InsertGood, EquipGood, UpdateGood DEF Step

LEMMA InitInv == Init => Inv
<1> SUFFICES ASSUME Init
             PROVE  Inv
  OBVIOUS
<1>1. PICK S \in {{}} \cup {{u} : u \in Ids}, a \in Addresses, n \in Names :
         /\ rows = S
         /\ email = [v \in Ids |-> IF v \in S THEN a ELSE Nothing]
         /\ name = [v \in Ids |-> IF v \in S THEN n ELSE Nothing]
         /\ password = [v \in Ids |-> IF v \in S THEN Earlier ELSE Nothing]
         /\ equipped = [v \in Ids |-> IF v \in S THEN {"settings", "codes"} ELSE {}]
  BY DEF Init
<1>2. rows \subseteq Ids
  BY <1>1
<1>3. UsersTyped
  <2>1. /\ email \in [Ids -> Addresses \cup {Nothing}]
        /\ name \in [Ids -> Names \cup {Nothing}]
        /\ password \in [Ids -> Bringers \cup {Nothing}]
        /\ equipped \in [Ids -> SUBSET {"settings", "codes"}]
    BY <1>1 DEF Bringers
  <2>2. \A u \in Ids \ rows : email[u] = Nothing /\ name[u] = Nothing /\ password[u] = Nothing
    BY <1>1
  <2> QED BY <1>2, <2>1, <2>2, AccountsAssumption DEF Init, UsersTyped
<1>4. KeysTyped
  <2>1. pending \in [Addresses -> Offers \cup {Nothing}]
    <3>1. [name : Names, by : {Earlier}] \subseteq Offers
      BY DEF Offers, Bringers
    <3> QED BY <3>1 DEF Init
  <2>2. attempts \in 0 .. MaxAttempts + 1
    BY AccountsAssumption DEF Init
  <2> QED BY <2>1, <2>2 DEF Init, KeysTyped
<1>5. GhostsTyped
  BY DEF Init, GhostsTyped
<1>6. RequestsTyped
  BY DEF Init, RequestsTyped, Labels, Handlers, Copies
<1>7. \A q \in Requests : Own(q)
  BY DEF Init, Own, OnPath, Carries, AtUser
<1>8. Solo
  <2>1. \A q \in Requests : Mine(q) = {}
    BY IdleNeedsNothing DEF Init
  <2> QED BY <2>1 DEF Solo
<1> QED BY <1>3, <1>4, <1>5, <1>6, <1>7, <1>8 DEF Inv, Typed

\* Time takes keys away and lets a user rename again.
LEMMA TimeKeepsInv ==
    ASSUME Inv, TimePasses
    PROVE  Inv'
<1>1. UNCHANGED <<rows, email, name, password, deleted, disabled, equipped, renames, devices,
                  pc, request, failed, ghosts>>
  BY DEF TimePasses
<1>2. UsersTyped'
  <2>1. resting' \subseteq resting
    BY DEF TimePasses
  <2> QED BY <1>1, <2>1 DEF Inv, Typed, UsersTyped
<1>3. KeysTyped'
  <2>1. KeysTyped
    BY DEF Inv, Typed
  <2>2. pending' \in [Addresses -> Offers \cup {Nothing}] /\ cooling' \subseteq Addresses
    BY <2>1 DEF TimePasses, KeysTyped
  <2>3. session' \in [Requests -> rows \cup {Nothing}] /\ link' \in [Requests -> rows \cup {Nothing}]
    BY <2>1 DEF TimePasses, KeysTyped
  <2>4. attempts' \in 0 .. MaxAttempts + 1
    BY <2>1, AccountsAssumption DEF TimePasses, KeysTyped, limiter
  <2>5. ttl' = ttl \/ ttl' = FALSE
    BY DEF TimePasses, limiter
  <2>6. ttl' \in BOOLEAN
    BY <2>1, <2>5, Zenon DEF KeysTyped
  <2> QED BY <1>1, <2>2, <2>3, <2>4, <2>6 DEF KeysTyped
<1>4. GhostsTyped'
  BY <1>1 DEF Inv, Typed, GhostsTyped, ghosts
<1>5. RequestsTyped'
  BY <1>1 DEF Inv, Typed, RequestsTyped, request
<1>6. \A q \in Requests : Own(q)'
  BY <1>1 DEF Inv, Own, OnPath, Carries, request
<1>7. Solo'
  BY <1>1 DEF Inv, Solo, Mine, request
<1> QED BY <1>2, <1>3, <1>4, <1>5, <1>6, <1>7 DEF Inv, Typed

LEMMA StepKeepsInv == Inv /\ [Next]_vars => Inv'
<1> SUFFICES ASSUME Inv, [Next]_vars
             PROVE  Inv'
  OBVIOUS
<1>1. ASSUME NEW q \in Requests, Start(q) \/ Step(q)
      PROVE  Inv'
  BY <1>1, StartGood, StepGood, GoodKeepsInv
<1>2. CASE TimePasses
  BY <1>2, TimeKeepsInv
<1>3. CASE UNCHANGED vars
  <2>1. UsersTyped'
    BY <1>3 DEF vars, Inv, Typed, UsersTyped
  <2>2. KeysTyped' /\ GhostsTyped'
    BY <1>3 DEF vars, Inv, Typed, KeysTyped, GhostsTyped
  <2>3. RequestsTyped'
    BY <1>3 DEF vars, Inv, Typed, RequestsTyped
  <2>4. \A q \in Requests : Own(q)'
    BY <1>3 DEF vars, Inv, Own, OnPath, Carries
  <2>5. Solo'
    BY <1>3 DEF vars, Inv, Solo, Mine
  <2> QED BY <2>1, <2>2, <2>3, <2>4, <2>5 DEF Inv, Typed
<1> QED BY <1>1, <1>2, <1>3 DEF Next

LEMMA InvImpliesTypeOK == Inv => TypeOK
<1> SUFFICES ASSUME Inv
             PROVE  TypeOK
  OBVIOUS
<1>1. Typed
  BY DEF Inv
<1>2. \A q \in Requests : (op[q] # "none") = (q \in Running)
  <2> SUFFICES ASSUME NEW q \in Requests
               PROVE  (op[q] # "none") = (q \in Running)
    OBVIOUS
  <2>1. op[q] # "none" <=> pc[q] \notin {"idle", "done"}
    BY DEF Inv, Own, OnPath
  <2> QED BY <2>1 DEF Running
<1>3. \A q \in Requests :
         CASE op[q] = "verify"                  -> copy[q] \in Offers
           [] op[q] \in {"refresh", "complete"} -> copy[q] \in Requests
           [] op[q] = "change"                  -> copy[q] \in Bringers
           [] op[q] = "rename"                  -> copy[q] \in 0 .. MaxRenames - 1
           [] OTHER                             -> copy[q] = Nothing
  <2> SUFFICES ASSUME NEW q \in Requests
               PROVE  CASE op[q] = "verify"                  -> copy[q] \in Offers
                        [] op[q] \in {"refresh", "complete"} -> copy[q] \in Requests
                        [] op[q] = "change"                  -> copy[q] \in Bringers
                        [] op[q] = "rename"                  -> copy[q] \in 0 .. MaxRenames - 1
                        [] OTHER                             -> copy[q] = Nothing
    OBVIOUS
  <2>1. Carries(q)
    BY DEF Inv, Own
  <2> QED BY <2>1 DEF Carries
<1> QED BY <1>1, <1>2, <1>3 DEF Typed, UsersTyped, KeysTyped, GhostsTyped, RequestsTyped, TypeOK

\* Tables, keys and requests keep their types; a request is about something exactly while it
\* runs, and what it has read is what its handler reads.
THEOREM TypeCorrect == Spec => []TypeOK
<1>1. Init => Inv
  BY InitInv
<1>2. Inv /\ [Next]_vars => Inv'
  BY StepKeepsInv
<1>3. Inv => TypeOK
  BY InvImpliesTypeOK
<1> QED BY <1>1, <1>2, <1>3, PTL DEF Spec
-----------------------------------------------------------------------------
(* What every step of q does to its own request.                           *)

\* The first statement of each handler, or a handler of one statement.
FirstStatement(q) ==
    \/ op'[q] = "none" /\ pc'[q] = "done"
    \/ op'[q] \in {"init", "register"} /\ pc'[q] = "email"
    \/ op'[q] = "verify" /\ pc'[q] = "recheck"
    \/ op'[q] = "oauth" /\ pc'[q] = "find"
    \/ op'[q] = "login" /\ pc'[q] = "session"
    \/ op'[q] = "refresh" /\ pc'[q] = "drop"
    \/ op'[q] = "code" /\ pc'[q] = "expire"
    \/ op'[q] = "mail" /\ pc'[q] = "store"
    \/ op'[q] \in {"complete", "change", "reset"} /\ pc'[q] = "write"
    \/ op'[q] = "toggle" /\ pc'[q] \in {"enable", "disable"}
    \/ op'[q] = "link" /\ pc'[q] = "device"
    \/ op'[q] = "rename" /\ pc'[q] = "free"

LEMMA StartForm ==
    ASSUME Inv, NEW q \in Requests, Start(q)
    PROVE  /\ pc[q] = "idle" /\ op[q] = "none" /\ FirstStatement(q)
           /\ op'[q] = "verify" => \E a \in Addresses : StartVerify(q, a)
           /\ op'[q] = "complete" => \E t \in Requests : StartComplete(q, t)
           /\ op'[q] = "toggle" => \E u \in Ids : StartToggle(q, u)
           /\ op'[q] = "link" => \E u \in Ids : StartLink(q, u)
           /\ op'[q] = "rename" => \E u \in Ids, n \in Names : StartRename(q, u, n)
<1> DEFINE Form == /\ pc[q] = "idle" /\ FirstStatement(q)
                   /\ op'[q] = "verify" => \E a \in Addresses : StartVerify(q, a)
                   /\ op'[q] = "complete" => \E t \in Requests : StartComplete(q, t)
                   /\ op'[q] = "toggle" => \E u \in Ids : StartToggle(q, u)
                   /\ op'[q] = "link" => \E u \in Ids : StartLink(q, u)
                   /\ op'[q] = "rename" => \E u \in Ids, n \in Names : StartRename(q, u, n)
<1>1. pc \in [Requests -> Labels] /\ op \in [Requests -> Handlers]
  BY DEF Inv, Typed, RequestsTyped
<1>2. ASSUME NEW handler, NEW label, NEW u, NEW a, NEW n, NEW c,
             Starts(q, handler, label, u, a, n, c)
      PROVE  pc[q] = "idle" /\ pc'[q] = label /\ op'[q] = handler
  BY ONLY <1>1, <1>2, q \in Requests DEF Starts
<1>3. AtOnce(q) => Form
  <2> SUFFICES ASSUME AtOnce(q)
               PROVE  Form
    OBVIOUS
  <2>1. pc[q] = "idle" /\ pc'[q] = "done" /\ op'[q] = op[q]
    BY ONLY <1>1, AtOnce(q), q \in Requests DEF AtOnce
  <2>2. op[q] = "none"
    BY <2>1 DEF Inv, Own, OnPath
  <2> QED BY <2>1, <2>2 DEF FirstStatement
<1>4. ASSUME NEW a \in Addresses, NEW n \in Names,
             StartRegisterInit(q, a, n) \/ StartRegister(q, a, n) \/ StartOAuth(q, a, n)
      PROVE  Form
  BY ONLY <1>2, <1>4 DEF StartRegisterInit, StartRegister, StartOAuth, FirstStatement
<1>5. ASSUME NEW a \in Addresses, StartVerify(q, a)
      PROVE  Form
  <2>1. pc[q] = "idle" /\ pc'[q] = "recheck" /\ op'[q] = "verify"
    BY ONLY <1>2, <1>5 DEF StartVerify
  <2> QED BY <1>5, <2>1 DEF FirstStatement
<1>6. ASSUME NEW t \in Requests, StartRefresh(q, t)
      PROVE  Form
  BY ONLY <1>2, <1>6 DEF StartRefresh, FirstStatement
<1>7. ASSUME NEW t \in Requests, StartComplete(q, t)
      PROVE  Form
  <2>1. pc[q] = "idle" /\ pc'[q] = "write" /\ op'[q] = "complete"
    BY ONLY <1>2, <1>7 DEF StartComplete
  <2> QED BY <1>7, <2>1 DEF FirstStatement
<1>8. ASSUME StartRecover(q)
      PROVE  Form
  <2>1. \/ Starts(q, "code", "expire", Nothing, Nothing, Nothing, Nothing)
        \/ AtOnce(q)
    BY ONLY <1>8 DEF StartRecover
  <2> QED BY ONLY <1>2, <1>3, <2>1 DEF FirstStatement
<1>9. ASSUME NEW u \in Ids, StartLogin(q, u) \/ StartRecoverEmail(q, u) \/ StartReset(q, u)
      PROVE  Form
  BY ONLY <1>2, <1>9 DEF StartLogin, StartRecoverEmail, StartReset, FirstStatement
<1>10. ASSUME NEW u \in Ids, StartLink(q, u)
       PROVE  Form
  <2>1. pc[q] = "idle" /\ pc'[q] = "device" /\ op'[q] = "link"
    BY ONLY <1>2, <1>10 DEF StartLink
  <2> QED BY <1>10, <2>1 DEF FirstStatement
<1>11. ASSUME NEW u \in Ids, StartToggle(q, u)
       PROVE  Form
  <2>1. pc[q] = "idle" /\ pc'[q] \in {"enable", "disable"} /\ op'[q] = "toggle"
    BY ONLY <1>2, <1>11 DEF StartToggle
  <2> QED BY <1>11, <2>1 DEF FirstStatement
<1>12. ASSUME NEW u \in Ids, NEW old \in Bringers, StartChange(q, u, old)
       PROVE  Form
  BY ONLY <1>2, <1>12 DEF StartChange, FirstStatement
<1>13. ASSUME NEW u \in Ids, NEW n \in Names, StartRename(q, u, n)
       PROVE  Form
  <2>1. pc[q] = "idle" /\ pc'[q] = "free" /\ op'[q] = "rename"
    BY ONLY <1>2, <1>13 DEF StartRename
  <2> QED BY <1>13, <2>1 DEF FirstStatement
<1>14. ASSUME NEW u \in Ids,
              \/ DeleteAccount(q, u) \/ BatchDelete(q, u)
              \/ \E d \in Requests : RevokeDevice(q, u, d)
       PROVE  Form
  BY ONLY <1>3, <1>14 DEF DeleteAccount, BatchDelete, Delete, RevokeDevice
<1>15. Form
  BY <1>4, <1>5, <1>6, <1>7, <1>8, <1>9, <1>10, <1>11, <1>12, <1>13, <1>14 DEF Start
<1>16. op[q] = "none"
  BY <1>15 DEF Inv, Own, OnPath
<1> QED BY <1>15, <1>16

LEMMA StepForm ==
    ASSUME Inv, NEW q \in Requests, Step(q)
    PROVE  /\ op[q] # "none" /\ pc[q] # "idle" /\ clashed' = clashed
           /\ \/ /\ op'[q] = op[q] /\ addr'[q] = addr[q] /\ copy'[q] = copy[q]
                 /\ about'[q] = about[q] \/ pc[q] \in {"insert", "find"}
              \/ op'[q] = "none" /\ pc'[q] = "done"
<1>1. OnPath(q)
  BY DEF Inv, Own
<1>2. pc[q] \notin {"idle", "done"}
  BY DEF Step, CheckEmail, CheckName, CheckCooldown, StorePending, StartCooldown, Recheck,
         OAuth, FindAccount, SuggestName, Insert, InsertSettings, InsertCodes, ClearPending,
         ClearCooldown, StoreSession, RefreshDrops, ExpireAttempts, StoreLink, WritePassword,
         DeleteLink, CheckNameFree, Rename, LinkDevice, Toggle
<1>3. \/ Ends(q)
      \/ \E label \in Labels : Goto(q, label)
      \/ /\ pc[q] \in {"insert", "find"}
         /\ UNCHANGED <<op, addr, wish, copy, clashed>>
      \/ UNCHANGED <<op, about, addr, copy, clashed>>
  <2>1. {"name", "cooldown", "insert", "pend", "cool", "codes", "session", "clear", "uncool",
         "suggest", "unlink", "rename"} \subseteq Labels
    BY DEF Labels
  <2> QED
    BY <2>1
       DEF Step, CheckEmail, CheckName, CheckCooldown, StorePending, StartCooldown, Recheck,
           OAuth, FindAccount, SuggestName, Insert, InsertSettings, InsertCodes, ClearPending,
           ClearCooldown, StoreSession, RefreshDrops, ExpireAttempts, StoreLink, WritePassword,
           DeleteLink, CheckNameFree, Rename, LinkDevice, Toggle
<1>4. op[q] # "none" /\ pc[q] # "idle"
  BY <1>1, <1>2 DEF OnPath
<1>5. CASE Ends(q)
  BY <1>4, <1>5, EndsGood DEF Ends, Inv, Typed, RequestsTyped
<1>6. CASE \E label \in Labels : Goto(q, label)
  BY <1>4, <1>6 DEF Goto, request
<1> QED BY <1>3, <1>4, <1>5, <1>6

-----------------------------------------------------------------------------
(* Disabled as ordered.  What a toggle has read about its user is still so *)
(* unless another toggle or a deletion of that user ran beside it.         *)

ActiveInv ==
    /\ ActiveAsOrdered
    /\ \A q \in Requests :
          op[q] = "toggle" /\ <<"active", about[q]>> \notin clashed
             => about[q] \notin deleted /\ (pc[q] = "enable" <=> about[q] \in disabled)

LEMMA TogglesClash ==
    ASSUME Solo, NEW p \in Requests, NEW q \in Requests, p # q,
           op[p] = "toggle", op[q] = "toggle", about[p] = about[q]
    PROVE  <<"active", about[q]>> \in clashed
<1>1. Mine(p) = {<<"active", about[q]>>} /\ Mine(q) = {<<"active", about[q]>>}
  BY DEF Mine, Needs
<1> QED BY <1>1 DEF Solo

\* The other statements leave both sides alone.
LEMMA OthersSpareActive ==
    ASSUME Inv, NEW q \in Requests, Start(q) \/ Step(q)
    PROVE  \/ UNCHANGED <<disabled, deleted, flipped>> /\ op'[q] # "toggle"
           \/ \E u \in Ids : StartToggle(q, u)
           \/ \E u \in Ids : Delete(q, u)
           \/ Toggle(q)
<1>1. CASE Start(q)
  <2>1. \/ \E u \in Ids : Delete(q, u)
        \/ UNCHANGED <<disabled, deleted, flipped>>
    BY <1>1
       DEF Start, StartRegisterInit, StartRegister, StartOAuth, StartVerify, StartRefresh,
           StartComplete, StartLogin, StartRecoverEmail, StartReset, StartLink, StartToggle,
           DeleteAccount, BatchDelete, StartChange, StartRename, RevokeDevice, StartRecover,
           users, ghosts
  <2> QED BY <1>1, <2>1, StartForm
<1>2. CASE Step(q)
  <2>1. Toggle(q) \/ UNCHANGED <<disabled, deleted, flipped>>
    BY <1>2
       DEF Step, CheckEmail, CheckName, CheckCooldown, StorePending, StartCooldown, Recheck,
           OAuth, FindAccount, SuggestName, Insert, InsertSettings, InsertCodes, ClearPending,
           ClearCooldown, StoreSession, RefreshDrops, ExpireAttempts, StoreLink, WritePassword,
           DeleteLink, CheckNameFree, Rename, LinkDevice, users, ghosts
  <2>2. pc[q] \in {"enable", "disable"} => Toggle(q)
    BY <1>2
       DEF Step, CheckEmail, CheckName, CheckCooldown, StorePending, StartCooldown, Recheck,
           OAuth, FindAccount, SuggestName, Insert, InsertSettings, InsertCodes, ClearPending,
           ClearCooldown, StoreSession, RefreshDrops, ExpireAttempts, StoreLink, WritePassword,
           DeleteLink, CheckNameFree, Rename, LinkDevice
  <2>3. op[q] = "toggle" => pc[q] \in {"enable", "disable"}
    BY DEF Inv, Own, OnPath
  <2>4. op'[q] = op[q] \/ op'[q] = "none"
    BY <1>2, StepForm
  <2> QED BY <2>1, <2>2, <2>3, <2>4
<1> QED BY <1>1, <1>2

LEMMA StepKeepsActive ==
    ASSUME Inv, Inv', ActiveInv, NEW q \in Requests, Start(q) \/ Step(q)
    PROVE  ActiveInv'
<1>1. Alone(q) /\ Grows
  BY StartGood, StepGood DEF Good
<1>2. deleted \subseteq rows /\ disabled \subseteq rows /\ flipped \subseteq rows
  BY DEF Inv, Typed, UsersTyped, GhostsTyped
<1>3. \A p \in Requests \ {q} : pc'[p] = pc[p] /\ op'[p] = op[p] /\ about'[p] = about[p]
  BY <1>1 DEF Alone
<1>4. CASE UNCHANGED <<disabled, deleted, flipped>> /\ op'[q] # "toggle"
  <2>1. ActiveAsOrdered'
    BY <1>1, <1>2, <1>4 DEF ActiveInv, ActiveAsOrdered, Grows
  <2> QED BY <1>1, <1>3, <1>4, <2>1 DEF ActiveInv, Grows
<1>5. ASSUME NEW u \in Ids, StartToggle(q, u)
      PROVE  ActiveInv'
  <2>1. /\ UNCHANGED <<rows, disabled, deleted, flipped>> /\ u \in rows \ deleted
        /\ Starts(q, "toggle", IF u \in disabled THEN "enable" ELSE "disable", u,
                  Nothing, Nothing, Nothing)
    BY <1>5 DEF StartToggle, users, ghosts
  <2>2. about'[q] = u /\ pc'[q] = IF u \in disabled THEN "enable" ELSE "disable"
    BY <2>1 DEF Starts, Inv, Typed, RequestsTyped
  <2>3. ActiveAsOrdered'
    BY <1>1, <2>1 DEF ActiveInv, ActiveAsOrdered, Grows
  <2> QED BY <1>1, <1>3, <2>1, <2>2, <2>3 DEF ActiveInv, Grows
<1>6. ASSUME NEW u \in Ids, Delete(q, u)
      PROVE  ActiveInv'
  <2>1. /\ UNCHANGED <<rows, flipped>> /\ deleted' = deleted \cup {u}
        /\ disabled' = disabled \cup {u}
        /\ clashed' = clashed \cup ({<<"active", u>>} \cap Needed)
        /\ op'[q] # "toggle"
    BY <1>6 DEF Delete, AtOnce, Inv, Own, OnPath
  <2>2. ActiveAsOrdered'
    BY <1>1, <2>1 DEF ActiveInv, ActiveAsOrdered, Grows
  <2>3. ASSUME NEW p \in Requests, op'[p] = "toggle", <<"active", about'[p]>> \notin clashed'
        PROVE  about'[p] \notin deleted' /\ (pc'[p] = "enable" <=> about'[p] \in disabled')
    <3>1. p # q
      BY <2>1, <2>3
    <3>2. op[p] = "toggle" /\ about'[p] = about[p] /\ pc'[p] = pc[p]
      BY <1>3, <2>3, <3>1
    <3>3. <<"active", about[p]>> \in Mine(p)
      BY <3>2 DEF Mine, Needs
    <3>4. about[p] # u
      BY <3>2, <3>3, <2>1, <2>3, RunningNeeds
    <3> QED BY <1>1, <2>1, <2>3, <3>2, <3>4 DEF ActiveInv, Grows
  <2> QED BY <2>2, <2>3 DEF ActiveInv
<1>7. CASE Toggle(q)
  <2>1. /\ UNCHANGED <<rows, deleted>> /\ clashed' = clashed /\ op'[q] = "none" /\ op[q] = "toggle"
        /\ pc[q] \in {"enable", "disable"} /\ about[q] \in rows
        /\ disabled' = IF pc[q] = "enable"
                       THEN disabled \ {about[q]} ELSE disabled \cup {about[q]}
        /\ flipped' = (flipped \cup {about[q]}) \ (flipped \cap {about[q]})
    BY <1>7, EndsGood DEF Toggle, Inv, Own, OnPath, Carries, AtUser
  <2>2. ActiveAsOrdered'
    <3> SUFFICES ASSUME NEW v \in rows, <<"active", v>> \notin clashed
                 PROVE  v \in disabled' <=> v \in flipped' \cup deleted
      BY <2>1 DEF ActiveAsOrdered
    <3>1. v \in disabled <=> v \in flipped \cup deleted
      BY DEF ActiveInv, ActiveAsOrdered
    <3>2. CASE v = about[q]
      <4>1. v \notin deleted /\ (pc[q] = "enable" <=> v \in disabled)
        BY <2>1, <3>2 DEF ActiveInv
      <4> QED BY <2>1, <3>1, <3>2, <4>1
    <3>3. CASE v # about[q]
      BY <2>1, <3>1, <3>3
    <3> QED BY <3>2, <3>3
  <2>3. ASSUME NEW p \in Requests, op'[p] = "toggle", <<"active", about'[p]>> \notin clashed'
        PROVE  about'[p] \notin deleted' /\ (pc'[p] = "enable" <=> about'[p] \in disabled')
    <3>1. p # q
      BY <2>1, <2>3
    <3>2. op[p] = "toggle" /\ about'[p] = about[p] /\ pc'[p] = pc[p]
      BY <1>3, <2>3, <3>1
    <3>3. about[p] # about[q]
      BY <2>1, <2>3, <3>1, <3>2, TogglesClash DEF Inv
    <3> QED BY <2>1, <2>3, <3>2, <3>3 DEF ActiveInv
  <2> QED BY <2>2, <2>3 DEF ActiveInv
<1> QED BY <1>4, <1>5, <1>6, <1>7, OthersSpareActive

\* An account is disabled if it was toggled an odd number of times or is deleted, unless two
\* of these requests overlapped.
THEOREM DisabledAsOrdered == Spec => []ActiveAsOrdered
<1>1. Init => Inv /\ ActiveInv
  BY InitInv DEF Init, ActiveInv, ActiveAsOrdered
<1>2. Inv /\ ActiveInv /\ [Next]_vars => Inv' /\ ActiveInv'
  <2> SUFFICES ASSUME Inv, ActiveInv, [Next]_vars
               PROVE  ActiveInv'
    BY StepKeepsInv
  <2>1. Inv'
    BY StepKeepsInv
  <2>2. CASE TimePasses \/ UNCHANGED vars
    BY <2>2 DEF TimePasses, vars, request, ghosts, ActiveInv, ActiveAsOrdered
  <2> QED BY <2>1, <2>2, StepKeepsActive DEF Next
<1>3. ActiveInv => ActiveAsOrdered
  BY DEF ActiveInv
<1> QED BY <1>1, <1>2, <1>3, PTL DEF Spec
-----------------------------------------------------------------------------
(* Limits.  What a rename or the linking of a device has read is still so, *)
(* unless another one of that user ran beside it.                          *)

LimitInv ==
    /\ \A u \in Ids : <<"name", u>> \notin clashed => renamed[u] = renames[u]
    /\ \A u \in Ids : <<"devices", u>> \notin clashed => Cardinality(devices[u]) <= MaxDevices
    /\ \A q \in Requests :
          /\ op[q] = "rename" /\ <<"name", about[q]>> \notin clashed => copy[q] = renames[about[q]]
          /\ op[q] = "link" /\ <<"devices", about[q]>> \notin clashed
                => Cardinality(devices[about[q]]) < MaxDevices

LEMMA RenamesClash ==
    ASSUME Solo, NEW p \in Requests, NEW q \in Requests, p # q,
           op[p] = "rename", op[q] = "rename", about[p] = about[q]
    PROVE  <<"name", about[q]>> \in clashed
<1>1. <<"name", about[q]>> \in Mine(p) /\ <<"name", about[q]>> \in Mine(q)
  BY DEF Mine, Needs
<1> QED BY <1>1 DEF Solo

LEMMA LinksClash ==
    ASSUME Solo, NEW p \in Requests, NEW q \in Requests, p # q,
           op[p] = "link", op[q] = "link", about[p] = about[q]
    PROVE  <<"devices", about[q]>> \in clashed
<1>1. <<"devices", about[q]>> \in Mine(p) /\ <<"devices", about[q]>> \in Mine(q)
  BY DEF Mine, Needs
<1> QED BY <1>1 DEF Solo

\* The other statements leave the counts alone.
LEMMA OthersSpareLimits ==
    ASSUME Inv, NEW q \in Requests, Start(q) \/ Step(q)
    PROVE  \/ /\ UNCHANGED <<renames, renamed, devices>> /\ op'[q] # "link"
              /\ op'[q] = "rename"
                    => op[q] = "rename" /\ about'[q] = about[q] /\ copy'[q] = copy[q]
           \/ \E u \in Ids, n \in Names : StartRename(q, u, n)
           \/ \E u \in Ids : StartLink(q, u)
           \/ \E u \in Ids, d \in Requests : RevokeDevice(q, u, d)
           \/ Rename(q) \/ LinkDevice(q)
<1>1. CASE Start(q)
  <2>1. \/ \E u \in Ids, d \in Requests : RevokeDevice(q, u, d)
        \/ UNCHANGED <<renames, renamed, devices>>
    BY <1>1
       DEF Start, StartRegisterInit, StartRegister, StartOAuth, StartVerify, StartRefresh,
           StartComplete, StartLogin, StartRecoverEmail, StartReset, StartLink, StartToggle,
           DeleteAccount, BatchDelete, Delete, StartChange, StartRename, StartRecover,
           users, ghosts
  <2> QED BY <1>1, <2>1, StartForm
<1>2. CASE Step(q)
  <2>1. Rename(q) \/ LinkDevice(q) \/ UNCHANGED <<renames, renamed, devices>>
    BY <1>2
       DEF Step, CheckEmail, CheckName, CheckCooldown, StorePending, StartCooldown, Recheck,
           OAuth, FindAccount, SuggestName, Insert, InsertSettings, InsertCodes, ClearPending,
           ClearCooldown, StoreSession, RefreshDrops, ExpireAttempts, StoreLink, WritePassword,
           DeleteLink, CheckNameFree, Toggle, users, ghosts
  <2>2. pc[q] = "device" => LinkDevice(q)
    BY <1>2
       DEF Step, CheckEmail, CheckName, CheckCooldown, StorePending, StartCooldown, Recheck,
           OAuth, FindAccount, SuggestName, Insert, InsertSettings, InsertCodes, ClearPending,
           ClearCooldown, StoreSession, RefreshDrops, ExpireAttempts, StoreLink, WritePassword,
           DeleteLink, CheckNameFree, Rename, Toggle
  <2>3. op[q] = "link" => pc[q] = "device"
    BY DEF Inv, Own, OnPath
  <2>4. op[q] = "rename" => pc[q] \notin {"insert", "find"}
    BY DEF Inv, Own, OnPath
  <2> QED BY <1>2, <2>1, <2>2, <2>3, <2>4, StepForm
<1> QED BY <1>1, <1>2

\* Devices are requests, of which there are finitely many.
LEMMA DevicesFinite ==
    ASSUME Inv, NEW u \in Ids
    PROVE  IsFiniteSet(devices[u]) /\ Cardinality(devices[u]) \in Nat
<1>1. devices[u] \in SUBSET Requests
  BY DEF Inv, Typed, UsersTyped
<1>2. IsFiniteSet(devices[u])
  BY <1>1, AccountsAssumption, FS_Subset
<1> QED BY <1>2, FS_CardinalityType

\* One more device is at most one more.
LEMMA OneMore ==
    ASSUME NEW S, IsFiniteSet(S), NEW x
    PROVE  /\ Cardinality(S \cup {x}) \in Nat /\ Cardinality(S) \in Nat
           /\ Cardinality(S \cup {x}) <= Cardinality(S) + 1
<1>1. /\ IsFiniteSet(S \cup {x})
      /\ Cardinality(S \cup {x}) = IF x \in S THEN Cardinality(S) ELSE Cardinality(S) + 1
  BY FS_AddElement
<1>2. Cardinality(S) \in Nat
  BY FS_CardinalityType
<1> QED BY <1>1, <1>2

LEMMA StepKeepsLimits ==
    ASSUME Inv, Inv', LimitInv, NEW q \in Requests, Start(q) \/ Step(q)
    PROVE  LimitInv'
<1>1. Alone(q) /\ clashed \subseteq clashed'
  BY StartGood, StepGood DEF Good, Grows
<1>2. \A p \in Requests \ {q} : op'[p] = op[p] /\ about'[p] = about[p] /\ copy'[p] = copy[p]
  BY <1>1 DEF Alone
<1>3. CASE /\ UNCHANGED <<renames, renamed, devices>> /\ op'[q] # "link"
           /\ op'[q] = "rename"
                 => op[q] = "rename" /\ about'[q] = about[q] /\ copy'[q] = copy[q]
  BY <1>1, <1>2, <1>3 DEF LimitInv
<1>4. ASSUME NEW u \in Ids, NEW n \in Names, StartRename(q, u, n)
      PROVE  LimitInv'
  <2>1. /\ UNCHANGED <<renames, renamed, devices>>
        /\ op'[q] = "rename" /\ about'[q] = u /\ copy'[q] = renames[u]
    BY <1>4 DEF StartRename, Starts, users, ghosts, Inv, Typed, RequestsTyped
  <2> QED BY <1>1, <1>2, <2>1 DEF LimitInv
<1>5. ASSUME NEW u \in Ids, StartLink(q, u)
      PROVE  LimitInv'
  <2>1. /\ UNCHANGED <<renames, renamed, devices>> /\ Cardinality(devices[u]) < MaxDevices
        /\ op'[q] = "link" /\ about'[q] = u
    BY <1>5 DEF StartLink, MayLink, Starts, users, ghosts, Inv, Typed, RequestsTyped
  <2> QED BY <1>1, <1>2, <2>1 DEF LimitInv
<1>6. ASSUME NEW u \in Ids, NEW d \in Requests, RevokeDevice(q, u, d)
      PROVE  LimitInv'
  <2>1. /\ UNCHANGED <<renames, renamed>> /\ devices' = [devices EXCEPT ![u] = @ \ {d}]
        /\ op'[q] = "none"
    BY <1>6, AtOnceGood DEF RevokeDevice, AtOnce, users, ghosts, Inv, Own, OnPath
  <2>2. \A v \in Ids : devices'[v] \subseteq devices[v]
    BY <2>1 DEF Inv, Typed, UsersTyped
  <2>3. \A v \in Ids : /\ Cardinality(devices'[v]) <= Cardinality(devices[v])
                       /\ Cardinality(devices'[v]) \in Nat /\ Cardinality(devices[v]) \in Nat
    BY <2>2, DevicesFinite, FS_Subset, FS_CardinalityType
  <2>4. \A v \in Ids : <<"devices", v>> \notin clashed' => Cardinality(devices'[v]) <= MaxDevices
    BY <1>1, <2>3, AccountsAssumption DEF LimitInv
  <2>5. ASSUME NEW p \in Requests, op'[p] = "link", <<"devices", about'[p]>> \notin clashed'
        PROVE  Cardinality(devices'[about'[p]]) < MaxDevices
    <3>1. p # q /\ op[p] = "link" /\ about'[p] = about[p]
      BY <1>2, <2>1, <2>5
    <3>2. about[p] \in Ids
      BY <3>1 DEF Inv, Typed, UsersTyped, Own, OnPath, Carries, AtUser
    <3>3. Cardinality(devices[about[p]]) < MaxDevices
      BY <1>1, <2>5, <3>1 DEF LimitInv
    <3> QED BY <2>3, <3>1, <3>2, <3>3, AccountsAssumption
  <2>6. \A v \in Ids : <<"name", v>> \notin clashed' => renamed'[v] = renames'[v]
    BY <1>1, <2>1 DEF LimitInv
  <2>7. ASSUME NEW p \in Requests, op'[p] = "rename", <<"name", about'[p]>> \notin clashed'
        PROVE  copy'[p] = renames'[about'[p]]
    BY <1>1, <1>2, <2>1, <2>7 DEF LimitInv
  <2> QED BY ONLY <2>4, <2>5, <2>6, <2>7 DEF LimitInv
<1>7. CASE Rename(q)
  <2>1. /\ UNCHANGED devices /\ clashed' = clashed /\ op'[q] = "none" /\ op[q] = "rename"
        /\ about[q] \in Ids /\ copy[q] \in Nat
    BY <1>7, EndsGood, AccountsAssumption
       DEF Rename, Inv, Typed, UsersTyped, Own, OnPath, Carries, AtUser
  <2>2. CASE UNCHANGED <<renames, renamed>>
    BY <1>1, <1>2, <2>1, <2>2 DEF LimitInv
  <2>3. CASE ~UNCHANGED <<renames, renamed>>
    <3>1. /\ renames' = [renames EXCEPT ![about[q]] = copy[q] + 1]
          /\ renamed' = [renamed EXCEPT ![about[q]] = @ + 1]
      BY <1>7, <2>3 DEF Rename
    <3>2. \A u \in Ids : <<"name", u>> \notin clashed => renamed'[u] = renames'[u]
      BY <2>1, <3>1 DEF LimitInv, Inv, Typed, UsersTyped, GhostsTyped
    <3>3. ASSUME NEW p \in Requests, op'[p] = "rename", <<"name", about'[p]>> \notin clashed
          PROVE  copy'[p] = renames'[about'[p]]
      <4>1. /\ p # q /\ op[p] = "rename" /\ about'[p] = about[p] /\ copy'[p] = copy[p]
        BY <1>2, <2>1, <3>3
      <4>2. about[p] # about[q]
        BY <2>1, <3>3, <4>1, RenamesClash DEF Inv
      <4>3. about[p] \in Ids
        BY <4>1 DEF Inv, Typed, UsersTyped, Own, OnPath, Carries, AtUser
      <4> QED BY <3>1, <3>3, <4>1, <4>2, <4>3 DEF LimitInv, Inv, Typed, UsersTyped
    <3> QED BY <1>1, <1>2, <2>1, <3>2, <3>3 DEF LimitInv
  <2> QED BY <2>2, <2>3
<1>8. CASE LinkDevice(q)
  <2>1. /\ UNCHANGED <<renames, renamed>> /\ clashed' = clashed
        /\ op'[q] = "none" /\ op[q] = "link" /\ about[q] \in Ids
        /\ devices' = [devices EXCEPT ![about[q]] = @ \cup {q}]
    BY <1>8, EndsGood
       DEF LinkDevice, users, ghosts, Inv, Typed, UsersTyped, Own, OnPath, Carries, AtUser
  <2>2. devices'[about[q]] = devices[about[q]] \cup {q}
    BY <2>1 DEF Inv, Typed, UsersTyped
  <2>3. IsFiniteSet(devices[about[q]])
    BY <2>1, DevicesFinite
  <2>4. /\ Cardinality(devices'[about[q]]) <= Cardinality(devices[about[q]]) + 1
        /\ Cardinality(devices'[about[q]]) \in Nat /\ Cardinality(devices[about[q]]) \in Nat
    BY ONLY <2>2, <2>3, OneMore
  <2>5. \A u \in Ids : <<"devices", u>> \notin clashed => Cardinality(devices'[u]) <= MaxDevices
    <3> SUFFICES ASSUME NEW u \in Ids, <<"devices", u>> \notin clashed
                 PROVE  Cardinality(devices'[u]) <= MaxDevices
      OBVIOUS
    <3>1. CASE u = about[q]
      <4>1. Cardinality(devices[about[q]]) < MaxDevices
        BY <2>1, <3>1 DEF LimitInv
      <4> QED BY ONLY <2>4, <3>1, <4>1, AccountsAssumption
    <3>2. CASE u # about[q]
      BY <2>1, <3>2 DEF LimitInv, Inv, Typed, UsersTyped
    <3> QED BY <3>1, <3>2
  <2>6. ASSUME NEW p \in Requests, op'[p] = "link", <<"devices", about'[p]>> \notin clashed
        PROVE  Cardinality(devices'[about'[p]]) < MaxDevices
    <3>1. p # q /\ op[p] = "link" /\ about'[p] = about[p]
      BY <1>2, <2>1, <2>6
    <3>2. about[p] # about[q]
      BY <2>1, <2>6, <3>1, LinksClash DEF Inv
    <3>3. about[p] \in Ids
      BY <3>1 DEF Inv, Typed, UsersTyped, Own, OnPath, Carries, AtUser
    <3>4. devices'[about[p]] = devices[about[p]]
      BY <2>1, <3>2, <3>3 DEF Inv, Typed, UsersTyped
    <3> QED BY <2>6, <3>1, <3>4 DEF LimitInv
  <2> QED BY <1>1, <1>2, <2>1, <2>5, <2>6 DEF LimitInv
<1> QED BY <1>3, <1>4, <1>5, <1>6, <1>7, <1>8, OthersSpareLimits

\* A user changes the name no more often than allowed and has no more active devices than
\* allowed, unless two changes overlapped or two devices were linked at the same time.
THEOREM LimitsKept == Spec => []LimitsHold
<1>1. Init => Inv /\ LimitInv
  <2> SUFFICES ASSUME Init
               PROVE  LimitInv
    BY InitInv
  <2>1. \A u \in Ids : renamed[u] = renames[u] /\ devices[u] = {}
    BY DEF Init
  <2>2. \A q \in Requests : op[q] = "none"
    BY DEF Init
  <2>3. Cardinality({}) <= MaxDevices
    BY FS_EmptySet, AccountsAssumption
  <2>4. \A u \in Ids : Cardinality(devices[u]) <= MaxDevices
    BY ONLY <2>1, <2>3
  <2> QED BY <2>1, <2>2, <2>4 DEF LimitInv
<1>2. Inv /\ LimitInv /\ [Next]_vars => Inv' /\ LimitInv'
  <2> SUFFICES ASSUME Inv, LimitInv, [Next]_vars
               PROVE  LimitInv'
    BY StepKeepsInv
  <2>1. Inv'
    BY StepKeepsInv
  <2>2. CASE TimePasses \/ UNCHANGED vars
    BY <2>2 DEF TimePasses, vars, request, ghosts, LimitInv
  <2> QED BY <2>1, <2>2, StepKeepsLimits DEF Next
<1>3. Inv /\ LimitInv => LimitsHold
  <2> SUFFICES ASSUME Inv, LimitInv, NEW u \in Ids
               PROVE  /\ renamed[u] <= MaxRenames \/ <<"name", u>> \in clashed
                      /\ Cardinality(devices[u]) <= MaxDevices \/ <<"devices", u>> \in clashed
    BY DEF LimitsHold
  <2>1. renames[u] <= MaxRenames
    BY AccountsAssumption DEF Inv, Typed, UsersTyped
  <2> QED BY <2>1 DEF LimitInv
<1> QED BY <1>1, <1>2, <1>3, PTL DEF Spec

-----------------------------------------------------------------------------
(* Attempts.                                                               *)

\* A count that does not expire yet waits for a request to say so.
LEMMA StepKeepsLockout ==
    ASSUME Inv, LockoutEnds, NEW q \in Requests, Start(q) \/ Step(q)
    PROVE  LockoutEnds'
<1>1. Alone(q) /\ failed \subseteq failed'
  BY StartGood, StepGood DEF Good, Grows
<1>2. \A p \in Requests \ {q} : pc'[p] = pc[p]
  BY <1>1 DEF Alone
<1>3. attempts \in Nat
  BY AccountsAssumption DEF Inv, Typed, KeysTyped
<1>4. CASE StartRecover(q)
  <2>1. CASE FirstAttempt
    <3>1. pc'[q] = "expire"
      BY <1>4, <2>1 DEF StartRecover, Starts, Inv, Typed, RequestsTyped
    <3> QED BY <3>1 DEF LockoutEnds
  <2>2. CASE ~FirstAttempt
    <3>1. attempts > 0 /\ ttl' = ttl /\ pc[q] = "idle"
      BY <1>3, <1>4, <2>2 DEF StartRecover, FirstAttempt, AtOnce
    <3>2. CASE ttl
      BY <3>1, <3>2 DEF LockoutEnds
    <3>3. CASE ~ttl
      BY <1>1, <1>2, <3>1, <3>3 DEF LockoutEnds
    <3> QED BY <3>2, <3>3
  <2> QED BY <2>1, <2>2
<1>5. CASE ExpireAttempts(q)
  <2>1. attempts' = attempts
    BY <1>5 DEF ExpireAttempts
  <2>2. CASE ttl' = (attempts > 0)
    BY <2>1, <2>2 DEF LockoutEnds
  <2>3. CASE "attempts" \in failed'
    BY <2>3 DEF LockoutEnds
  <2> QED BY <1>5, <2>2, <2>3 DEF ExpireAttempts, Fails
<1>6. CASE ~StartRecover(q) /\ ~ExpireAttempts(q)
  <2>1. UNCHANGED limiter
    <3>1. CASE Start(q)
      BY <1>6, <3>1
         DEF Start, StartRegisterInit, StartRegister, StartOAuth, StartVerify, StartRefresh,
             StartComplete, StartLogin, StartRecoverEmail, StartReset, StartLink, StartToggle,
             DeleteAccount, BatchDelete, Delete, StartChange, StartRename, RevokeDevice
    <3>2. CASE Step(q)
      BY <1>6, <3>2
         DEF Step, CheckEmail, CheckName, CheckCooldown, StorePending, StartCooldown, Recheck,
             OAuth, FindAccount, SuggestName, Insert, InsertSettings, InsertCodes, ClearPending,
             ClearCooldown, StoreSession, RefreshDrops, StoreLink, WritePassword,
             DeleteLink, CheckNameFree, Rename, LinkDevice, Toggle
    <3> QED BY <3>1, <3>2
  <2>2. pc[q] # "expire"
    <3>1. CASE Start(q)
      BY <3>1, StartForm
    <3>2. CASE Step(q)
      BY <1>6, <3>2
         DEF Step, CheckEmail, CheckName, CheckCooldown, StorePending, StartCooldown, Recheck,
             OAuth, FindAccount, SuggestName, Insert, InsertSettings, InsertCodes, ClearPending,
             ClearCooldown, StoreSession, RefreshDrops, StoreLink, WritePassword,
             DeleteLink, CheckNameFree, Rename, LinkDevice, Toggle
    <3> QED BY <3>1, <3>2
  <2>3. ttl' = ttl /\ attempts' = attempts
    BY <2>1 DEF limiter
  <2>4. CASE ttl
    BY <2>3, <2>4 DEF LockoutEnds
  <2>5. CASE ~ttl
    BY <1>1, <1>2, <2>2, <2>3, <2>5 DEF LockoutEnds
  <2> QED BY <2>4, <2>5
<1> QED BY <1>4, <1>5, <1>6

\* Whoever is locked out of the recovery by too many attempts gets back in: the count expires,
\* unless the command that says so failed or has not been sent yet.
THEOREM LockoutExpires == Spec => []LockoutEnds
<1>1. Init => Inv /\ LockoutEnds
  BY InitInv DEF Init, LockoutEnds
<1>2. Inv /\ LockoutEnds /\ [Next]_vars => Inv' /\ LockoutEnds'
  <2> SUFFICES ASSUME Inv, LockoutEnds, [Next]_vars
               PROVE  LockoutEnds'
    BY StepKeepsInv
  <2>1. CASE TimePasses
    <3>1. pc' = pc /\ failed' = failed
      BY <2>1 DEF TimePasses
    <3>2. CASE UNCHANGED limiter
      <4>1. CASE ttl
        BY <3>2, <4>1 DEF limiter, LockoutEnds
      <4>2. CASE ~ttl
        BY <3>1, <3>2, <4>2 DEF limiter, LockoutEnds
      <4> QED BY <4>1, <4>2
    <3>3. CASE attempts' = 0
      BY <3>3 DEF LockoutEnds
    <3> QED BY <2>1, <3>2, <3>3 DEF TimePasses
  <2>2. CASE UNCHANGED vars
    <3>1. pc' = pc /\ failed' = failed /\ attempts' = attempts /\ ttl' = ttl
      BY <2>2 DEF vars
    <3> QED BY <3>1 DEF LockoutEnds
  <2> QED BY <2>1, <2>2, StepKeepsLockout DEF Next
<1> QED BY <1>1, <1>2, PTL DEF Spec
-----------------------------------------------------------------------------
(* Recovery links.  One that was used is gone, or the request that used it *)
(* removes it next; the request that stores it has not been followed yet   *)
(* by one that uses it.                                                    *)

NotMailed(t) == pc[t] = "idle" \/ op[t] = "mail"
Uses(q, t)   == op[q] = "complete" /\ copy[q] = t

LinkInv ==
    /\ \A t \in Requests :
          t \in spent /\ <<"link", t>> \notin clashed /\ t \notin failed
             => /\ \A q \in Requests : Uses(q, t) => pc[q] = "unlink"
                /\ link[t] # Nothing => \E q \in Requests : Uses(q, t)
    /\ \A t \in Requests :
          NotMailed(t) => link[t] = Nothing /\ t \notin spent /\ \A q \in Requests : ~Uses(q, t)

\* The other statements do not touch links.
LEMMA OthersSpareLinks ==
    ASSUME Inv, NEW q \in Requests, Start(q) \/ Step(q)
    PROVE  \/ /\ UNCHANGED <<link, spent>> /\ op[q] # "complete" /\ op'[q] # "complete"
              /\ op'[q] = "mail" => NotMailed(q)
           \/ \E t \in Requests : StartComplete(q, t)
           \/ StoreLink(q) \/ WritePassword(q) \/ DeleteLink(q)
<1>1. CASE Start(q)
  <2>1. \/ \E t \in Requests : StartComplete(q, t)
        \/ UNCHANGED <<link, spent>>
    BY <1>1
       DEF Start, StartRegisterInit, StartRegister, StartOAuth, StartVerify, StartRefresh,
           StartLogin, StartRecoverEmail, StartReset, StartLink, StartToggle,
           DeleteAccount, BatchDelete, Delete, StartChange, StartRename, RevokeDevice,
           StartRecover, keys, ghosts
  <2> QED BY <1>1, <2>1, StartForm DEF NotMailed
<1>2. CASE Step(q)
  <2>1. \/ StoreLink(q) \/ WritePassword(q) \/ DeleteLink(q)
        \/ UNCHANGED <<link, spent>> /\ pc[q] \notin {"write", "unlink"}
    BY <1>2
       DEF Step, CheckEmail, CheckName, CheckCooldown, StorePending, StartCooldown, Recheck,
           OAuth, FindAccount, SuggestName, Insert, InsertSettings, InsertCodes, ClearPending,
           ClearCooldown, StoreSession, RefreshDrops, ExpireAttempts,
           CheckNameFree, Rename, LinkDevice, Toggle, keys, ghosts
  <2>2. op[q] = "complete" => pc[q] \in {"write", "unlink"}
    BY DEF Inv, Own, OnPath
  <2> QED BY <1>2, <2>1, <2>2, StepForm DEF NotMailed
<1> QED BY <1>1, <1>2

LEMMA StepKeepsLinks ==
    ASSUME Inv, Inv', LinkInv, NEW q \in Requests, Start(q) \/ Step(q)
    PROVE  LinkInv'
<1>1. Alone(q) /\ Shared(q) /\ clashed \subseteq clashed' /\ failed \subseteq failed'
  BY StartGood, StepGood DEF Good, Grows
<1>2. \A p \in Requests \ {q} : pc'[p] = pc[p] /\ op'[p] = op[p] /\ copy'[p] = copy[p]
  BY <1>1 DEF Alone
<1>3. \A p \in Requests \ {q}, t \in Requests : (Uses(p, t)' <=> Uses(p, t))
  BY <1>2 DEF Uses
<1>4. \A t \in Requests \ {q} : (NotMailed(t)' <=> NotMailed(t))
  BY <1>2 DEF NotMailed
<1>5. pc'[q] # "idle"
  <2>1. CASE Start(q)
    BY <2>1, StartForm DEF FirstStatement
  <2>2. CASE Step(q)
    BY <2>2, StepForm DEF Inv, Own, OnPath
  <2> QED BY <2>1, <2>2
<1>6. CASE /\ UNCHANGED <<link, spent>> /\ op[q] # "complete" /\ op'[q] # "complete"
           /\ op'[q] = "mail" => NotMailed(q)
  <2>1. \A t \in Requests : ~Uses(q, t) /\ ~Uses(q, t)'
    BY <1>6 DEF Uses
  <2>2. \A t \in Requests : NotMailed(t)' => NotMailed(t)
    BY <1>4, <1>5, <1>6 DEF NotMailed
  <2>3. ASSUME NEW t \in Requests, t \in spent, <<"link", t>> \notin clashed', t \notin failed'
        PROVE  /\ \A p \in Requests : Uses(p, t)' => pc'[p] = "unlink"
               /\ link[t] # Nothing => \E p \in Requests : Uses(p, t)'
    <3>1. /\ \A p \in Requests : Uses(p, t) => pc[p] = "unlink"
          /\ link[t] # Nothing => \E p \in Requests : Uses(p, t)
      BY <1>1, <2>3 DEF LinkInv
    <3> QED BY <1>2, <1>3, <2>1, <3>1
  <2> QED BY <1>3, <1>6, <2>1, <2>2, <2>3 DEF LinkInv
<1>7. ASSUME NEW token \in Requests, StartComplete(q, token)
      PROVE  LinkInv'
  <2>1. /\ UNCHANGED <<link, spent>> /\ link[token] # Nothing /\ pc[q] = "idle"
        /\ op'[q] = "complete" /\ copy'[q] = token
    BY <1>7 DEF StartComplete, Starts, keys, ghosts, Inv, Typed, RequestsTyped
  <2>2. /\ ~NotMailed(token) /\ token # q
        /\ ~NotMailed(q)' /\ \A t \in Requests : ~Uses(q, t)
    <3>1. ~NotMailed(token) /\ NotMailed(q)
      BY <2>1 DEF LinkInv, NotMailed
    <3>2. op[q] = "none"
      BY <2>1 DEF Inv, Own, OnPath
    <3> QED BY <1>5, <2>1, <3>1, <3>2 DEF NotMailed, Uses
  <2>3. ASSUME NEW t \in Requests, t \in spent, <<"link", t>> \notin clashed', t \notin failed'
        PROVE  /\ \A p \in Requests : Uses(p, t)' => pc'[p] = "unlink"
               /\ link[t] # Nothing => \E p \in Requests : Uses(p, t)'
    <3>1. /\ \A p \in Requests : Uses(p, t) => pc[p] = "unlink"
          /\ link[t] # Nothing => \E p \in Requests : Uses(p, t)
      BY <1>1, <2>3 DEF LinkInv
    <3>2. t # token
      <4> SUFFICES ASSUME t = token
                   PROVE  FALSE
        OBVIOUS
      <4>1. PICK p \in Requests : Uses(p, token)
        BY <2>1, <3>1
      <4>2. p # q /\ <<"link", token>> \in Mine(p)
        BY <2>2, <4>1 DEF Uses, Mine, Needs
      <4>3. <<"link", token>> \in Mine(q)'
        BY <2>1 DEF Mine, Needs
      <4> QED BY <1>1, <2>3, <4>2, <4>3 DEF Shared
    <3>3. ~Uses(q, t)'
      BY <2>1, <3>2 DEF Uses
    <3> QED BY <1>2, <1>3, <2>2, <3>1, <3>3
  <2>4. ASSUME NEW t \in Requests, NotMailed(t)'
        PROVE  link[t] = Nothing /\ t \notin spent /\ \A p \in Requests : ~Uses(p, t)'
    <3>1. t # q /\ NotMailed(t) /\ t # token
      BY <1>4, <2>2, <2>4
    <3>2. ~Uses(q, t)'
      BY <2>1, <3>1 DEF Uses
    <3> QED BY <1>3, <3>1, <3>2 DEF LinkInv
  <2> QED BY <2>1, <2>3, <2>4 DEF LinkInv
<1>8. CASE StoreLink(q)
  <2>1. /\ spent' = spent /\ link' = [link EXCEPT ![q] = about[q]] /\ op'[q] = "none"
        /\ op[q] = "mail"
    BY <1>8, EndsGood DEF StoreLink, users, ghosts, Inv, Own, OnPath
  <2>2. /\ \A t \in Requests : ~Uses(q, t) /\ ~Uses(q, t)'
        /\ ~NotMailed(q)' /\ q \notin spent
    BY <1>5, <2>1 DEF Uses, NotMailed, LinkInv
  <2>3. \A t \in Requests \ {q} : link'[t] = link[t]
    BY <2>1 DEF Inv, Typed, KeysTyped
  <2>4. ASSUME NEW t \in Requests, t \in spent, <<"link", t>> \notin clashed', t \notin failed'
        PROVE  /\ \A p \in Requests : Uses(p, t)' => pc'[p] = "unlink"
               /\ link'[t] # Nothing => \E p \in Requests : Uses(p, t)'
    <3>1. /\ \A p \in Requests : Uses(p, t) => pc[p] = "unlink"
          /\ link[t] # Nothing => \E p \in Requests : Uses(p, t)
      BY <1>1, <2>4 DEF LinkInv
    <3> QED BY <1>2, <1>3, <2>2, <2>3, <2>4, <3>1
  <2> QED BY <1>3, <1>4, <2>1, <2>2, <2>3, <2>4 DEF LinkInv
<1>9. CASE WritePassword(q)
  <2>1. link' = link /\ pc[q] = "write"
    BY <1>9 DEF WritePassword, keys
  <2>2. CASE op[q] = "complete"
    <3>1. /\ spent' = spent \cup {copy[q]} /\ pc'[q] = "unlink" /\ op'[q] = "complete"
          /\ copy'[q] = copy[q] /\ clashed' = clashed /\ copy[q] \in Requests
      BY <1>9, <2>2
         DEF WritePassword, Goto, request, Inv, Typed, RequestsTyped, Own, Carries
    <3>2. \A t \in Requests : (Uses(q, t)' <=> Uses(q, t)) /\ (NotMailed(t)' <=> NotMailed(t))
      BY <1>4, <2>1, <2>2, <3>1 DEF Uses, NotMailed
    <3>3. Uses(q, copy[q])
      BY <2>2 DEF Uses
    <3>4. ASSUME NEW t \in Requests, t \in spent', <<"link", t>> \notin clashed', t \notin failed'
          PROVE  /\ \A p \in Requests : Uses(p, t)' => pc'[p] = "unlink"
                 /\ link[t] # Nothing => \E p \in Requests : Uses(p, t)'
      <4>1. CASE t = copy[q]
        <5>1. \A p \in Requests \ {q} : ~Uses(p, t)
          <6> SUFFICES ASSUME NEW p \in Requests \ {q}, Uses(p, t)
                       PROVE  FALSE
            OBVIOUS
          <6>1. <<"link", t>> \in Mine(p) /\ <<"link", t>> \in Mine(q)
            BY <4>1, <2>2 DEF Uses, Mine, Needs
          <6> QED BY <6>1, <3>1, <3>4 DEF Inv, Solo
        <5> QED BY <1>3, <3>1, <3>2, <3>3, <4>1, <5>1
      <4>2. CASE t # copy[q]
        <5>1. /\ \A p \in Requests : Uses(p, t) => pc[p] = "unlink"
              /\ link[t] # Nothing => \E p \in Requests : Uses(p, t)
          BY <1>1, <3>1, <3>4, <4>2 DEF LinkInv
        <5> QED BY <1>2, <1>3, <3>1, <3>2, <5>1
      <4> QED BY <4>1, <4>2
    <3>5. ASSUME NEW t \in Requests, NotMailed(t)'
          PROVE  link[t] = Nothing /\ t \notin spent' /\ \A p \in Requests : ~Uses(p, t)'
      <4>1. NotMailed(t)
        BY <3>2, <3>5
      <4>2. t # copy[q]
        BY <3>3, <4>1 DEF LinkInv
      <4> QED BY <1>3, <3>1, <3>2, <4>1, <4>2 DEF LinkInv
    <3> QED BY <2>1, <3>4, <3>5 DEF LinkInv
  <2>3. CASE op[q] # "complete"
    <3>1. spent' = spent /\ op'[q] = "none"
      BY <1>9, <2>3, EndsGood DEF WritePassword
    <3>2. /\ \A t \in Requests : ~Uses(q, t) /\ ~Uses(q, t)'
          /\ ~NotMailed(q)'
      BY <1>5, <2>3, <3>1 DEF Uses, NotMailed
    <3>3. ASSUME NEW t \in Requests, t \in spent, <<"link", t>> \notin clashed', t \notin failed'
          PROVE  /\ \A p \in Requests : Uses(p, t)' => pc'[p] = "unlink"
                 /\ link[t] # Nothing => \E p \in Requests : Uses(p, t)'
      <4>1. /\ \A p \in Requests : Uses(p, t) => pc[p] = "unlink"
            /\ link[t] # Nothing => \E p \in Requests : Uses(p, t)
        BY <1>1, <3>3 DEF LinkInv
      <4> QED BY <1>2, <1>3, <3>2, <4>1
    <3> QED BY <1>3, <1>4, <2>1, <3>1, <3>2, <3>3 DEF LinkInv
  <2> QED BY <2>2, <2>3
<1>10. CASE DeleteLink(q)
  <2>1. /\ spent' = spent /\ op'[q] = "none" /\ op[q] = "complete" /\ copy[q] \in Requests
        /\ \/ link' = [link EXCEPT ![copy[q]] = Nothing]
           \/ link' = link /\ copy[q] \in failed'
    <3>1. spent' = spent /\ op'[q] = "none"
      BY <1>10, EndsGood DEF DeleteLink, users, ghosts
    <3>2. op[q] = "complete" /\ copy[q] \in Requests
      BY <1>10 DEF DeleteLink, Inv, Own, OnPath, Carries
    <3> QED BY <1>10, <3>1, <3>2 DEF DeleteLink, Fails
  <2>2. /\ \A t \in Requests : ~Uses(q, t)'
        /\ ~NotMailed(q)' /\ Uses(q, copy[q])
    BY <1>5, <2>1 DEF Uses, NotMailed
  <2>3. \A t \in Requests : link'[t] = link[t] \/ link'[t] = Nothing
    BY <2>1 DEF Inv, Typed, KeysTyped
  <2>4. ASSUME NEW t \in Requests, t \in spent, <<"link", t>> \notin clashed', t \notin failed'
        PROVE  /\ \A p \in Requests : Uses(p, t)' => pc'[p] = "unlink"
               /\ link'[t] # Nothing => \E p \in Requests : Uses(p, t)'
    <3>1. /\ \A p \in Requests : Uses(p, t) => pc[p] = "unlink"
          /\ link[t] # Nothing => \E p \in Requests : Uses(p, t)
      BY <1>1, <2>4 DEF LinkInv
    <3>2. \A p \in Requests : Uses(p, t)' => pc'[p] = "unlink"
      BY <1>2, <1>3, <2>2, <3>1
    <3>3. CASE t = copy[q]
      BY <2>1, <2>4, <3>2, <3>3 DEF Inv, Typed, KeysTyped
    <3>4. CASE t # copy[q]
      <4>1. ~Uses(q, t)
        BY <3>4 DEF Uses
      <4> QED BY <1>3, <2>3, <3>1, <3>2, <4>1
    <3> QED BY <3>3, <3>4
  <2>5. ASSUME NEW t \in Requests, NotMailed(t)'
        PROVE  link'[t] = Nothing /\ t \notin spent' /\ \A p \in Requests : ~Uses(p, t)'
    BY <1>3, <1>4, <2>1, <2>2, <2>3, <2>5 DEF LinkInv
  <2> QED BY <2>1, <2>4, <2>5 DEF LinkInv
<1> QED BY <1>6, <1>7, <1>8, <1>9, <1>10, OthersSpareLinks

\* A recovery link sets a password once, unless two requests used it at the same time or
\* its removal failed.
THEOREM LinksSpent == Spec => LinkIsSpent
<1>1. Init => Inv /\ LinkInv
  BY InitInv DEF Init, LinkInv, NotMailed, Uses
<1>2. Inv /\ LinkInv /\ [Next]_vars => Inv' /\ LinkInv'
  <2> SUFFICES ASSUME Inv, LinkInv, [Next]_vars
               PROVE  LinkInv'
    BY StepKeepsInv
  <2>1. Inv'
    BY StepKeepsInv
  <2>2. CASE TimePasses \/ UNCHANGED vars
    <3>1. UNCHANGED <<pc, op, copy, clashed, failed, spent>>
      BY <2>2 DEF TimePasses, vars, request, ghosts
    <3>2. \A t \in Requests : link'[t] = link[t] \/ link'[t] = Nothing
      BY <2>2 DEF TimePasses, vars, Inv, Typed, KeysTyped
    <3> QED BY <3>1, <3>2 DEF LinkInv, NotMailed, Uses
  <2> QED BY <2>1, <2>2, StepKeepsLinks DEF Next
<1>3. LinkInv => \A q \in Requests :
         op[q] = "complete" /\ pc[q] = "write" /\ pc'[q] # "write" /\ copy[q] \in Requests
            => \/ copy[q] \notin spent
               \/ <<"link", copy[q]>> \in clashed \/ copy[q] \in failed
  BY DEF LinkInv, Uses
<1>4. Inv => \A q \in Requests : op[q] = "complete" => copy[q] \in Requests
  BY DEF Inv, Own, Carries
<1>5. Inv /\ LinkInv /\ [Next]_vars
         => [\A q \in Requests :
                op[q] = "complete" /\ pc[q] = "write" /\ pc'[q] # "write"
                   => \/ copy[q] \notin spent
                      \/ <<"link", copy[q]>> \in clashed \/ copy[q] \in failed]_vars
  BY <1>3, <1>4
<1> QED BY <1>1, <1>2, <1>5, PTL DEF Spec, LinkIsSpent
-----------------------------------------------------------------------------
(* Addresses and names.  What a registration has found free still is, as   *)
(* long as no other one and no renaming ran beside it; and a deleted row   *)
(* holds neither, but for the ones in withheld.                            *)

FreeInv ==
    /\ \A u \in deleted \ withheld : email[u] = Nothing /\ name[u] = Nothing
    /\ \A q \in Requests :
          op[q] = "register" /\ <<"insert", Nothing>> \notin clashed
             => /\ pc[q] \in {"name", "insert"} => \A u \in rows \ deleted : email[u] # addr[q]
                /\ pc[q] = "insert" => \A u \in rows \ deleted : name[u] # wish[q]

LEMMA InsertsClash ==
    ASSUME Solo, NEW p \in Requests, NEW q \in Requests, p # q,
           op[p] = "register", op[q] \in {"verify", "register", "oauth", "rename"}
    PROVE  <<"insert", Nothing>> \in clashed
<1>1. <<"insert", Nothing>> \in Mine(p)
  BY DEF Mine, Needs
<1>2. <<"insert", Nothing>> \in Mine(q)
  <2>1. CASE op[q] = "verify"
    BY <2>1 DEF Mine, Needs
  <2>2. CASE op[q] \in {"register", "oauth"}
    BY <2>2 DEF Mine, Needs
  <2>3. CASE op[q] = "rename"
    BY <2>3 DEF Mine, Needs
  <2> QED BY <2>1, <2>2, <2>3
<1> QED BY <1>1, <1>2 DEF Solo

\* The other statements leave the columns alone, and do not pass a check.
LEMMA OthersSpareColumns ==
    ASSUME Inv, NEW q \in Requests, Start(q) \/ Step(q)
    PROVE  \/ /\ UNCHANGED <<rows, deleted, email, name, withheld>>
              /\ op'[q] = "register" => pc'[q] \notin {"name", "insert"}
           \/ \E u \in Ids : DeleteAccount(q, u) \/ BatchDelete(q, u)
           \/ CheckEmail(q) \/ CheckName(q) \/ Insert(q) \/ Rename(q)
<1>1. CASE Start(q)
  <2>1. \/ \E u \in Ids : DeleteAccount(q, u) \/ BatchDelete(q, u)
        \/ UNCHANGED <<rows, deleted, email, name, withheld>>
    BY <1>1
       DEF Start, StartRegisterInit, StartRegister, StartOAuth, StartVerify, StartRefresh,
           StartComplete, StartLogin, StartRecoverEmail, StartReset, StartLink, StartToggle,
           StartChange, StartRename, RevokeDevice, StartRecover, users, ghosts
  <2>2. pc'[q] \notin {"name", "insert"}
    BY <1>1, StartForm DEF FirstStatement
  <2> QED BY <2>1, <2>2
<1>2. CASE Step(q)
  <2>1. \/ CheckEmail(q) \/ CheckName(q) \/ Insert(q) \/ Rename(q)
        \/ /\ UNCHANGED <<rows, deleted, email, name, withheld>>
           /\ pc[q] \notin {"email", "name", "insert"}
    BY <1>2
       DEF Step, CheckCooldown, StorePending, StartCooldown, Recheck, OAuth, FindAccount,
           SuggestName, InsertSettings, InsertCodes, ClearPending, ClearCooldown, StoreSession,
           RefreshDrops, ExpireAttempts, StoreLink, WritePassword, DeleteLink, CheckNameFree,
           LinkDevice, Toggle, users, ghosts
  <2>2. CASE /\ UNCHANGED <<rows, deleted, email, name, withheld>>
             /\ pc[q] \notin {"email", "name", "insert"}
             /\ op'[q] = "register"
    <3>1. op[q] = "register" /\ pc[q] \in {"settings", "codes", "session"}
      BY <1>2, <2>2, StepForm DEF Inv, Own, OnPath
    <3>2. pc'[q] \notin {"name", "insert"}
      BY <1>2, <3>1
         DEF Step, CheckEmail, CheckName, CheckCooldown, StorePending, StartCooldown, Recheck,
             OAuth, FindAccount, SuggestName, Insert, InsertSettings, InsertCodes, ClearPending,
             ClearCooldown, StoreSession, RefreshDrops, ExpireAttempts, StoreLink,
             WritePassword, DeleteLink, CheckNameFree, Rename, LinkDevice, Toggle, Goto, Ends,
             Inv, Typed, RequestsTyped
    <3> QED BY <2>2, <3>2
  <2> QED BY <2>1, <2>2
<1> QED BY <1>1, <1>2

LEMMA StepKeepsFree ==
    ASSUME Inv, FreeInv, NEW q \in Requests, Start(q) \/ Step(q)
    PROVE  FreeInv'
<1>1. Alone(q) /\ clashed \subseteq clashed'
  BY StartGood, StepGood DEF Good, Grows
<1>2. \A p \in Requests \ {q} : /\ pc'[p] = pc[p] /\ op'[p] = op[p]
                                /\ addr'[p] = addr[p] /\ wish'[p] = wish[p]
  BY <1>1 DEF Alone
<1>3. CASE /\ UNCHANGED <<rows, deleted, email, name, withheld>>
           /\ op'[q] = "register" => pc'[q] \notin {"name", "insert"}
  BY <1>1, <1>2, <1>3 DEF FreeInv
<1>4. ASSUME NEW u \in Ids, DeleteAccount(q, u) \/ BatchDelete(q, u)
      PROVE  FreeInv'
  <2>1. /\ rows' = rows /\ deleted' = deleted \cup {u} /\ op'[q] = "none" /\ withheld \subseteq withheld'
        /\ \A v \in Ids \ {u} : email'[v] = email[v] /\ name'[v] = name[v]
        /\ \/ email'[u] = Nothing /\ name'[u] = Nothing
           \/ u \in withheld'
    BY <1>4 DEF DeleteAccount, BatchDelete, Delete, AtOnce, Inv, Typed, UsersTyped, Own, OnPath
  <2>2. rows \subseteq Ids /\ deleted \subseteq rows
    BY DEF Inv, Typed, UsersTyped
  <2>3. \A v \in deleted' \ withheld' : email'[v] = Nothing /\ name'[v] = Nothing
    BY <2>1, <2>2 DEF FreeInv
  <2> QED BY <1>1, <1>2, <2>1, <2>2, <2>3 DEF FreeInv
<1>5. CASE CheckEmail(q)
  <2>1. UNCHANGED <<rows, deleted, email, name, withheld>>
    BY <1>5 DEF CheckEmail, users, ghosts
  <2>2. CASE EmailTaken(addr[q])
    <3>1. op'[q] = "none"
      BY <1>5, <2>2, <2>1, EndsGood DEF CheckEmail
    <3> QED BY <1>1, <1>2, <2>1, <3>1 DEF FreeInv
  <2>3. CASE ~EmailTaken(addr[q])
    <3>1. pc'[q] = "name" /\ addr'[q] = addr[q]
      BY <1>5, <2>3 DEF CheckEmail, Goto, request, Inv, Typed, RequestsTyped
    <3> QED BY <1>1, <1>2, <2>1, <2>3, <3>1 DEF FreeInv, EmailTaken
  <2> QED BY <2>2, <2>3
<1>6. CASE CheckName(q)
  <2>1. UNCHANGED <<rows, deleted, email, name, withheld>> /\ pc[q] = "name"
    BY <1>6 DEF CheckName, users, ghosts
  <2>2. CASE NameTaken(wish[q])
    <3>1. op'[q] = "none"
      BY <1>6, <2>2, <2>1, EndsGood DEF CheckName
    <3> QED BY <1>1, <1>2, <2>1, <3>1 DEF FreeInv
  <2>3. CASE ~NameTaken(wish[q])
    <3>1. op'[q] = op[q] /\ addr'[q] = addr[q] /\ wish'[q] = wish[q]
      BY <1>6, <2>3 DEF CheckName, Goto, request
    <3>2. op[q] = "register" /\ <<"insert", Nothing>> \notin clashed
             => \A u \in rows \ deleted : email[u] # addr[q] /\ name[u] # wish[q]
      BY <2>1, <2>3 DEF FreeInv, NameTaken
    <3> QED BY <1>1, <1>2, <2>1, <3>1, <3>2 DEF FreeInv
  <2> QED BY <2>2, <2>3
<1>7. CASE Insert(q)
  <2>1. /\ UNCHANGED <<deleted, withheld>> /\ rows \subseteq rows'
        /\ \A v \in rows : email'[v] = email[v] /\ name'[v] = name[v]
    BY <1>7 DEF Insert, Inv, Typed, UsersTyped
  <2>2. pc'[q] \notin {"name", "insert"}
    BY <1>7 DEF Insert, Ends, Inv, Typed, RequestsTyped
  <2>3. op[q] \in {"verify", "register", "oauth"}
    BY <1>7 DEF Insert, Inv, Own, OnPath
  <2>4. \A p \in Requests \ {q} : op[p] = "register" => <<"insert", Nothing>> \in clashed
    BY <2>3, InsertsClash DEF Inv
  <2>5. deleted \subseteq rows
    BY DEF Inv, Typed, UsersTyped
  <2> QED BY <1>1, <1>2, <2>1, <2>2, <2>4, <2>5 DEF FreeInv
<1>8. CASE Rename(q)
  <2>1. op[q] = "rename" /\ op'[q] = "none"
    <3>1. Ends(q) /\ rows' = rows
      BY <1>8 DEF Rename
    <3> QED BY <1>8, <3>1, EndsGood DEF Rename, Inv, Own, OnPath
  <2>2. \A p \in Requests \ {q} : op[p] = "register" => <<"insert", Nothing>> \in clashed
    BY <2>1, InsertsClash DEF Inv
  <2>3. \A v \in deleted' \ withheld' : email'[v] = Nothing /\ name'[v] = Nothing
    <3>1. /\ UNCHANGED <<deleted, email>> /\ withheld \subseteq withheld'
          /\ \A v \in Ids : name'[v] = name[v] \/ (v \in deleted => v \in withheld')
      BY <1>8 DEF Rename, Inv, Typed, UsersTyped
    <3>2. deleted \subseteq Ids
      BY DEF Inv, Typed, UsersTyped
    <3> QED BY <3>1, <3>2 DEF FreeInv
  <2> QED BY <1>1, <1>2, <2>1, <2>2, <2>3 DEF FreeInv
<1> QED BY <1>3, <1>4, <1>5, <1>6, <1>7, <1>8, OthersSpareColumns

\* Only the INSERT of a request takes it from there to its end, when the table refuses.
LEMMA StepRefuses ==
    ASSUME Inv, FreeInv, [Next]_vars, NEW q \in Requests,
           op[q] = "register", pc[q] = "insert", pc'[q] = "done"
    PROVE  \/ <<"insert", Nothing>> \in clashed
           \/ \E u \in withheld : email[u] = addr[q] \/ name[u] = wish[q]
<1>1. Insert(q)
  <2>1. CASE TimePasses \/ UNCHANGED vars
    BY <2>1 DEF TimePasses, vars
  <2>2. ASSUME NEW p \in Requests, Start(p) \/ Step(p)
        PROVE  Insert(q)
    <3>1. p = q
      BY <2>2, StartGood, StepGood DEF Good, Alone
    <3>2. CASE Start(q)
      BY <3>2, StartForm
    <3>3. CASE Step(q)
      BY <3>3
         DEF Step, CheckEmail, CheckName, CheckCooldown, StorePending, StartCooldown, Recheck,
             OAuth, FindAccount, SuggestName, InsertSettings, InsertCodes, ClearPending,
             ClearCooldown, StoreSession, RefreshDrops, ExpireAttempts, StoreLink,
             WritePassword, DeleteLink, CheckNameFree, Rename, LinkDevice, Toggle
    <3> QED BY <2>2, <3>1, <3>2, <3>3
  <2> QED BY <2>1, <2>2 DEF Next
<1>2. Held(addr[q], wish[q])
  BY <1>1 DEF Insert, Inv, Typed, RequestsTyped
<1>3. PICK u \in rows : email[u] = addr[q] \/ name[u] = wish[q]
  BY <1>2 DEF Held
<1>4. addr[q] # Nothing /\ wish[q] # Nothing
  BY AccountsAssumption DEF Inv, Own, Carries
<1> QED BY <1>3, <1>4 DEF FreeInv

\* A registration that found its address and its name free is refused by the table only if
\* another one or a renaming ran beside it, or a row has them that an administrator deleted
\* or that was renamed after its deletion; a deleted account else leaves both to others.
THEOREM Refused == Spec => RefusedOnlyWhenTaken
<1>1. Init => Inv /\ FreeInv
  BY InitInv DEF Init, FreeInv
<1>2. Inv /\ FreeInv /\ [Next]_vars => Inv' /\ FreeInv'
  <2> SUFFICES ASSUME Inv, FreeInv, [Next]_vars
               PROVE  FreeInv'
    BY StepKeepsInv
  <2>1. CASE TimePasses \/ UNCHANGED vars
    <3>1. UNCHANGED <<pc, op, addr, wish, clashed, rows, deleted, email, name, withheld>>
      BY <2>1 DEF TimePasses, vars, request, ghosts
    <3> QED BY <3>1 DEF FreeInv
  <2> QED BY <2>1, StepKeepsFree DEF Next
<1>3. Inv /\ FreeInv /\ [Next]_vars
         => [\A q \in Requests :
                op[q] = "register" /\ pc[q] = "insert" /\ pc'[q] = "done"
                   => \/ <<"insert", Nothing>> \in clashed
                      \/ \E u \in withheld : email[u] = addr[q] \/ name[u] = wish[q]]_vars
  BY StepRefuses
<1> QED BY <1>1, <1>2, <1>3, PTL DEF Spec, RefusedOnlyWhenTaken
-----------------------------------------------------------------------------
(* Emailed codes.  The code of a request waits at one address at most.  A  *)
(* code that has made an account does not make another: if it still waits, *)
(* the request that verified it is on its way to remove it, and another    *)
(* one beside it or a failure to remove it is on record.                   *)

Clean(c)       == <<"code", c>> \notin clashed /\ c \notin failed
Waits(c, a)    == pending[a] # Nothing /\ pending[a].by = c
Verifies(q, c) == op[q] = "verify" /\ copy[q].by = c
NotSent(c)     == pc[c] = "idle" \/ (op[c] = "init" /\ pc[c] # "cool")

\* The verification that made the account has still to remove the code.
Removing(q, c) == Verifies(q, c) /\ pc[q] \in {"settings", "codes", "clear"}

OneAddress == \A a, b \in Addresses, c \in Bringers : Waits(c, a) /\ Waits(c, b) => a = b

UnusedYet ==
    \A q \in Requests, c \in Bringers : Verifies(q, c) =>
        /\ \A a \in Addresses : Waits(c, a) => addr[q] = a
        /\ Clean(c) /\ pc[q] \in {"recheck", "insert"} => \A u \in Ids : madeWith[u] # c

RemovedNext ==
    \A c \in Bringers, a \in Addresses, u \in Ids :
        Clean(c) /\ Waits(c, a) /\ madeWith[u] = c => \E q \in Requests : Removing(q, c)

NoneBefore ==
    \A c \in Requests : NotSent(c) =>
        /\ \A a \in Addresses : ~Waits(c, a)
        /\ \A u \in Ids : madeWith[u] # c
        /\ \A q \in Requests : ~Verifies(q, c)

CodeInv == CodeMakesOneAccount /\ OneAddress /\ UnusedYet /\ RemovedNext /\ NoneBefore

\* A step of q that is not about a code at all.
Aside(q) ==
    /\ UNCHANGED <<pending, madeWith>>
    /\ op'[q] = "verify" =>
          /\ op[q] = "verify" /\ copy'[q] = copy[q] /\ addr'[q] = addr[q]
          /\ pc'[q] \in {"recheck", "insert"} => pc[q] \in {"recheck", "insert"}
    /\ op[q] = "verify" /\ pc[q] \in {"settings", "codes", "clear"} =>
          op'[q] = "verify" /\ copy'[q] = copy[q] /\ pc'[q] \in {"settings", "codes", "clear"}
    /\ op'[q] = "init" /\ pc'[q] # "cool" => NotSent(q)

LEMMA OthersSpareCodes ==
    ASSUME Inv, NEW q \in Requests, Start(q) \/ Step(q)
    PROVE  \/ Aside(q)
           \/ \E a \in Addresses : StartVerify(q, a)
           \/ StorePending(q) \/ Recheck(q) \/ ClearPending(q)
           \/ Insert(q) /\ ~Held(addr[q], wish[q]) /\ op[q] = "verify"
<1>1. CASE Start(q)
  <2>1. \/ \E a \in Addresses : StartVerify(q, a)
        \/ UNCHANGED <<pending, madeWith>>
    BY <1>1
       DEF Start, StartRegisterInit, StartRegister, StartOAuth, StartRefresh,
           StartComplete, StartLogin, StartRecoverEmail, StartReset, StartLink, StartToggle,
           DeleteAccount, BatchDelete, Delete, StartChange, StartRename, RevokeDevice,
           StartRecover, keys, ghosts
  <2> QED BY <1>1, <2>1, StartForm DEF Aside, NotSent
<1>2. CASE Step(q)
  <2>1. \/ StorePending(q) \/ Recheck(q) \/ ClearPending(q)
        \/ Insert(q) /\ ~Held(addr[q], wish[q]) /\ op[q] = "verify"
        \/ /\ UNCHANGED <<pending, madeWith>>
           /\ pc[q] \notin {"pend", "recheck", "clear"}
           /\ pc[q] = "insert" => op[q] # "verify" \/ Ends(q)
    BY <1>2
       DEF Step, CheckEmail, CheckName, CheckCooldown, StartCooldown, OAuth, FindAccount,
           SuggestName, Insert, InsertSettings, InsertCodes, ClearCooldown, StoreSession,
           RefreshDrops, ExpireAttempts, StoreLink, WritePassword, DeleteLink, CheckNameFree,
           Rename, LinkDevice, Toggle, keys, ghosts
  <2>2. CASE /\ UNCHANGED <<pending, madeWith>>
             /\ pc[q] \notin {"pend", "recheck", "clear"}
             /\ pc[q] = "insert" => op[q] # "verify" \/ Ends(q)
    <3>1. OnPath(q)
      BY DEF Inv, Own
    <3>2. CASE op[q] = "verify"
      <4>1. CASE pc[q] \in {"settings", "codes"}
        <5>1. /\ op' = op /\ copy' = copy /\ addr' = addr
              /\ pc'[q] \in {"codes", "clear"}
          BY <1>2, <3>2, <4>1
             DEF Step, CheckEmail, CheckName, CheckCooldown, StorePending, StartCooldown,
                 Recheck, OAuth, FindAccount, SuggestName, Insert, InsertSettings, InsertCodes,
                 ClearPending, ClearCooldown, StoreSession, RefreshDrops, ExpireAttempts,
                 StoreLink, WritePassword, DeleteLink, CheckNameFree, Rename, LinkDevice,
                 Toggle, Goto, request, Inv, Typed, RequestsTyped
        <5> QED BY <2>2, <3>2, <4>1, <5>1 DEF Aside
      <4>2. CASE pc[q] = "uncool"
        <5>1. op' = op /\ copy' = copy /\ addr' = addr /\ pc'[q] = "session"
          BY <1>2, <4>2
             DEF Step, CheckEmail, CheckName, CheckCooldown, StorePending, StartCooldown,
                 Recheck, OAuth, FindAccount, SuggestName, Insert, InsertSettings, InsertCodes,
                 ClearPending, ClearCooldown, StoreSession, RefreshDrops, ExpireAttempts,
                 StoreLink, WritePassword, DeleteLink, CheckNameFree, Rename, LinkDevice,
                 Toggle, Goto, request, Inv, Typed, RequestsTyped
        <5> QED BY <2>2, <3>2, <4>2, <5>1 DEF Aside
      <4>3. CASE pc[q] \in {"insert", "session"}
        <5>1. Ends(q)
          <6>1. CASE pc[q] = "insert"
            BY <2>2, <3>2, <6>1
          <6>2. CASE pc[q] = "session"
            BY <1>2, <6>2
               DEF Step, CheckEmail, CheckName, CheckCooldown, StorePending, StartCooldown,
                   Recheck, OAuth, FindAccount, SuggestName, Insert, InsertSettings,
                   InsertCodes, ClearPending, ClearCooldown, StoreSession, RefreshDrops,
                   ExpireAttempts, StoreLink, WritePassword, DeleteLink, CheckNameFree,
                   Rename, LinkDevice, Toggle
          <6> QED BY <4>3, <6>1, <6>2
        <5>2. op'[q] = "none"
          BY <5>1 DEF Ends, Inv, Typed, RequestsTyped
        <5> QED BY <2>2, <4>3, <5>2 DEF Aside
      <4> QED BY <2>2, <3>1, <3>2, <4>1, <4>2, <4>3 DEF OnPath
    <3>3. CASE op[q] # "verify"
      <4>1. op'[q] = op[q] \/ op'[q] = "none"
        BY <1>2, StepForm
      <4>2. op'[q] = "init" /\ pc'[q] # "cool" => NotSent(q)
        <5>1. CASE op[q] = "init" /\ pc[q] = "cool"
          <6>1. Ends(q)
            BY <1>2, <5>1
               DEF Step, CheckEmail, CheckName, CheckCooldown, StorePending, StartCooldown,
                   Recheck, OAuth, FindAccount, SuggestName, Insert, InsertSettings,
                   InsertCodes, ClearPending, ClearCooldown, StoreSession, RefreshDrops,
                   ExpireAttempts, StoreLink, WritePassword, DeleteLink, CheckNameFree,
                   Rename, LinkDevice, Toggle
          <6> QED BY <6>1 DEF Ends, Inv, Typed, RequestsTyped
        <5>2. CASE ~(op[q] = "init" /\ pc[q] = "cool")
          BY <4>1, <5>2 DEF NotSent
        <5> QED BY <5>1, <5>2
      <4> QED BY <2>2, <3>3, <4>1, <4>2 DEF Aside
    <3> QED BY <3>2, <3>3
  <2> QED BY <2>1, <2>2
<1> QED BY <1>1, <1>2

\* What no step undoes: an overlap or a failure on record, and a request that was sent.
LEMMA CodesOfOthers ==
    ASSUME Inv, NEW q \in Requests, Start(q) \/ Step(q)
    PROVE  /\ Shared(q) /\ pc'[q] # "idle"
           /\ \A c \in Bringers : Clean(c)' => Clean(c)
           /\ \A p \in Requests \ {q} :
                 /\ pc'[p] = pc[p] /\ addr'[p] = addr[p]
                 /\ NotSent(p)' <=> NotSent(p)
                 /\ \A c \in Bringers : (Verifies(p, c)' <=> Verifies(p, c))
                                        /\ (Removing(p, c)' <=> Removing(p, c))
<1>1. Alone(q) /\ Shared(q) /\ clashed \subseteq clashed' /\ failed \subseteq failed'
  BY StartGood, StepGood DEF Good, Grows
<1>2. \A c \in Bringers : Clean(c)' => Clean(c)
  BY <1>1 DEF Clean
<1>3. \A p \in Requests \ {q} :
         pc'[p] = pc[p] /\ op'[p] = op[p] /\ addr'[p] = addr[p] /\ copy'[p] = copy[p]
  BY <1>1 DEF Alone
<1>4. \A p \in Requests \ {q} :
         /\ NotSent(p)' <=> NotSent(p)
         /\ \A c \in Bringers : (Verifies(p, c)' <=> Verifies(p, c))
                                /\ (Removing(p, c)' <=> Removing(p, c))
  BY <1>3 DEF NotSent, Verifies, Removing
<1>5. pc'[q] # "idle"
  <2>1. CASE Start(q)
    BY <2>1, StartForm DEF FirstStatement
  <2>2. CASE Step(q)
    <3>1. OnPath(q)'
      BY <2>2, StepGood DEF Good, Own
    <3> QED BY <2>2, <3>1, StepForm DEF OnPath
  <2> QED BY <2>1, <2>2
<1> QED BY <1>1, <1>2, <1>3, <1>4, <1>5

LEMMA AsideKeepsCodes ==
    ASSUME Inv, CodeInv, NEW q \in Requests, Start(q) \/ Step(q), Aside(q)
    PROVE  CodeInv'
<1> USE CodesOfOthers DEF CodeInv
<1>1. pending' = pending /\ madeWith' = madeWith
  BY DEF Aside
<1>2. \A c, a : Waits(c, a)' <=> Waits(c, a)
  BY <1>1 DEF Waits
<1>3. madeWith \in [Ids -> Bringers \cup {Nothing}]
  BY DEF Inv, Typed, GhostsTyped
<1>4. CodeMakesOneAccount'
  <2>1. \A c \in Bringers : Clean(c)' => Clean(c)
    OBVIOUS
  <2> QED BY ONLY <1>1, <1>3, <2>1, CodeMakesOneAccount DEF CodeMakesOneAccount, Clean
<1>5. OneAddress'
  BY <1>2 DEF OneAddress
<1>6. UnusedYet'
  <2> SUFFICES ASSUME NEW p \in Requests, NEW c \in Bringers, Verifies(p, c)'
               PROVE  /\ \A a \in Addresses : Waits(c, a)' => addr'[p] = a
                      /\ Clean(c)' /\ pc'[p] \in {"recheck", "insert"}
                            => \A u \in Ids : madeWith'[u] # c
    BY DEF UnusedYet
  <2>1. CASE p = q
    <3>1. /\ Verifies(q, c) /\ addr'[q] = addr[q]
          /\ pc'[q] \in {"recheck", "insert"} => pc[q] \in {"recheck", "insert"}
      BY <2>1 DEF Aside, Verifies
    <3> QED BY <1>1, <1>2, <2>1, <3>1 DEF UnusedYet
  <2>2. CASE p # q
    BY <1>1, <1>2, <2>2 DEF UnusedYet
  <2> QED BY <2>1, <2>2
<1>7. RemovedNext'
  <2> SUFFICES ASSUME NEW c \in Bringers, NEW a \in Addresses, NEW u \in Ids,
                      Clean(c)', Waits(c, a)', madeWith'[u] = c
               PROVE  \E p \in Requests : Removing(p, c)'
    BY DEF RemovedNext
  <2>1. PICK p \in Requests : Removing(p, c)
    BY <1>1, <1>2 DEF RemovedNext
  <2>2. CASE p = q
    BY <2>1, <2>2 DEF Aside, Removing, Verifies
  <2>3. CASE p # q
    BY <2>1, <2>3
  <2> QED BY <2>2, <2>3
<1>8. NoneBefore'
  <2> SUFFICES ASSUME NEW c \in Requests, NotSent(c)'
               PROVE  /\ \A a \in Addresses : ~Waits(c, a)'
                      /\ \A u \in Ids : madeWith'[u] # c
                      /\ \A p \in Requests : ~Verifies(p, c)'
    BY DEF NoneBefore
  <2>1. NotSent(c)
    <3>1. CASE c = q
      BY <3>1 DEF NotSent, Aside
    <3>2. CASE c # q
      BY <3>2
    <3> QED BY <3>1, <3>2
  <2>2. ~Verifies(q, c)'
    BY <2>1 DEF NoneBefore, Aside, Verifies
  <2>3. \A p \in Requests \ {q} : ~Verifies(p, c)'
    BY <2>1 DEF NoneBefore, Bringers
  <2> QED BY <1>1, <1>2, <2>1, <2>2, <2>3 DEF NoneBefore
<1> QED BY <1>4, <1>5, <1>6, <1>7, <1>8

\* Fewer codes wait, and no request starts or leaves the part of its path where it counts.
LEMMA LessWaits ==
    ASSUME Inv, CodeInv, NEW q \in Requests, Start(q) \/ Step(q),
           madeWith' = madeWith,
           \A c : \A a \in Addresses : Waits(c, a)' => Waits(c, a),
           \A c : Verifies(q, c)' => Verifies(q, c) /\ addr'[q] = addr[q],
           pc'[q] \in {"recheck", "insert"} => pc[q] \in {"recheck", "insert"},
           \A c \in Bringers, a \in Addresses : Removing(q, c) /\ Clean(c)' => ~Waits(c, a)',
           ~NotSent(q)'
    PROVE  CodeInv'
<1> USE CodesOfOthers DEF CodeInv
<1>1. madeWith \in [Ids -> Bringers \cup {Nothing}]
  BY DEF Inv, Typed, GhostsTyped
<1>2. CodeMakesOneAccount'
  <2>1. \A c \in Bringers : Clean(c)' => Clean(c)
    OBVIOUS
  <2>2. madeWith' = madeWith
    OBVIOUS
  <2> QED BY ONLY <1>1, <2>1, <2>2, CodeMakesOneAccount DEF CodeMakesOneAccount, Clean
<1>3. OneAddress'
  BY DEF OneAddress
<1>4. UnusedYet'
  <2> SUFFICES ASSUME NEW p \in Requests, NEW c \in Bringers, Verifies(p, c)'
               PROVE  /\ \A a \in Addresses : Waits(c, a)' => addr'[p] = a
                      /\ Clean(c)' /\ pc'[p] \in {"recheck", "insert"}
                            => \A u \in Ids : madeWith'[u] # c
    BY DEF UnusedYet
  <2>1. Verifies(p, c) /\ addr'[p] = addr[p]
    OBVIOUS
  <2>2. pc'[p] \in {"recheck", "insert"} => pc[p] \in {"recheck", "insert"}
    OBVIOUS
  <2> QED BY <2>1, <2>2 DEF UnusedYet
<1>5. RemovedNext'
  <2> SUFFICES ASSUME NEW c \in Bringers, NEW a \in Addresses, NEW u \in Ids,
                      Clean(c)', Waits(c, a)', madeWith'[u] = c
               PROVE  \E p \in Requests : Removing(p, c)'
    BY DEF RemovedNext
  <2>1. PICK p \in Requests : Removing(p, c)
    BY DEF RemovedNext
  <2>2. p # q
    BY <2>1
  <2> QED BY <2>1, <2>2
<1>6. NoneBefore'
  <2> SUFFICES ASSUME NEW c \in Requests, NotSent(c)'
               PROVE  /\ \A a \in Addresses : ~Waits(c, a)'
                      /\ \A u \in Ids : madeWith'[u] # c
                      /\ \A p \in Requests : ~Verifies(p, c)'
    BY DEF NoneBefore
  <2>1. NotSent(c) /\ c \in Bringers
    BY DEF Bringers
  <2>2. \A p \in Requests : Verifies(p, c)' => Verifies(p, c)
    BY <2>1
  <2> QED BY <2>1, <2>2 DEF NoneBefore
<1> QED BY <1>2, <1>3, <1>4, <1>5, <1>6

LEMMA StoreKeepsCodes ==
    ASSUME Inv, CodeInv, NEW q \in Requests, StorePending(q)
    PROVE  CodeInv'
<1>1. Step(q)
  BY DEF Step
<1> USE CodesOfOthers, <1>1 DEF CodeInv
<1>2. /\ NotSent(q) /\ q \in Bringers /\ op[q] = "init" /\ addr[q] \in Addresses
      /\ wish[q] \in Names
  BY DEF StorePending, NotSent, Bringers, Inv, Own, OnPath, Carries
<1>3. /\ pc'[q] = "cool" /\ op'[q] = "init" /\ madeWith' = madeWith
      /\ pending' = [pending EXCEPT ![addr[q]] = [name |-> wish[q], by |-> q]]
  BY <1>2 DEF StorePending, Goto, request, ghosts, Inv, Typed, RequestsTyped
<1>4. /\ \A a \in Addresses : ~Waits(q, a)
      /\ \A u \in Ids : madeWith[u] # q
      /\ \A p \in Requests : ~Verifies(p, q)
  BY <1>2 DEF NoneBefore
<1>5. \A c \in Bringers, a \in Addresses :
         Waits(c, a)' => IF a = addr[q] THEN c = q ELSE Waits(c, a)
  BY <1>2, <1>3 DEF Waits, Inv, Typed, KeysTyped
<1>6. madeWith \in [Ids -> Bringers \cup {Nothing}]
  BY DEF Inv, Typed, GhostsTyped
<1>7. ~NotSent(q)' /\ \A c : ~Verifies(q, c) /\ ~Verifies(q, c)'
  BY <1>2, <1>3 DEF NotSent, Verifies
<1>8. CodeMakesOneAccount'
  <2>1. \A c \in Bringers : Clean(c)' => Clean(c)
    OBVIOUS
  <2> QED BY ONLY <1>3, <1>6, <2>1, CodeMakesOneAccount DEF CodeMakesOneAccount, Clean
<1>9. OneAddress'
  BY <1>4, <1>5 DEF OneAddress
<1>10. UnusedYet'
  <2> SUFFICES ASSUME NEW p \in Requests, NEW c \in Bringers, Verifies(p, c)'
               PROVE  /\ \A a \in Addresses : Waits(c, a)' => addr'[p] = a
                      /\ Clean(c)' /\ pc'[p] \in {"recheck", "insert"}
                            => \A u \in Ids : madeWith'[u] # c
    BY DEF UnusedYet
  <2>1. p # q /\ Verifies(p, c) /\ c # q
    BY <1>4, <1>7
  <2> QED BY <1>3, <1>5, <2>1 DEF UnusedYet
<1>11. RemovedNext'
  <2> SUFFICES ASSUME NEW c \in Bringers, NEW a \in Addresses, NEW u \in Ids,
                      Clean(c)', Waits(c, a)', madeWith'[u] = c
               PROVE  \E p \in Requests : Removing(p, c)'
    BY DEF RemovedNext
  <2>1. c # q
    BY <1>3, <1>4
  <2>2. PICK p \in Requests : Removing(p, c)
    BY <1>3, <1>5, <2>1 DEF RemovedNext
  <2>3. p # q
    BY <1>7, <2>2 DEF Removing
  <2> QED BY <2>2, <2>3
<1>12. NoneBefore'
  <2> SUFFICES ASSUME NEW c \in Requests, NotSent(c)'
               PROVE  /\ \A a \in Addresses : ~Waits(c, a)'
                      /\ \A u \in Ids : madeWith'[u] # c
                      /\ \A p \in Requests : ~Verifies(p, c)'
    BY DEF NoneBefore
  <2>1. c # q /\ NotSent(c) /\ c \in Bringers
    BY <1>7 DEF Bringers
  <2>2. \A p \in Requests : ~Verifies(p, c)'
    BY <1>7, <2>1 DEF NoneBefore
  <2> QED BY <1>3, <1>5, <2>1, <2>2 DEF NoneBefore
<1> QED BY <1>8, <1>9, <1>10, <1>11, <1>12

LEMMA VerifyKeepsCodes ==
    ASSUME Inv, CodeInv, NEW q \in Requests, NEW d \in Addresses, StartVerify(q, d)
    PROVE  CodeInv'
<1>1. Start(q)
  BY DEF Start
<1> USE CodesOfOthers, <1>1 DEF CodeInv
<1>2. /\ pending[d] # Nothing /\ pc[q] = "idle" /\ op[q] = "none"
      /\ pending' = pending /\ madeWith' = madeWith
  BY DEF StartVerify, Starts, keys, ghosts, Inv, Own, OnPath
<1>3. pc'[q] = "recheck" /\ op'[q] = "verify" /\ addr'[q] = d /\ copy'[q] = pending[d]
  BY DEF StartVerify, Starts, Inv, Typed, RequestsTyped
<1>4. PICK b \in Bringers : pending[d].by = b
  BY <1>2 DEF Inv, Typed, KeysTyped, Offers
<1>5. Waits(b, d) /\ \A c, a : Waits(c, a)' <=> Waits(c, a)
  BY <1>2, <1>4 DEF Waits
<1>6. \A c : (Verifies(q, c)' <=> c = b) /\ ~Verifies(q, c)
  BY <1>2, <1>3, <1>4 DEF Verifies
<1>7. ~NotSent(q)' /\ ~Removing(q, b)
  BY <1>2, <1>3 DEF NotSent, Removing, Verifies
<1>8. CodeMakesOneAccount'
  <2>1. \A c \in Bringers : Clean(c)' => Clean(c)
    OBVIOUS
  <2>2. madeWith \in [Ids -> Bringers \cup {Nothing}]
    BY DEF Inv, Typed, GhostsTyped
  <2> QED BY ONLY <1>2, <2>1, <2>2, CodeMakesOneAccount DEF CodeMakesOneAccount, Clean
<1>9. OneAddress'
  BY <1>5 DEF OneAddress
<1>10. UnusedYet'
  <2> SUFFICES ASSUME NEW p \in Requests, NEW c \in Bringers, Verifies(p, c)'
               PROVE  /\ \A a \in Addresses : Waits(c, a)' => addr'[p] = a
                      /\ Clean(c)' /\ pc'[p] \in {"recheck", "insert"}
                            => \A u \in Ids : madeWith'[u] # c
    BY DEF UnusedYet
  <2>1. CASE p # q
    BY <1>2, <1>5, <2>1 DEF UnusedYet
  <2>2. CASE p = q
    <3>1. c = b
      BY <1>6, <2>2
    <3>2. \A a \in Addresses : Waits(c, a)' => addr'[p] = a
      BY <1>3, <1>5, <2>2, <3>1 DEF OneAddress
    <3>3. ASSUME Clean(c)', NEW u \in Ids, madeWith[u] = c
          PROVE  FALSE
      <4>1. Clean(c)
        BY <3>3
      <4>2. PICK r \in Requests : Removing(r, c)
        BY <1>5, <3>1, <3>3, <4>1 DEF RemovedNext
      <4>3. r # q
        BY <1>7, <3>1, <4>2
      <4>4. <<"code", c>> \in Mine(r)
        BY <4>2 DEF Removing, Verifies, Mine, Needs
      <4>5. <<"code", c>> \in Mine(q)'
        BY <1>3, <1>4, <3>1 DEF Mine, Needs
      <4>6. <<"code", c>> \in clashed'
        BY <4>3, <4>4, <4>5 DEF Shared
      <4> QED BY <3>3, <4>6 DEF Clean
    <3> QED BY <1>2, <3>2, <3>3
  <2> QED BY <2>1, <2>2
<1>11. RemovedNext'
  <2> SUFFICES ASSUME NEW c \in Bringers, NEW a \in Addresses, NEW u \in Ids,
                      Clean(c)', Waits(c, a)', madeWith'[u] = c
               PROVE  \E p \in Requests : Removing(p, c)'
    BY DEF RemovedNext
  <2>1. PICK p \in Requests : Removing(p, c)
    BY <1>2, <1>5 DEF RemovedNext
  <2>2. p # q
    BY <1>6, <2>1 DEF Removing
  <2> QED BY <2>1, <2>2
<1>12. NoneBefore'
  <2> SUFFICES ASSUME NEW c \in Requests, NotSent(c)'
               PROVE  /\ \A a \in Addresses : ~Waits(c, a)'
                      /\ \A u \in Ids : madeWith'[u] # c
                      /\ \A p \in Requests : ~Verifies(p, c)'
    BY DEF NoneBefore
  <2>1. c # q /\ NotSent(c) /\ c \in Bringers
    BY <1>7 DEF Bringers
  <2>2. c # b
    BY <1>5, <2>1 DEF NoneBefore
  <2>3. \A p \in Requests : ~Verifies(p, c)'
    BY <1>6, <2>1, <2>2 DEF NoneBefore
  <2> QED BY <1>2, <1>5, <2>1, <2>3 DEF NoneBefore
<1> QED BY <1>8, <1>9, <1>10, <1>11, <1>12

LEMMA RecheckKeepsCodes ==
    ASSUME Inv, CodeInv, NEW q \in Requests, Recheck(q)
    PROVE  CodeInv'
<1>1. Step(q)
  BY DEF Step
<1>2. pc[q] = "recheck" /\ op[q] = "verify" /\ madeWith' = madeWith
  BY DEF Recheck, ghosts, Inv, Own, OnPath
<1>3. \A c : \A a \in Addresses : Waits(c, a)' => Waits(c, a)
  BY DEF Recheck, Waits, Inv, Typed, KeysTyped
<1>4. \/ pc'[q] = "done" /\ op'[q] = "none"
      \/ /\ pc'[q] = "insert" /\ op'[q] = "verify"
         /\ copy'[q] = copy[q] /\ addr'[q] = addr[q]
  BY <1>2 DEF Recheck, Ends, Goto, request, Inv, Typed, RequestsTyped
<1>5. \A c : Verifies(q, c)' => Verifies(q, c) /\ addr'[q] = addr[q]
  BY <1>2, <1>4 DEF Verifies
<1>6. \A c : ~Removing(q, c)
  BY <1>2 DEF Removing
<1>7. ~NotSent(q)'
  BY <1>4 DEF NotSent
<1> QED BY <1>1, <1>2, <1>3, <1>5, <1>6, <1>7, LessWaits

LEMMA ClearKeepsCodes ==
    ASSUME Inv, CodeInv, NEW q \in Requests, ClearPending(q)
    PROVE  CodeInv'
<1>1. Step(q)
  BY DEF Step
<1>2. pc[q] = "clear" /\ op[q] = "verify" /\ madeWith' = madeWith /\ addr[q] \in Addresses
  BY DEF ClearPending, ghosts, Inv, Own, OnPath, Carries
<1>3. /\ pc'[q] = "uncool" /\ op'[q] = "verify"
      /\ copy'[q] = copy[q] /\ addr'[q] = addr[q]
  BY <1>2 DEF ClearPending, Goto, request, Inv, Typed, RequestsTyped
<1>4. \A c : \A a \in Addresses : Waits(c, a)' => Waits(c, a)
  BY DEF ClearPending, Waits, Inv, Typed, KeysTyped
<1>5. \A c : Verifies(q, c)' => Verifies(q, c) /\ addr'[q] = addr[q]
  BY <1>2, <1>3 DEF Verifies
<1>6. ASSUME NEW c \in Bringers, NEW a \in Addresses, Removing(q, c), Clean(c)', Waits(c, a)'
      PROVE  FALSE
  <2>1. Verifies(q, c) /\ Waits(c, a) /\ copy[q].by = c
    BY <1>4, <1>6 DEF Removing, Verifies
  <2>2. a = addr[q]
    BY <2>1 DEF CodeInv, UnusedYet
  <2>3. CASE pending' = [pending EXCEPT ![addr[q]] = Nothing]
    BY <1>6, <2>2, <2>3 DEF Waits, Inv, Typed, KeysTyped
  <2>4. CASE c \in failed'
    BY <1>6, <2>4 DEF Clean
  <2> QED BY <2>1, <2>3, <2>4 DEF ClearPending, Fails
<1>7. ~NotSent(q)'
  BY <1>3 DEF NotSent
<1> QED BY <1>1, <1>2, <1>3, <1>4, <1>5, <1>6, <1>7, LessWaits

\* The account is made.
LEMMA InsertKeepsCodes ==
    ASSUME Inv, CodeInv, NEW q \in Requests,
           Insert(q), ~Held(addr[q], wish[q]), op[q] = "verify"
    PROVE  CodeInv'
<1>1. Step(q)
  BY DEF Step
<1> USE CodesOfOthers, <1>1 DEF CodeInv
<1>2. PICK b \in Bringers : copy[q].by = b
  BY DEF Inv, Own, Carries, Offers
<1>3. PICK w \in Ids : madeWith' = [madeWith EXCEPT ![w] = b]
  BY <1>2 DEF Insert
<1>4. /\ pc[q] = "insert" /\ pc'[q] = "settings" /\ op'[q] = "verify" /\ copy'[q] = copy[q]
      /\ addr'[q] = addr[q] /\ pending' = pending /\ clashed' = clashed /\ failed' = failed
  BY DEF Insert, keys, Inv, Typed, RequestsTyped
<1>5. \A c, a : Waits(c, a)' <=> Waits(c, a)
  BY <1>4 DEF Waits
<1>6. \A c : (Verifies(q, c) <=> c = b) /\ (Verifies(q, c)' <=> c = b)
  BY <1>2, <1>4 DEF Verifies
<1>7. /\ Removing(q, b)' /\ (\A c : ~Removing(q, c))
      /\ ~NotSent(q)'
  BY <1>4, <1>6 DEF Removing, NotSent
<1>8. madeWith \in [Ids -> Bringers \cup {Nothing}]
  BY DEF Inv, Typed, GhostsTyped
<1>9. \A u \in Ids : madeWith'[u] = IF u = w THEN b ELSE madeWith[u]
  BY <1>3, <1>8
<1>10. Clean(b) => \A u \in Ids : madeWith[u] # b
  BY <1>4, <1>6 DEF UnusedYet
<1>11. CodeMakesOneAccount'
  <2> SUFFICES ASSUME NEW u \in Ids, NEW v \in Ids, madeWith'[u] = madeWith'[v],
                      madeWith'[u] # Nothing, u # v, Clean(madeWith'[u])
               PROVE  FALSE
    BY <1>4 DEF CodeMakesOneAccount, Clean
  <2>1. CASE u = w
    BY <1>9, <1>10, <2>1
  <2>2. CASE v = w
    BY <1>9, <1>10, <2>2
  <2>3. CASE u # w /\ v # w
    BY <1>9, <2>3 DEF CodeMakesOneAccount, Clean
  <2> QED BY <2>1, <2>2, <2>3
<1>12. OneAddress'
  BY <1>5 DEF OneAddress
<1>13. UnusedYet'
  <2> SUFFICES ASSUME NEW p \in Requests, NEW c \in Bringers, Verifies(p, c)'
               PROVE  /\ \A a \in Addresses : Waits(c, a)' => addr'[p] = a
                      /\ Clean(c)' /\ pc'[p] \in {"recheck", "insert"}
                            => \A u \in Ids : madeWith'[u] # c
    BY DEF UnusedYet
  <2>1. CASE p = q
    BY <1>4, <1>5, <1>6, <2>1 DEF UnusedYet
  <2>2. CASE p # q /\ c # b
    BY <1>5, <1>9, <2>2 DEF UnusedYet
  <2>3. CASE p # q /\ c = b
    <3>1. <<"code", b>> \in Mine(p)
      BY <2>3 DEF Verifies, Mine, Needs
    <3>2. <<"code", b>> \in Mine(q)
      BY <1>2 DEF Mine, Needs
    <3>3. <<"code", b>> \in clashed'
      BY <1>4, <2>3, <3>1, <3>2 DEF Inv, Solo
    <3> QED BY <1>5, <2>3, <3>3 DEF UnusedYet, Clean
  <2> QED BY <2>1, <2>2, <2>3
<1>14. RemovedNext'
  <2> SUFFICES ASSUME NEW c \in Bringers, NEW a \in Addresses, NEW u \in Ids,
                      Clean(c)', Waits(c, a)', madeWith'[u] = c
               PROVE  \E p \in Requests : Removing(p, c)'
    BY DEF RemovedNext
  <2>1. CASE c = b
    BY <1>7, <2>1
  <2>2. CASE c # b
    <3>1. PICK p \in Requests : Removing(p, c)
      BY <1>5, <1>9, <2>2 DEF RemovedNext
    <3>2. p # q
      BY <1>7, <3>1
    <3> QED BY <3>1, <3>2
  <2> QED BY <2>1, <2>2
<1>15. NoneBefore'
  <2> SUFFICES ASSUME NEW c \in Requests, NotSent(c)'
               PROVE  /\ \A a \in Addresses : ~Waits(c, a)'
                      /\ \A u \in Ids : madeWith'[u] # c
                      /\ \A p \in Requests : ~Verifies(p, c)'
    BY DEF NoneBefore
  <2>1. c # q /\ NotSent(c) /\ c \in Bringers
    BY <1>7 DEF Bringers
  <2>2. c # b
    BY <1>6, <2>1 DEF NoneBefore
  <2>3. \A p \in Requests : ~Verifies(p, c)'
    BY <1>6, <2>1, <2>2 DEF NoneBefore
  <2> QED BY <1>5, <1>9, <2>1, <2>2, <2>3 DEF NoneBefore
<1> QED BY <1>11, <1>12, <1>13, <1>14, <1>15

LEMMA InitCodes == Init => CodeInv
<1> SUFFICES ASSUME Init
             PROVE  CodeInv
  OBVIOUS
<1>1. /\ \A u \in Ids : madeWith[u] = Nothing
      /\ \A q \in Requests : op[q] = "none" /\ pc[q] = "idle"
      /\ \A a, b \in Addresses : pending[a] # Nothing /\ pending[b] # Nothing => a = b
      /\ \A a \in Addresses : pending[a] # Nothing => pending[a].by = Earlier
  BY DEF Init
<1>2. \A c : \A q \in Requests : ~Verifies(q, c)
  BY <1>1 DEF Verifies
<1>3. \A a \in Addresses, c \in Requests : ~Waits(c, a)
  BY <1>1, AccountsAssumption DEF Waits
<1>4. CodeMakesOneAccount
  BY <1>1 DEF CodeMakesOneAccount
<1>5. OneAddress
  BY <1>1 DEF OneAddress, Waits
<1>6. UnusedYet
  BY <1>2 DEF UnusedYet
<1>7. RemovedNext
  BY <1>1, AccountsAssumption DEF RemovedNext, Bringers
<1>8. NoneBefore
  BY <1>1, <1>2, <1>3, AccountsAssumption DEF NoneBefore
<1> QED BY <1>4, <1>5, <1>6, <1>7, <1>8 DEF CodeInv

\* Time only takes codes away.
LEMMA TimeKeepsCodes ==
    ASSUME Inv, CodeInv, TimePasses \/ UNCHANGED vars
    PROVE  CodeInv'
<1>1. UNCHANGED <<pc, op, addr, copy, clashed, failed, madeWith>>
  BY DEF TimePasses, vars, request, ghosts
<1>2. \A c : \A a \in Addresses : Waits(c, a)' => Waits(c, a)
  BY DEF TimePasses, vars, Waits, Inv, Typed, KeysTyped
<1>3. /\ \A c : (Clean(c)' <=> Clean(c)) /\ (NotSent(c)' <=> NotSent(c))
      /\ \A q, c : (Verifies(q, c)' <=> Verifies(q, c)) /\ (Removing(q, c)' <=> Removing(q, c))
  BY <1>1 DEF Clean, NotSent, Verifies, Removing
<1>4. CodeMakesOneAccount'
  BY <1>1 DEF CodeInv, CodeMakesOneAccount
<1>5. OneAddress'
  BY <1>2 DEF CodeInv, OneAddress
<1>6. UnusedYet'
  BY <1>1, <1>2, <1>3 DEF CodeInv, UnusedYet
<1>7. RemovedNext'
  BY <1>1, <1>2, <1>3 DEF CodeInv, RemovedNext
<1>8. NoneBefore'
  BY <1>1, <1>2, <1>3 DEF CodeInv, NoneBefore
<1> QED BY <1>4, <1>5, <1>6, <1>7, <1>8 DEF CodeInv

\* An emailed code makes one account, also when the account is deleted and the code entered
\* again, unless two requests verified it at the same time or its removal failed.
THEOREM OneAccountPerCode == Spec => []CodeMakesOneAccount
<1>1. Init => Inv /\ CodeInv
  BY InitInv, InitCodes
<1>2. Inv /\ CodeInv /\ [Next]_vars => Inv' /\ CodeInv'
  <2> SUFFICES ASSUME Inv, CodeInv, [Next]_vars
               PROVE  CodeInv'
    BY StepKeepsInv
  <2>1. ASSUME NEW q \in Requests, Start(q) \/ Step(q)
        PROVE  CodeInv'
    BY <2>1, OthersSpareCodes, AsideKeepsCodes, VerifyKeepsCodes, StoreKeepsCodes,
       RecheckKeepsCodes, ClearKeepsCodes, InsertKeepsCodes
  <2> QED BY <2>1, TimeKeepsCodes DEF Next
<1>3. CodeInv => CodeMakesOneAccount
  BY DEF CodeInv
<1> QED BY <1>1, <1>2, <1>3, PTL DEF Spec
===============================================================================
