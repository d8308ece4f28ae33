--------------------------- MODULE ChatViewProofs ---------------------------
(***************************************************************************)
(* Proofs about ChatView, for any number of fetches, sends and messages,   *)
(* any sizes of pages and of the cache, and any order of events.           *)
(***************************************************************************)
EXTENDS ChatView, FiniteSetTheorems, WellFoundedInduction, TLAPS

\* Messages are numbered in the order of their times, and a send makes one of them.
ServerTyped ==
    /\ stored \in 0 .. MaxMessages
    /\ second \in [Ids -> 0 .. MaxSecond]
    /\ by \in [Ids -> Sends \cup {"other", "none"}]
    /\ deleted \subseteq 1 .. stored
    /\ \A m, k \in 1 .. stored : m <= k => second[m] <= second[k]
    /\ \A m \in Ids : by[m] \in Sends => m <= stored
    /\ \A m, k \in Ids : by[m] = by[k] /\ by[m] \in Sends => m = k

\* What the app has exists: messages that were stored, and entries of sends that began.
ViewTyped ==
    /\ list \in [Entries -> 0 .. 2]
    /\ \A s \in Sends : list[s] < 2
    /\ cursor \in Cursors /\ more \in BOOLEAN
    /\ cache \subseteq Entries /\ attached \in BOOLEAN
    /\ \A m \in Ids : m \in Listed \cup cache => m <= stored
    /\ \A s \in Sends : s \in Listed \cup cache => sending[s] # "idle"

FetchTyped ==
    /\ pc \in [Fetches -> {"idle", "cache", "sent", "read"}]
    /\ from \in [Fetches -> Cursors]
    /\ page \in [Fetches -> SUBSET Ids]
    /\ \A f \in Fetches : \A m \in page[f] : pc[f] = "read" /\ m <= stored
    /\ last \in [Fetches -> BOOLEAN]
    /\ scrolling \in Running \cup {NoFetch}

SocketTyped ==
    /\ link \in {"none", "up", "down"}
    /\ timers \in 0 .. MaxTimers
    /\ frames \in [Ids -> 0 .. 2]
    /\ \A m \in Ids : frames[m] > 0 => link = "up" /\ m <= stored

OtherTyped ==
    /\ sending \in [Sends -> {"idle", "posting", "stored", "failed", "done"}]
    /\ restored \in BOOLEAN
    /\ suspect \subseteq Ids /\ absent \subseteq Entries

Typed == ServerTyped /\ ViewTyped /\ FetchTyped /\ SocketTyped /\ OtherTyped

LEMMA Constants ==
    /\ MaxMessages \in Nat /\ MaxSecond \in Nat /\ MaxTimers \in Nat /\ CacheSize \in Nat
    /\ Limit \in Nat \ {0}
    /\ NoCursor \notin Nat
    /\ NoFetch \notin Fetches
    /\ Sends \cap Ids = {}
    /\ Entries = Ids \cup Sends
    /\ Ids \subseteq Nat
    /\ "other" \notin Sends /\ "none" \notin Sends
BY ChatViewAssumption DEF Ids, Entries

Less == {pair \in Nat \X Nat : pair[1] < pair[2]}

\* A set of natural numbers that is not empty has a least element.
LEMMA Least ==
    ASSUME NEW S \in SUBSET Nat, S # {}
    PROVE  \E n \in S : \A k \in S : n <= k
<1>1. IsWellFoundedOn(Less, Nat)
  BY NatLessThanWellFounded DEF OpToRel, Less
<1>2. PICK n \in S : \A k \in S : ~(<<k, n>> \in Less)
  BY <1>1, WFMin
<1>3. \A k \in S : ~(k < n)
  BY <1>2 DEF Less
<1> QED BY <1>3

LEMMA TypedIsTypeOK == Typed => TypeOK
<1> SUFFICES ASSUME Typed PROVE TypeOK
  OBVIOUS
<1>1. page \in [Fetches -> SUBSET (1 .. stored)]
  BY Constants DEF Typed, FetchTyped, ServerTyped, Ids
<1>2. \A f \in Fetches : page[f] # {} => pc[f] = "read"
  BY DEF Typed, FetchTyped
<1> QED BY <1>1, <1>2
     DEF Typed, ServerTyped, ViewTyped, FetchTyped, SocketTyped, OtherTyped, TypeOK

LEMMA TypedInit == Init => Typed
<1> SUFFICES ASSUME Init PROVE Typed
  OBVIOUS
<1>1. ServerTyped
  BY Constants DEF Init, ServerTyped, Ids
<1>2. ViewTyped
  <2>1. list = [e \in Entries |-> 0]
    BY DEF Init
  <2>2. list \in [Entries -> 0 .. 2] /\ \A e \in Entries : list[e] = 0
    BY ONLY <2>1
  <2>3. Listed = {} /\ \A s \in Sends : list[s] = 0
    BY <2>2 DEF Listed, Entries
  <2>4. cache = {} /\ cursor \in Cursors /\ more \in BOOLEAN /\ attached \in BOOLEAN
    BY DEF Init, Cursors
  <2> QED BY ONLY <2>2, <2>3, <2>4 DEF ViewTyped
<1>3. FetchTyped
  BY DEF Init, FetchTyped, Cursors
<1>4. SocketTyped
  <2>1. frames \in [Ids -> 0 .. 2] /\ \A m \in Ids : frames[m] = 0
    BY DEF Init
  <2>2. timers = 0 /\ link = "none" /\ 0 \in 0 .. MaxTimers
    BY Constants DEF Init
  <2> QED BY ONLY <2>1, <2>2 DEF SocketTyped
<1>5. OtherTyped
  BY DEF Init, OtherTyped
<1> QED BY <1>1, <1>2, <1>3, <1>4, <1>5 DEF Typed

-----------------------------------------------------------------------------
(* The service.                                                            *)

Stores(sender) ==
    /\ stored' = stored + 1 /\ stored + 1 \in Ids
    /\ \E t \in 0 .. MaxSecond : second' = [second EXCEPT ![stored + 1] = t]
    /\ by' = [by EXCEPT ![stored + 1] = sender]
    /\ UNCHANGED deleted
    /\ \A m \in 1 .. stored : second[m] <= second'[stored + 1]

LEMMA StoreStores ==
    ASSUME Typed, NEW sender, NEW t \in 0 .. MaxSecond, Store(sender, t)
    PROVE  Stores(sender)
<1> USE Constants DEF Typed, ServerTyped
<1>1. stored + 1 \in Ids /\ 0 .. MaxSecond \subseteq Nat
  BY DEF Store, Ids
<1>2. \A m \in 1 .. stored : m \in Ids /\ m <= stored
  BY DEF Ids
<1>3. second'[stored + 1] = t
  BY <1>1 DEF Store
<1>4. ASSUME NEW m \in 1 .. stored
      PROVE  second[m] <= t
  <2>1. stored # 0 /\ stored \in 1 .. stored
    OBVIOUS
  <2>2. second[m] <= second[stored] /\ second[stored] <= t
    BY <2>1, <1>2 DEF Store
  <2>3. second[m] \in Nat /\ second[stored] \in Nat
    BY <1>1, <1>2, <2>1
  <2> QED BY <1>1, <2>2, <2>3
<1> QED BY <1>1, <1>3, <1>4 DEF Store, Stores

LEMMA ServerTypedStep ==
    ASSUME Typed, [Next]_vars
    PROVE  ServerTyped'
<1> USE Constants DEF Typed, ServerTyped
<1>1. CASE UNCHANGED server
  BY <1>1 DEF server
<1>2. ASSUME NEW sender \in Sends \cup {"other"}, Stores(sender),
             sender \in Sends => \A m \in Ids : by[m] # sender
      PROVE  ServerTyped'
  <2>1. /\ stored' = stored + 1 /\ stored + 1 \in Ids
        /\ \A m \in 1 .. stored : m \in Ids /\ m # stored + 1
        /\ second' \in [Ids -> 0 .. MaxSecond]
        /\ \A m \in 1 .. stored : second'[m] = second[m]
        /\ by'[stored + 1] = sender
        /\ \A m \in Ids : m # stored + 1 => by'[m] = by[m]
        /\ by' \in [Ids -> Sends \cup {"other", "none"}]
    BY <1>2 DEF Stores, Ids
  <2>2. stored' \in 0 .. MaxMessages /\ deleted' \subseteq 1 .. stored'
    BY <1>2, <2>1 DEF Stores, Ids
  <2>3. ASSUME NEW m \in 1 .. stored', NEW k \in 1 .. stored', m <= k
        PROVE  second'[m] <= second'[k]
    <3>1. CASE m = stored + 1
      BY <3>1, <2>1, <2>3
    <3>2. CASE m # stored + 1 /\ k = stored + 1
      BY <3>2, <1>2, <2>1, <2>3 DEF Stores
    <3>3. CASE m # stored + 1 /\ k # stored + 1
      BY <3>3, <2>1, <2>3
    <3> QED BY <3>1, <3>2, <3>3
  <2>4. \A m \in Ids : by'[m] \in Sends => m <= stored'
    BY <2>1 DEF Ids
  <2>5. \A m, k \in Ids : by'[m] = by'[k] /\ by'[m] \in Sends => m = k
    BY <1>2, <2>1
  <2> QED BY <2>1, <2>2, <2>3, <2>4, <2>5
<1>3. ASSUME NEW m \in Ids, Delete(m)
      PROVE  ServerTyped'
  BY <1>3 DEF Delete, Ids
<1>4. ASSUME NEW f \in Fetches, FetchStep(f)
      PROVE  UNCHANGED server
  BY <1>4 DEF FetchStep, OpenScreen, RefreshButton, LoadMore, LoadCache, ReadPage,
              Receive, FetchFails
<1>5. ASSUME NEW s \in Sends, SendStep(s)
      PROVE  \/ UNCHANGED server
             \/ Stores(s) /\ \A m \in Ids : by[m] # s
  <2>1. ASSUME NEW t \in 0 .. MaxSecond, SendArrives(s, t)
        PROVE  Stores(s) /\ \A m \in Ids : by[m] # s
    BY <2>1, StoreStores DEF SendArrives
  <2> QED BY <1>5, <2>1 DEF SendStep, SendMessage, SendFails, SendAnswered
<1>6. ASSUME NEW t \in 0 .. MaxSecond, OthersSend(t)
      PROVE  Stores("other")
  BY <1>6, StoreStores DEF OthersSend
<1>7. ASSUME \/ \E m \in Ids : HandleWsEvent(m)
             \/ LinkEnds \/ Reconnect \/ UNCHANGED vars
      PROVE  UNCHANGED server
  BY <1>7 DEF HandleWsEvent, LinkEnds, Reconnect, vars, server
<1> QED BY <1>1, <1>2, <1>3, <1>4, <1>5, <1>6, <1>7 DEF Next

-----------------------------------------------------------------------------
(* What the app does to the list.                                          *)

LEMMA EmptiedFacts ==
    ASSUME list' = Emptied
    PROVE  list' \in [Entries -> 0 .. 2] /\ Listed' = {} /\ \A e \in Entries : list'[e] = 0
<1>1. list' = [e \in Entries |-> 0]
  BY DEF Emptied
<1>2. list' \in [Entries -> 0 .. 2] /\ \A e \in Entries : list'[e] = 0
  BY ONLY <1>1
<1> QED BY <1>2 DEF Listed

LEMMA RestoredFacts ==
    ASSUME Typed, list' = [e \in Entries |-> IF e \in cache THEN 1 ELSE 0]
    PROVE  /\ list' \in [Entries -> 0 .. 2]
           /\ \A e \in Entries : list'[e] < 2
           /\ Listed' = cache
<1>1. /\ list' \in [Entries -> 0 .. 2]
      /\ \A e \in Entries : list'[e] = IF e \in cache THEN 1 ELSE 0
  OBVIOUS
<1>2. cache \subseteq Entries
  BY DEF Typed, ViewTyped
<1> QED BY <1>1, <1>2 DEF Listed

LEMMA PageFacts ==
    ASSUME Typed, NEW f \in Fetches, list' = WithPage(f)
    PROVE  /\ list' \in [Entries -> 0 .. 2]
           /\ \A e \in Entries : e \notin page[f] => list'[e] = list[e]
           /\ \A e \in page[f] : list'[e] > 0 /\ (list'[e] > 1 => list[e] > 0)
           /\ \A s \in Sends : list'[s] = list[s]
           /\ Listed' = Listed \cup page[f]
<1>1. \A e \in Entries : list[e] \in 0 .. 2 /\ Add(list[e]) \in {1, 2}
                         /\ (Add(list[e]) > 1 => list[e] > 0)
  BY DEF Typed, ViewTyped, Add
<1>2. /\ \A e \in Entries : list'[e] = IF e \in page[f] THEN Add(list[e]) ELSE list[e]
      /\ DOMAIN list' = Entries
      /\ list' = [e \in Entries |-> list'[e]]
  BY DEF WithPage
<1>3. \A e \in Entries : list'[e] \in 0 .. 2
  BY <1>1, <1>2
<1>4. list' \in [Entries -> 0 .. 2]
  BY ONLY <1>2, <1>3
<1>5. page[f] \subseteq Ids /\ page[f] \subseteq Entries
  BY Constants DEF Typed, FetchTyped
<1>6. \A s \in Sends : s \in Entries /\ s \notin page[f]
  BY <1>5, Constants
<1>7. Listed' = Listed \cup page[f]
  BY <1>1, <1>2, <1>5 DEF Listed
<1> QED BY <1>1, <1>2, <1>4, <1>5, <1>6, <1>7

LEMMA PrependFacts ==
    ASSUME Typed, NEW x \in Entries, x \notin Listed, list' = Prepend(x)
    PROVE  /\ list' \in [Entries -> 0 .. 2]
           /\ list'[x] = 1
           /\ \A e \in Entries : e # x => list'[e] = list[e]
           /\ Listed' = Listed \cup {x}
<1>1. list \in [Entries -> 0 .. 2] /\ list[x] = 0
  BY DEF Typed, ViewTyped, Listed
<1>2. list' = [list EXCEPT ![x] = 1]
  BY <1>1 DEF Prepend, Add
<1>3. /\ list' \in [Entries -> 0 .. 2]
      /\ list'[x] = 1
      /\ \A e \in Entries : e # x => list'[e] = list[e]
  BY ONLY <1>1, <1>2, x \in Entries
<1> QED BY <1>3 DEF Listed

LEMMA ReplaceFacts ==
    ASSUME Typed, NEW s \in Sends, NEW m \in Ids,
           IF {s, m} \cap Listed # {}
           THEN list' = ReplaceLocalMessage(s, m) ELSE list' = list
    PROVE  /\ list' \in [Entries -> 0 .. 2]
           /\ list'[s] = 0
           /\ \A e \in Entries : e \notin {s, m} => list'[e] = list[e]
           /\ m \in Listed => list'[m] = list[m]
           /\ m \notin Listed => list'[m] = IF s \in Listed THEN 1 ELSE 0
           /\ Listed' \subseteq Listed \cup {m}
           /\ Listed \subseteq Listed' \cup {s}
           /\ s \notin Listed'
<1>1. list \in [Entries -> 0 .. 2] /\ s \in Entries /\ m \in Entries /\ s # m
  BY Constants DEF Typed, ViewTyped
<1>2. /\ m \in Listed <=> list[m] > 0
      /\ s \in Listed <=> list[s] > 0
      /\ list[m] \in 0 .. 2 /\ list[s] \in 0 .. 2
  BY <1>1 DEF Listed
<1>3. \/ m \in Listed /\ list' = [list EXCEPT ![s] = 0]
      \/ m \notin Listed /\ s \in Listed /\ list' = [list EXCEPT ![s] = 0, ![m] = 1]
      \/ m \notin Listed /\ s \notin Listed /\ list' = list
  BY DEF ReplaceLocalMessage
<1>4. /\ list' \in [Entries -> 0 .. 2]
      /\ list'[s] = 0
      /\ \A e \in Entries : e \notin {s, m} => list'[e] = list[e]
      /\ m \in Listed => list'[m] = list[m]
      /\ m \notin Listed => list'[m] = IF s \in Listed THEN 1 ELSE 0
  <2>1. CASE m \in Listed /\ list' = [list EXCEPT ![s] = 0]
    BY <2>1, <1>1
  <2>2. CASE m \notin Listed /\ s \in Listed /\ list' = [list EXCEPT ![s] = 0, ![m] = 1]
    BY <2>2, <1>1
  <2>3. CASE m \notin Listed /\ s \notin Listed /\ list' = list
    BY <2>3, <1>1, <1>2
  <2> QED BY <1>3, <2>1, <2>2, <2>3
<1>5. \A e \in Entries : (e \in Listed <=> list[e] > 0) /\ (e \in Listed' <=> list'[e] > 0)
  BY DEF Listed
<1>6. Listed \subseteq Entries /\ Listed' \subseteq Entries
  BY DEF Listed
<1> QED BY <1>1, <1>2, <1>4, <1>5, <1>6

LEMMA CacheFacts == CacheMessages => cache' \subseteq cache \cup Listed'
BY DEF CacheMessages

-----------------------------------------------------------------------------
(* Types.                                                                  *)

Onward ==
    /\ stored <= stored'
    /\ \A s \in Sends : sending[s] # "idle" => sending'[s] # "idle"

LEMMA OnwardStep == Typed /\ [Next]_vars => Onward
<1> SUFFICES ASSUME Typed, [Next]_vars PROVE Onward
  OBVIOUS
<1>1. stored \in Nat /\ sending \in [Sends -> {"idle", "posting", "stored", "failed", "done"}]
  BY Constants DEF Typed, ServerTyped, OtherTyped
<1>2. CASE UNCHANGED <<stored, sending>>
  BY <1>1, <1>2 DEF Onward
<1>3. ASSUME NEW f \in Fetches, FetchStep(f)
      PROVE  UNCHANGED <<stored, sending>>
  BY <1>3 DEF FetchStep, OpenScreen, RefreshButton, LoadMore, LoadCache, ReadPage,
              Receive, FetchFails, server
<1>4. ASSUME NEW s \in Sends, NEW label \in {"posting", "stored", "failed", "done"},
             stored' \in {stored, stored + 1},
             sending' = [sending EXCEPT ![s] = label] \/ sending' = sending
      PROVE  Onward
  BY <1>1, <1>4 DEF Onward
<1>5. ASSUME NEW s \in Sends, SendStep(s)
      PROVE  Onward
  <2>1. CASE SendMessage(s)
    BY <1>4, <2>1 DEF SendMessage, server
  <2>2. CASE SendFails(s)
    BY <1>4, <2>2 DEF SendFails, server
  <2>3. ASSUME NEW t \in 0 .. MaxSecond, SendArrives(s, t)
        PROVE  Onward
    BY <1>4, <2>3 DEF SendArrives, Store
  <2>4. ASSUME NEW m \in Ids, SendAnswered(s, m)
        PROVE  Onward
    BY <1>4, <2>4 DEF SendAnswered, server
  <2> QED BY <1>5, <2>1, <2>2, <2>3, <2>4 DEF SendStep
<1>6. ASSUME NEW t \in 0 .. MaxSecond, OthersSend(t)
      PROVE  Onward
  BY <1>1, <1>6 DEF OthersSend, Store, Onward
<1>7. ASSUME \/ \E m \in Ids : Delete(m) \/ HandleWsEvent(m)
             \/ LinkEnds \/ Reconnect \/ UNCHANGED vars
      PROVE  UNCHANGED <<stored, sending>>
  BY <1>7 DEF Delete, HandleWsEvent, LinkEnds, Reconnect, vars, server
<1> QED BY <1>2, <1>3, <1>5, <1>6, <1>7 DEF Next

LEMMA ViewFrame ==
    ASSUME Typed, Onward, ServerTyped',
           list' \in [Entries -> 0 .. 2], \A s \in Sends : list'[s] < 2,
           cursor' \in Cursors, more' \in BOOLEAN, attached' \in BOOLEAN,
           cache' \subseteq cache \cup Listed',
           \A m \in Ids : m \in Listed' => m \in Listed \cup cache \/ m <= stored,
           \A s \in Sends : s \in Listed' => s \in Listed \cup cache \/ sending'[s] # "idle"
    PROVE  ViewTyped'
<1>1. Listed' \subseteq Entries /\ Listed \subseteq Entries /\ cache \subseteq Entries
  BY DEF Listed, Typed, ViewTyped
<1>2. stored \in Nat /\ stored' \in Nat /\ stored <= stored'
  BY Constants DEF Typed, ServerTyped, Onward
<1>3. \A m \in Ids : m \in Listed' \cup cache' => m <= stored
  BY DEF Typed, ViewTyped
<1>4. \A s \in Sends : s \in Listed' \cup cache' => sending'[s] # "idle"
  BY DEF Typed, ViewTyped, Onward
<1>5. \A m \in Ids : m \in Listed' \cup cache' => m <= stored'
  BY <1>2, <1>3 DEF Ids
<1> QED BY <1>1, <1>4, <1>5 DEF ViewTyped

LEMMA NextCursorFacts ==
    ASSUME Typed, NEW f \in Fetches
    PROVE  /\ NextCursor(page[f]) \in Cursors
           /\ page[f] = {} => NextCursor(page[f]) = NoCursor
           /\ page[f] # {} => \E k \in page[f] : NextCursor(page[f]) = second[k]
           /\ page[f] # {} => \A k \in page[f] : NextCursor(page[f]) <= second[k]
<1> DEFINE P == page[f]
<1>1. P \subseteq Nat /\ P \subseteq Ids /\ \A k \in P : second[k] \in Nat /\ k \in 1 .. stored
  BY Constants DEF Typed, FetchTyped, ServerTyped, Ids
<1>2. CASE P = {}
  BY <1>2 DEF NextCursor, Cursors
<1>3. CASE P # {}
  <2>1. \E m \in P : \A k \in P : m <= k
    BY <1>1, <1>3, Least
  <2> DEFINE least == CHOOSE m \in P : \A k \in P : m <= k
  <2>2. least \in P /\ \A k \in P : least <= k
    BY <2>1
  <2>3. NextCursor(P) = second[least]
    BY <1>3 DEF NextCursor
  <2> HIDE DEF least, P
  <2>4. \A k \in P : second[least] <= second[k]
    BY <1>1, <2>2 DEF Typed, ServerTyped
  <2> QED BY <1>1, <1>3, <2>2, <2>3, <2>4 DEF P, Cursors
<1> QED BY <1>2, <1>3

LEMMA ViewTypedStep ==
    ASSUME Typed, ServerTyped', Onward, [Next]_vars
    PROVE  ViewTyped'
<1>0. /\ list \in [Entries -> 0 .. 2]
      /\ \A s \in Sends : list[s] < 2 /\ s \in Entries
      /\ cursor \in Cursors /\ more \in BOOLEAN /\ attached \in BOOLEAN
      /\ NoCursor \in Cursors
      /\ \A m \in Ids : m \in Entries
  BY Constants DEF Typed, ViewTyped, Cursors
<1>1. CASE UNCHANGED <<list, cache>> /\ cursor' \in Cursors /\ more' \in BOOLEAN
           /\ attached' \in BOOLEAN
  <2>1. Listed' = Listed
    BY <1>1 DEF Listed
  <2> QED BY <1>0, <1>1, <2>1, ViewFrame
<1>2. ASSUME NEW f \in Fetches, Refresh(f), attached' \in BOOLEAN
      PROVE  ViewTyped'
  <2>1. list' \in [Entries -> 0 .. 2] /\ Listed' = {} /\ \A s \in Sends : list'[s] < 2
    BY <1>0, <1>2, EmptiedFacts DEF Refresh
  <2>2. cursor' \in Cursors /\ more' \in BOOLEAN /\ cache' = cache
    BY <1>0, <1>2 DEF Refresh
  <2> QED BY <1>2, <2>1, <2>2, ViewFrame
<1>3. ASSUME NEW f \in Fetches, FetchStep(f)
      PROVE  ViewTyped'
  <2>1. CASE OpenScreen(f) \/ RefreshButton(f)
    BY <1>0, <1>2, <2>1 DEF OpenScreen, RefreshButton
  <2>2. CASE LoadMore(f) \/ ReadPage(f) \/ FetchFails(f)
    BY <1>0, <1>1, <2>2 DEF LoadMore, ReadPage, FetchFails, Returns, Rebuilt, view
  <2>3. CASE LoadCache(f)
    <3>1. CASE cache = {}
      BY <1>0, <1>1, <2>3, <3>1 DEF LoadCache, Returns, Rebuilt
    <3>2. CASE cache # {}
      <4>1. /\ list' = [e \in Entries |-> IF e \in cache THEN 1 ELSE 0]
            /\ UNCHANGED <<cursor, more, cache>> /\ attached' \in BOOLEAN
        BY <2>3, <3>2 DEF LoadCache, Shows
      <4> QED BY <1>0, <4>1, RestoredFacts, ViewFrame
    <3> QED BY <3>1, <3>2
  <2>4. CASE Receive(f)
    <3>1. /\ list' = WithPage(f) /\ cursor' = NextCursor(page[f])
          /\ more' \in BOOLEAN /\ attached' \in BOOLEAN /\ CacheMessages
      BY <2>4 DEF Receive, Shows
    <3>2. \A m \in page[f] : m \in Ids /\ m <= stored
      BY DEF Typed, FetchTyped
    <3>3. \A s \in Sends : s \notin page[f]
      BY <3>2, Constants
    <3> QED BY <1>0, <3>1, <3>2, <3>3, PageFacts, NextCursorFacts, CacheFacts, ViewFrame
  <2> QED BY <1>3, <2>1, <2>2, <2>3, <2>4 DEF FetchStep
<1>4. ASSUME NEW s \in Sends, SendStep(s)
      PROVE  ViewTyped'
  <2>1. CASE SendMessage(s)
    <3>1. /\ list' = Prepend(s) /\ UNCHANGED <<cursor, more, cache>> /\ attached' \in BOOLEAN
          /\ sending[s] = "idle" /\ sending' = [sending EXCEPT ![s] = "posting"]
      BY <2>1 DEF SendMessage, Shows
    <3>2. s \notin Listed /\ sending'[s] # "idle"
      BY <3>1 DEF Typed, ViewTyped, OtherTyped
    <3>3. \A m \in Ids : m # s
      BY Constants
    <3> QED BY <1>0, <3>1, <3>2, <3>3, PrependFacts, ViewFrame
  <2>2. CASE SendFails(s)
    BY <1>0, <1>1, <2>2 DEF SendFails, Rebuilt
  <2>3. ASSUME NEW t \in 0 .. MaxSecond, SendArrives(s, t)
        PROVE  ViewTyped'
    BY <1>0, <1>1, <2>3 DEF SendArrives, view
  <2>4. ASSUME NEW m \in Ids, SendAnswered(s, m)
        PROVE  ViewTyped'
    <3>1. /\ IF {s, m} \cap Listed # {}
             THEN list' = ReplaceLocalMessage(s, m) ELSE list' = list
          /\ UNCHANGED <<cursor, more>> /\ attached' \in BOOLEAN /\ CacheMessages
      BY <1>0, <2>4 DEF SendAnswered, Shows
    <3>2. m <= stored
      BY <2>4 DEF SendAnswered, Typed, ServerTyped
    <3>3. \A r \in Sends : r # m
      BY Constants
    <3> QED BY <1>0, <3>1, <3>2, <3>3, ReplaceFacts, CacheFacts, ViewFrame
  <2> QED BY <1>4, <2>1, <2>2, <2>3, <2>4 DEF SendStep
<1>5. ASSUME NEW m \in Ids, HandleWsEvent(m)
      PROVE  ViewTyped'
  <2>1. CASE m \in Listed
    BY <1>0, <1>1, <1>5, <2>1 DEF HandleWsEvent
  <2>2. CASE m \notin Listed
    <3>1. /\ list' = Prepend(m) /\ UNCHANGED <<cursor, more>> /\ attached' \in BOOLEAN
          /\ CacheMessages /\ m <= stored
      BY <1>5, <2>2 DEF HandleWsEvent, Shows, Typed, SocketTyped
    <3>2. \A s \in Sends : s # m
      BY Constants
    <3> QED BY <1>0, <2>2, <3>1, <3>2, PrependFacts, CacheFacts, ViewFrame
  <2> QED BY <2>1, <2>2
<1>6. ASSUME \/ \E t \in 0 .. MaxSecond : OthersSend(t)
             \/ \E m \in Ids : Delete(m)
             \/ LinkEnds \/ Reconnect \/ UNCHANGED vars
      PROVE  ViewTyped'
  BY <1>0, <1>1, <1>6 DEF OthersSend, Delete, LinkEnds, Reconnect, Rebuilt, vars, view
<1> QED BY <1>3, <1>4, <1>5, <1>6 DEF Next

\* A step of a fetch changes the label, the request and the answer of that fetch only.
Fetched(f, label) ==
    /\ pc' = [pc EXCEPT ![f] = label]
    /\ from' \in [Fetches -> Cursors] /\ last' \in [Fetches -> BOOLEAN]
    /\ \A g \in Fetches \ {f} : from'[g] = from[g] /\ last'[g] = last[g] /\ page'[g] = page[g]

LEMMA RequestFetches ==
    ASSUME Typed, NEW f \in Fetches, NEW entries, Request(f, entries)
    PROVE  Fetched(f, "sent") /\ page' = page /\ from'[f] = cursor
BY DEF Request, Fetched, Typed, FetchTyped, ViewTyped

LEMMA EndsFetches ==
    ASSUME Typed, NEW f \in Fetches, Ends(f)
    PROVE  /\ Fetched(f, "idle") /\ page'[f] = {}
           /\ DOMAIN page' = Fetches /\ page' = [g \in Fetches |-> page'[g]]
           /\ scrolling' \in {scrolling, NoFetch} /\ scrolling' # f
<1>1. from' = [from EXCEPT ![f] = NoCursor] /\ last' = [last EXCEPT ![f] = FALSE]
      /\ page' = [page EXCEPT ![f] = {}] /\ NoCursor \in Cursors
  BY DEF Ends, Cursors
<1>2. /\ from \in [Fetches -> Cursors] /\ last \in [Fetches -> BOOLEAN]
      /\ DOMAIN page = Fetches
  BY DEF Typed, FetchTyped
<1>3. /\ from' \in [Fetches -> Cursors] /\ last' \in [Fetches -> BOOLEAN]
      /\ \A g \in Fetches \ {f} : from'[g] = from[g] /\ last'[g] = last[g]
  BY ONLY <1>1, <1>2
<1>4. /\ \A g \in Fetches \ {f} : page'[g] = page[g]
      /\ page'[f] = {} /\ DOMAIN page' = Fetches /\ page' = [g \in Fetches |-> page'[g]]
  BY ONLY <1>1, <1>2, f \in Fetches
<1>5. Fetched(f, "idle")
  BY <1>3, <1>4 DEF Ends, Fetched
<1>6. scrolling' \in {scrolling, NoFetch} /\ scrolling' # f
  BY Constants DEF Ends
<1> QED BY <1>4, <1>5, <1>6

LEMMA FetchFrame ==
    ASSUME Typed, Onward, ServerTyped', NEW f \in Fetches,
           NEW label \in {"idle", "cache", "sent", "read"},
           Fetched(f, label),
           page' \in [Fetches -> SUBSET Ids],
           \A m \in page'[f] : label = "read" /\ m <= stored,
           scrolling' \in {scrolling, NoFetch, f},
           scrolling' = f => label # "idle"
    PROVE  FetchTyped'
<1>1. pc' \in [Fetches -> {"idle", "cache", "sent", "read"}]
      /\ pc'[f] = label /\ \A g \in Fetches \ {f} : pc'[g] = pc[g]
  BY DEF Fetched, Typed, FetchTyped
<1>2. stored \in Nat /\ stored' \in Nat /\ stored <= stored'
  BY Constants DEF Typed, ServerTyped, Onward
<1>3. ASSUME NEW g \in Fetches, NEW m \in page'[g]
      PROVE  pc'[g] = "read" /\ m <= stored'
  <2>1. m \in Nat
    BY Constants
  <2>2. CASE g = f
    BY <1>1, <1>2, <2>1, <2>2
  <2>3. CASE g # f
    BY <1>1, <1>2, <2>1, <2>3 DEF Fetched, Typed, FetchTyped
  <2> QED BY <2>2, <2>3
<1>4. scrolling' \in Running' \cup {NoFetch}
  <2>1. CASE scrolling' = f
    BY <1>1, <2>1 DEF Running
  <2>2. CASE scrolling' = NoFetch
    BY <2>2
  <2>3. CASE scrolling' = scrolling /\ scrolling' # f
    BY <1>1, <2>3 DEF Running, Typed, FetchTyped
  <2> QED BY <2>1, <2>2, <2>3
<1> QED BY <1>1, <1>3, <1>4 DEF Fetched, FetchTyped

LEMMA FetchTypedStep ==
    ASSUME Typed, ServerTyped', Onward, [Next]_vars
    PROVE  FetchTyped'
<1>0. /\ page \in [Fetches -> SUBSET Ids]
      /\ \A f \in Fetches : \A m \in page[f] : pc[f] = "read" /\ m <= stored
  BY DEF Typed, FetchTyped
<1>1. CASE UNCHANGED fetching
  <2>1. \A f \in Fetches : \A m \in page'[f] : pc'[f] = "read" /\ m <= stored'
    <3>1. stored \in Nat /\ stored' \in Nat /\ stored <= stored' /\ Ids \subseteq Nat
      BY Constants DEF Typed, ServerTyped, Onward
    <3>2. \A f \in Fetches : page[f] \subseteq Ids
      BY <1>0
    <3> QED BY <1>0, <1>1, <3>1, <3>2 DEF fetching
  <2>2. Running' = Running
    BY <1>1 DEF fetching, Running
  <2> QED BY <1>1, <2>1, <2>2 DEF fetching, Typed, FetchTyped
<1>2. ASSUME NEW f \in Fetches, Refresh(f), scrolling' \in {scrolling, NoFetch}
      PROVE  FetchTyped'
  <2>1. Fetched(f, "sent") /\ page' = page /\ pc[f] = "idle"
    BY <1>2 DEF Refresh, Fetched, Typed, FetchTyped, Cursors
  <2> QED BY <1>0, <1>2, <2>1, FetchFrame
<1>3. ASSUME NEW f \in Fetches, FetchStep(f)
      PROVE  FetchTyped'
  <2>1. CASE OpenScreen(f) \/ RefreshButton(f)
    BY <1>2, <2>1 DEF OpenScreen, RefreshButton
  <2>2. CASE LoadMore(f)
    <3>1. pc[f] = "idle" /\ scrolling' = f
      BY <2>2 DEF LoadMore
    <3>2. CASE Listed = {}
      <4>1. Fetched(f, "cache") /\ page' = page
        BY <2>2, <3>2 DEF LoadMore, Fetched, Typed, FetchTyped
      <4> QED BY <1>0, <3>1, <4>1, FetchFrame
    <3>3. CASE Listed # {}
      <4>1. Fetched(f, "sent") /\ page' = page
        BY <2>2, <3>3, RequestFetches DEF LoadMore
      <4> QED BY <1>0, <3>1, <4>1, FetchFrame
    <3> QED BY <3>2, <3>3
  <2>3. CASE LoadCache(f)
    <3>1. pc[f] = "cache"
      BY <2>3 DEF LoadCache
    <3>2. CASE more
      <4>1. Fetched(f, "sent") /\ page' = page /\ scrolling' = scrolling
        BY <2>3, <3>2, RequestFetches DEF LoadCache
      <4> QED BY <1>0, <3>1, <4>1, FetchFrame
    <3>3. CASE ~more
      <4>1. Ends(f)
        BY <2>3, <3>3 DEF LoadCache
      <4>2. page' = [page EXCEPT ![f] = {}]
        BY <4>1 DEF Ends
      <4>3. page' \in [Fetches -> SUBSET Ids]
        BY <1>0, <4>2
      <4> QED BY <4>1, <4>3, EndsFetches, FetchFrame
    <3> QED BY <3>2, <3>3
  <2>4. CASE ReadPage(f)
    <3> DEFINE older == {m \in 1 .. stored : from[f] # NoCursor => second[m] <= from[f]}
               P == {m \in older : Cardinality({k \in older : k > m}) < Limit} \ deleted
    <3>1. page' = [page EXCEPT ![f] = P] /\ scrolling' = scrolling /\ pc[f] = "sent"
      BY <2>4 DEF ReadPage
    <3>2. Fetched(f, "read")
      BY <2>4 DEF ReadPage, Fetched, Typed, FetchTyped, Cursors
    <3>3. P \in SUBSET (1 .. stored)
      OBVIOUS
    <3> HIDE DEF P
    <3>4. P \in SUBSET Ids /\ \A m \in P : m <= stored
      BY <3>3, Constants DEF Ids, Typed, ServerTyped
    <3>5. page' \in [Fetches -> SUBSET Ids] /\ page'[f] = P
      BY <1>0, <3>1, <3>4
    <3> QED BY <3>1, <3>2, <3>4, <3>5, FetchFrame
  <2>5. CASE Receive(f) \/ FetchFails(f)
    <3>1. Ends(f)
      BY <2>5 DEF Receive, FetchFails
    <3>2. page' = [page EXCEPT ![f] = {}]
      BY <3>1 DEF Ends
    <3>3. page' \in [Fetches -> SUBSET Ids]
      BY <1>0, <3>2
    <3> QED BY <3>1, <3>3, EndsFetches, FetchFrame
  <2> QED BY <1>3, <2>1, <2>2, <2>3, <2>4, <2>5 DEF FetchStep
<1>4. ASSUME NEW s \in Sends, SendStep(s)
      PROVE  UNCHANGED fetching
  BY <1>4 DEF SendStep, SendMessage, SendFails, SendArrives, SendAnswered
<1>5. ASSUME \/ \E t \in 0 .. MaxSecond : OthersSend(t)
             \/ \E m \in Ids : Delete(m) \/ HandleWsEvent(m)
             \/ LinkEnds \/ Reconnect \/ UNCHANGED vars
      PROVE  UNCHANGED fetching
  BY <1>5 DEF OthersSend, Delete, HandleWsEvent, LinkEnds, Reconnect, vars, fetching
<1> QED BY <1>1, <1>3, <1>4, <1>5 DEF Next

LEMMA SocketTypedStep ==
    ASSUME Typed, ServerTyped', Onward, [Next]_vars
    PROVE  SocketTyped'
<1>0. /\ frames \in [Ids -> 0 .. 2] /\ timers \in 0 .. MaxTimers
      /\ \A m \in Ids : frames[m] > 0 => link = "up" /\ m <= stored
  BY DEF Typed, SocketTyped
<1>1. \A m \in Ids : m <= stored => m <= stored'
  BY Constants DEF Typed, ServerTyped, Onward
<1>2. CASE UNCHANGED socket
  BY <1>0, <1>1, <1>2 DEF socket, Typed, SocketTyped
<1>3. ASSUME frames' = [m \in Ids |-> 0], timers' \in 0 .. MaxTimers, link' \in {"up", "down"}
      PROVE  SocketTyped'
  <2>1. frames' \in [Ids -> 0 .. 2] /\ \A m \in Ids : frames'[m] = 0
    BY <1>3
  <2> QED BY <1>3, <2>1 DEF SocketTyped
<1>4. ASSUME NEW f \in Fetches, FetchStep(f)
      PROVE  SocketTyped'
  <2>1. CASE OpenScreen(f)
    BY <1>0, <1>3, <2>1 DEF OpenScreen
  <2>2. CASE ~OpenScreen(f)
    BY <1>2, <1>4, <2>2 DEF FetchStep, RefreshButton, LoadMore, LoadCache, ReadPage, Receive,
                            FetchFails
  <2> QED BY <2>1, <2>2
<1>5. ASSUME NEW s \in Sends, SendStep(s)
      PROVE  UNCHANGED socket
  BY <1>5 DEF SendStep, SendMessage, SendFails, SendArrives, SendAnswered, socket
<1>6. ASSUME NEW t \in 0 .. MaxSecond, OthersSend(t)
      PROVE  SocketTyped'
  <2>1. /\ UNCHANGED <<link, timers>> /\ stored' = stored + 1
        /\ UNCHANGED frames \/ (link = "up" /\ frames' = [frames EXCEPT ![stored + 1] = 2])
    BY <1>6 DEF OthersSend, Store
  <2>2. frames' \in [Ids -> 0 .. 2] /\ \A m \in Ids : m # stored + 1 => frames'[m] = frames[m]
    BY <1>0, <2>1
  <2>3. ASSUME NEW m \in Ids, frames'[m] > 0
        PROVE  link' = "up" /\ m <= stored'
    <3>1. CASE m = stored + 1
      <4>1. stored \in Nat
        BY Constants DEF Typed, ServerTyped
      <4>2. ~(frames[m] > 0)
        BY <1>0, <3>1, <4>1
      <4> QED BY <2>1, <2>3, <3>1, <4>1, <4>2
    <3>2. CASE m # stored + 1
      BY <1>0, <1>1, <2>1, <2>2, <2>3, <3>2
    <3> QED BY <3>1, <3>2
  <2> QED BY <1>0, <2>1, <2>2, <2>3 DEF Typed, SocketTyped
<1>7. ASSUME NEW m \in Ids, HandleWsEvent(m)
      PROVE  SocketTyped'
  <2>1. frames' = [frames EXCEPT ![m] = @ - 1] /\ frames[m] > 0 /\ UNCHANGED <<link, timers>>
    BY <1>7 DEF HandleWsEvent
  <2>2. frames' \in [Ids -> 0 .. 2] /\ \A k \in Ids : frames'[k] > 0 => frames[k] > 0
    BY <1>0, <2>1
  <2> QED BY <1>0, <1>1, <2>1, <2>2 DEF Typed, SocketTyped
<1>8. CASE LinkEnds
  BY <1>0, <1>3, <1>8, Constants DEF LinkEnds, LoseFrames
<1>9. CASE Reconnect
  BY <1>0, <1>3, <1>9, Constants DEF Reconnect, LoseFrames
<1>10. ASSUME \/ \E m \in Ids : Delete(m)
              \/ UNCHANGED vars
       PROVE  UNCHANGED socket
  BY <1>10 DEF Delete, vars, socket
<1> QED BY <1>2, <1>4, <1>5, <1>6, <1>7, <1>8, <1>9, <1>10 DEF Next

LEMMA OtherTypedStep ==
    ASSUME Typed, [Next]_vars
    PROVE  OtherTyped'
<1>0. /\ sending \in [Sends -> {"idle", "posting", "stored", "failed", "done"}]
      /\ restored \in BOOLEAN /\ suspect \subseteq Ids /\ absent \subseteq Entries
      /\ Ids \subseteq Entries /\ Sends \subseteq Entries
  BY Constants DEF Typed, OtherTyped
<1>1. CASE UNCHANGED <<sending, doubts>>
  BY <1>0, <1>1 DEF doubts, OtherTyped
<1>2. ASSUME NEW f \in Fetches, FetchStep(f)
      PROVE  OtherTyped'
  <2>1. UNCHANGED sending
    BY <1>2 DEF FetchStep, OpenScreen, RefreshButton, LoadMore, LoadCache, ReadPage, Receive,
                FetchFails
  <2>2. restored' \in BOOLEAN
    BY <1>0, <1>2 DEF FetchStep, OpenScreen, RefreshButton, Refresh, LoadMore, LoadCache, ReadPage,
                Receive, FetchFails, doubts
  <2>3. absent' \subseteq Entries
    BY <1>0, <1>2 DEF FetchStep, OpenScreen, RefreshButton, Refresh, LoadMore, LoadCache, ReadPage,
                Receive, FetchFails, doubts
  <2>4. suspect' \subseteq Ids
    BY <1>0, <1>2 DEF FetchStep, OpenScreen, RefreshButton, Refresh, LoadMore, LoadCache, ReadPage,
                Receive, FetchFails, doubts, Request
  <2> QED BY <1>0, <2>1, <2>2, <2>3, <2>4 DEF OtherTyped
<1>3. ASSUME NEW s \in Sends, SendStep(s)
      PROVE  OtherTyped'
  <2>1. ASSUME NEW label \in {"posting", "stored", "failed", "done"},
               sending' \in {sending, [sending EXCEPT ![s] = label]},
               restored' = restored, suspect' \subseteq Ids, absent' \subseteq absent \cup {s}
        PROVE  OtherTyped'
    BY <1>0, <2>1 DEF OtherTyped
  <2>2. CASE SendMessage(s)
    BY <1>0, <2>1, <2>2 DEF SendMessage, doubts
  <2>3. CASE SendFails(s)
    BY <1>0, <2>1, <2>3 DEF SendFails
  <2>4. ASSUME NEW t \in 0 .. MaxSecond, SendArrives(s, t)
        PROVE  OtherTyped'
    BY <1>0, <2>1, <2>4 DEF SendArrives
  <2>5. ASSUME NEW m \in Ids, SendAnswered(s, m)
        PROVE  OtherTyped'
    BY <1>0, <2>1, <2>5 DEF SendAnswered, Doubts
  <2> QED BY <1>3, <2>2, <2>3, <2>4, <2>5 DEF SendStep
<1>4. ASSUME NEW t \in 0 .. MaxSecond, OthersSend(t)
      PROVE  OtherTyped'
  <2>1. stored + 1 \in Ids
    BY <1>4, StoreStores DEF OthersSend, Stores
  <2> QED BY <1>0, <1>4, <2>1 DEF OthersSend, OtherTyped
<1>5. ASSUME NEW m \in Ids, HandleWsEvent(m)
      PROVE  OtherTyped'
  BY <1>0, <1>5 DEF HandleWsEvent, Doubts, OtherTyped
<1>6. CASE LinkEnds \/ Reconnect
  BY <1>0, <1>6 DEF LinkEnds, Reconnect, LoseFrames, OtherTyped
<1>7. CASE (\E m \in Ids : Delete(m)) \/ UNCHANGED vars
  BY <1>1, <1>7 DEF Delete, vars, doubts
<1> QED BY <1>2, <1>3, <1>4, <1>5, <1>6, <1>7 DEF Next

LEMMA TypedStep == Typed /\ [Next]_vars => Typed'
BY OnwardStep, ServerTypedStep, ViewTypedStep, FetchTypedStep, SocketTypedStep, OtherTypedStep
   DEF Typed

LEMMA AlwaysTyped == Spec => []Typed
BY TypedInit, TypedStep, PTL DEF Spec

\* The types of ChatView; what a fetch holds fits its await, and frames travel on a live
\* connection.
THEOREM TypeCorrect == Spec => []TypeOK
BY AlwaysTyped, TypedIsTypeOK, PTL

-----------------------------------------------------------------------------
(* Entries of sends.                                                       *)

LEMMA ResolveStep == Typed /\ EntriesResolve /\ [Next]_vars => EntriesResolve'
<1> SUFFICES ASSUME Typed, EntriesResolve, [Next]_vars PROVE EntriesResolve'
  OBVIOUS
<1>0. /\ \A s \in Sends : s \in Listed => restored \/ sending[s] \in {"posting", "stored", "failed"}
      /\ DOMAIN sending = Sends
      /\ \A s \in Sends : s \in Entries /\ (s \in Listed <=> list[s] > 0)
                          /\ (s \in Listed' <=> list'[s] > 0)
      /\ \A m \in Ids : m \notin Sends
  BY Constants DEF EntriesResolve, Typed, OtherTyped, Listed
<1>1. ASSUME restored' = restored, sending' = sending,
             \A s \in Sends : list'[s] > 0 => list[s] > 0
      PROVE  EntriesResolve'
  BY <1>0, <1>1 DEF EntriesResolve
<1>2. ASSUME NEW f \in Fetches, FetchStep(f)
      PROVE  EntriesResolve'
  <2>1. CASE OpenScreen(f) \/ RefreshButton(f)
    <3>1. Listed' = {}
      BY <2>1, EmptiedFacts DEF OpenScreen, RefreshButton, Refresh
    <3> QED BY <3>1 DEF EntriesResolve
  <2>2. CASE LoadMore(f) \/ ReadPage(f) \/ FetchFails(f)
    BY <1>1, <2>2 DEF LoadMore, ReadPage, FetchFails, view, doubts
  <2>3. CASE LoadCache(f)
    <3>1. restored' \/ UNCHANGED <<list, restored, sending>>
      BY <2>3 DEF LoadCache
    <3> QED BY <1>1, <3>1 DEF EntriesResolve
  <2>4. CASE Receive(f)
    <3>1. list' = WithPage(f) /\ UNCHANGED <<sending, restored>>
      BY <2>4 DEF Receive, Shows, doubts
    <3> QED BY <1>1, <3>1, PageFacts
  <2> QED BY <1>2, <2>1, <2>2, <2>3, <2>4 DEF FetchStep
<1>3. ASSUME NEW s \in Sends, SendStep(s)
      PROVE  EntriesResolve'
  <2>1. CASE SendMessage(s)
    <3>1. /\ list' = Prepend(s) /\ restored' = restored
          /\ sending[s] = "idle" /\ sending' = [sending EXCEPT ![s] = "posting"]
      BY <2>1 DEF SendMessage, Shows, doubts
    <3>2. s \notin Listed
      BY <3>1 DEF Typed, ViewTyped
    <3> QED BY <1>0, <3>1, <3>2, PrependFacts DEF EntriesResolve
  <2>2. ASSUME UNCHANGED <<list, restored>>,
               sending' = sending \/ \E label \in {"stored", "failed"} :
                                        sending' = [sending EXCEPT ![s] = label]
        PROVE  EntriesResolve'
    BY <1>0, <2>2 DEF EntriesResolve
  <2>3. CASE SendFails(s)
    BY <2>2, <2>3 DEF SendFails
  <2>4. ASSUME NEW t \in 0 .. MaxSecond, SendArrives(s, t)
        PROVE  EntriesResolve'
    BY <2>2, <2>4 DEF SendArrives, view
  <2>5. ASSUME NEW m \in Ids, SendAnswered(s, m)
        PROVE  EntriesResolve'
    <3>1. /\ IF {s, m} \cap Listed # {}
             THEN list' = ReplaceLocalMessage(s, m) ELSE list' = list
          /\ sending' = [sending EXCEPT ![s] = "done"] /\ restored' = restored
      BY <2>5 DEF SendAnswered, Shows
    <3>2. /\ list'[s] = 0
          /\ \A r \in Sends : r # s => list'[r] = list[r] /\ sending'[r] = sending[r]
      BY <1>0, <3>1, ReplaceFacts
    <3> QED BY <1>0, <3>1, <3>2 DEF EntriesResolve
  <2> QED BY <1>3, <2>1, <2>3, <2>4, <2>5 DEF SendStep
<1>4. ASSUME NEW m \in Ids, HandleWsEvent(m)
      PROVE  EntriesResolve'
  <2>1. CASE m \in Listed
    BY <1>1, <1>4, <2>1 DEF HandleWsEvent
  <2>2. CASE m \notin Listed
    <3>1. list' = Prepend(m) /\ UNCHANGED <<restored, sending>> /\ m \in Entries
      BY <1>4, <2>2, Constants DEF HandleWsEvent, Shows
    <3>2. \A s \in Sends : list'[s] = list[s]
      BY <1>0, <2>2, <3>1, PrependFacts
    <3> QED BY <1>1, <3>1, <3>2
  <2> QED BY <2>1, <2>2
<1>5. ASSUME \/ \E t \in 0 .. MaxSecond : OthersSend(t)
             \/ \E m \in Ids : Delete(m)
             \/ LinkEnds \/ Reconnect \/ UNCHANGED vars
      PROVE  EntriesResolve'
  BY <1>1, <1>5 DEF OthersSend, Delete, LinkEnds, Reconnect, vars, view, doubts
<1> QED BY <1>2, <1>3, <1>4, <1>5 DEF Next

\* The entry of a message that was sent goes when the answer comes, for any sends and fetches
\* in any order, unless the send failed or the cache brought the entry back.
THEOREM EntriesAreResolved == Spec => []EntriesResolve
<1>1. Init => EntriesResolve
  <2>1. Init => \A s \in Sends : list[s] = 0
    BY DEF Init, Entries
  <2> QED BY <2>1 DEF EntriesResolve, Listed
<1> QED BY <1>1, ResolveStep, AlwaysTyped, PTL DEF Spec

-----------------------------------------------------------------------------
(* Nothing is listed twice.                                                *)

\* No message is listed that a page still to come may bring, unless it is suspect: the list
\* is ahead of the cursor, of the cursor of a request under way, and of the page read for it.
Overlap == \A f, g \in Running : f # g => suspect = Ids

BehindCursor ==
    cursor # NoCursor =>
        /\ Listed # {}
        /\ \A m \in Ids : m \in Listed => m \in suspect \/ second[m] >= cursor

CacheFirst == \A f \in Fetches : pc[f] = "cache" => cursor = NoCursor \/ suspect = Ids

SentAhead ==
    \A f \in Fetches : \A m \in Ids :
        pc[f] = "sent" /\ m \in Listed =>
            m \in suspect \/ (from[f] # NoCursor /\ second[m] > from[f])

ReadAhead ==
    \A f \in Fetches : \A m \in Ids : \A k \in page[f] :
        pc[f] = "read" /\ m \in Listed =>
            m \in suspect \/ (second[m] >= second[k] /\ m # k)

TwiceInv ==
    Overlap /\ BehindCursor /\ CacheFirst /\ SentAhead /\ ReadAhead /\ NothingTwice

LEMMA ListedTyped ==
    ASSUME Typed
    PROVE  /\ \A m \in Ids : (m \in Listed <=> list[m] > 0) /\ list[m] \in 0 .. 2
           /\ \A m \in Ids : m \in Listed => m \in 1 .. stored
           /\ \A f \in Fetches : \A m \in page[f] : m \in 1 .. stored /\ m \in Ids
           /\ \A m \in Ids : second[m] \in Nat
           /\ 1 .. stored \subseteq Ids
           /\ \A f \in Fetches : from[f] \in Cursors
<1>1. 1 .. stored \subseteq Ids /\ stored \in Nat /\ \A m \in Ids : m <= stored => m \in 1 .. stored
  BY Constants DEF Typed, ServerTyped, Ids
<1>2. 0 .. MaxSecond \subseteq Nat
  BY Constants
<1>3. \A m \in Ids : m \in Entries
  BY Constants
<1>4. \A f \in Fetches : page[f] \subseteq Ids
  BY DEF Typed, FetchTyped
<1>5. \A m \in Ids : (m \in Listed <=> list[m] > 0) /\ list[m] \in 0 .. 2
  BY <1>3 DEF Typed, ViewTyped, Listed
<1>6. \A m \in Ids : second[m] \in Nat
  BY <1>2 DEF Typed, ServerTyped
<1>7. \A m \in Ids : m \in Listed => m \in 1 .. stored
  BY <1>1 DEF Typed, ViewTyped
<1>8. \A f \in Fetches : \A m \in page[f] : m \in 1 .. stored /\ m \in Ids
  BY <1>1, <1>4 DEF Typed, FetchTyped
<1>9. \A f \in Fetches : from[f] \in Cursors
  BY DEF Typed, FetchTyped
<1> QED BY <1>1, <1>5, <1>6, <1>7, <1>8, <1>9

\* A step that starts no fetch and ends none with a page.
LEMMA TwiceFrame ==
    ASSUME Typed, TwiceInv,
           suspect \subseteq suspect', suspect' \subseteq Ids,
           \A m \in Ids : list'[m] > 1 => list[m] > 1,
           \A m \in Ids : m \in Listed' =>
               \/ m \in Listed \/ m \in suspect'
               \/ Running = {} /\ (cursor = NoCursor \/ second[m] >= cursor),
           Listed # {} => Listed' # {},
           cursor' = cursor,
           \A f \in Fetches :
               \/ pc'[f] = "idle"
               \/ pc'[f] = pc[f] /\ from'[f] = from[f] /\ page'[f] = page[f],
           \A m \in 1 .. stored : second'[m] = second[m],
           \A m \in Ids : m \in Listed' => m \in 1 .. stored
    PROVE  TwiceInv'
<1>1. Running' \subseteq Running
  BY DEF Running
<1>2. Overlap'
  BY <1>1 DEF TwiceInv, Overlap
<1>3. BehindCursor'
  BY ListedTyped DEF TwiceInv, BehindCursor
<1>4. CacheFirst'
  BY DEF TwiceInv, CacheFirst
<1>5. ASSUME NEW f \in Fetches, NEW m \in Ids, m \in Listed', m \notin suspect', f \in Running
      PROVE  m \in Listed /\ m \in 1 .. stored /\ m \notin suspect
  BY <1>5
<1>6. SentAhead'
  <2> SUFFICES ASSUME NEW f \in Fetches, NEW m \in Ids, pc'[f] = "sent", m \in Listed',
                      m \notin suspect'
               PROVE  from'[f] # NoCursor /\ second'[m] > from'[f]
    BY DEF SentAhead
  <2>1. pc[f] = "sent" /\ from'[f] = from[f] /\ f \in Running
    BY DEF Running
  <2> QED BY <1>5, <2>1 DEF TwiceInv, SentAhead
<1>7. ReadAhead'
  <2> SUFFICES ASSUME NEW f \in Fetches, NEW m \in Ids, NEW k \in page'[f],
                      pc'[f] = "read", m \in Listed', m \notin suspect'
               PROVE  second'[m] >= second'[k] /\ m # k
    BY DEF ReadAhead
  <2>1. pc[f] = "read" /\ page'[f] = page[f] /\ f \in Running
    BY DEF Running
  <2>2. k \in 1 .. stored /\ second'[k] = second[k]
    BY <2>1, ListedTyped
  <2> QED BY <1>5, <2>1, <2>2 DEF TwiceInv, ReadAhead
<1>8. NothingTwice'
  BY DEF TwiceInv, NothingTwice
<1> QED BY <1>2, <1>3, <1>4, <1>6, <1>7, <1>8 DEF TwiceInv

LEMMA RefreshTwice ==
    ASSUME Typed, Typed', TwiceInv, NEW f \in Fetches, Refresh(f)
    PROVE  TwiceInv'
<1>1. Listed' = {} /\ \A m \in Ids : list'[m] = 0
  BY EmptiedFacts, Constants DEF Refresh
<1>2. cursor' = NoCursor
  BY DEF Refresh
<1>3. \A g \in Fetches : g # f => pc'[g] = pc[g]
  BY DEF Refresh, Typed, FetchTyped
<1>4. Overlap'
  <2>1. ASSUME NEW g \in Running', NEW h \in Running', g # h
        PROVE  Running # {}
    BY <1>3, <2>1 DEF Running
  <2> QED BY <2>1 DEF Overlap, Refresh
<1>5. pc'[f] = "sent"
  BY DEF Refresh, Typed, FetchTyped
<1> QED BY <1>1, <1>2, <1>4
     DEF TwiceInv, BehindCursor, CacheFirst, SentAhead, ReadAhead, NothingTwice

\* The request of LoadMore and LoadCache: what is listed is ahead of the cursor.
LEMMA RequestTwice ==
    ASSUME Typed, Typed', NEW f \in Fetches, Request(f, list'), UNCHANGED <<cursor, second>>,
           BehindCursor', NothingTwice', Overlap,
           Running \subseteq {f} => \A m \in Ids : m \in Listed' =>
               cursor = NoCursor \/ m \in suspect \/ second[m] >= cursor
    PROVE  TwiceInv'
<1>1. /\ pc'[f] = "sent" /\ from'[f] = cursor
      /\ \A g \in Fetches : g # f => pc'[g] = pc[g]
  BY DEF Request, Typed, FetchTyped
<1>2. CASE Running \ {f} # {}
  <2>1. suspect' = Ids
    BY <1>2 DEF Request
  <2> QED BY <2>1 DEF TwiceInv, Overlap, CacheFirst, SentAhead, ReadAhead
<1>3. CASE Running \ {f} = {}
  <2>1. suspect' = suspect \cup
           {m \in Ids : list'[m] > 0 /\ (cursor = NoCursor \/ second[m] = cursor)}
    BY <1>3 DEF Request
  <2>2. \A g \in Fetches : pc'[g] \in {"cache", "sent", "read"} => g = f
    BY <1>1, <1>3 DEF Running
  <2>3. Overlap' /\ CacheFirst' /\ ReadAhead'
    BY <1>1, <2>2 DEF Overlap, CacheFirst, ReadAhead, Running
  <2>4. SentAhead'
    <3> SUFFICES ASSUME NEW m \in Ids, m \in Listed', m \notin suspect'
                 PROVE  cursor # NoCursor /\ second[m] > cursor
      BY <1>1, <2>2 DEF SentAhead
    <3>1. list'[m] > 0
      BY DEF Listed
    <3>2. cursor # NoCursor /\ second[m] # cursor
      BY <2>1, <3>1
    <3>3. second[m] >= cursor
      BY <1>3, <2>1, <3>2
    <3>4. second[m] \in Nat /\ cursor \in Nat
      BY <3>2, ListedTyped DEF Typed, ViewTyped, Cursors
    <3> QED BY <3>2, <3>3, <3>4
  <2> QED BY <2>3, <2>4 DEF TwiceInv
<1> QED BY <1>2, <1>3

LEMMA LoadMoreTwice ==
    ASSUME Typed, Typed', TwiceInv, NEW f \in Fetches, LoadMore(f)
    PROVE  TwiceInv'
<1>1. UNCHANGED <<list, cursor, second>> /\ pc[f] = "idle"
  BY DEF LoadMore, server
<1>2. Listed' = Listed
  BY <1>1 DEF Listed
<1>3. CASE Listed # {}
  <2>1. suspect \subseteq suspect'
    BY <1>3 DEF LoadMore, Request, Typed, OtherTyped
  <2>2. BehindCursor' /\ NothingTwice'
    BY <1>1, <1>2, <2>1 DEF TwiceInv, BehindCursor, NothingTwice
  <2>3. Request(f, list')
    BY <1>1, <1>3 DEF LoadMore
  <2> QED BY <1>1, <1>2, <2>2, <2>3, RequestTwice DEF TwiceInv, BehindCursor
<1>4. CASE Listed = {}
  <2>1. /\ cursor = NoCursor /\ Listed' = {} /\ cursor' = NoCursor
        /\ suspect' = IF Running = {} THEN suspect ELSE Ids
        /\ pc' = [pc EXCEPT ![f] = "cache"]
    BY <1>1, <1>2, <1>4 DEF LoadMore, TwiceInv, BehindCursor
  <2>2. \A g \in Fetches : g # f => pc'[g] = pc[g]
    BY <2>1
  <2>3. Overlap'
    BY <2>1, <2>2 DEF Overlap, Running
  <2>4. NothingTwice'
    BY <1>1, <2>1 DEF TwiceInv, NothingTwice
  <2> QED BY <2>1, <2>3, <2>4 DEF TwiceInv, BehindCursor, CacheFirst, SentAhead, ReadAhead
<1> QED BY <1>3, <1>4

\* A fetch that runs with suspect = Ids, or is the only one.
LEMMA OthersIdle ==
    ASSUME Overlap, NEW f \in Running, NEW g \in Running, g # f
    PROVE  suspect = Ids
BY DEF Overlap

\* A step that ends a fetch leaves another running only if all messages are suspect.
LEMMA EndsTwice ==
    ASSUME Typed, Typed', Overlap, NEW f \in Running, Ends(f),
           UNCHANGED <<suspect, second>>,
           BehindCursor', NothingTwice'
    PROVE  TwiceInv'
<1>1. pc'[f] = "idle" /\ \A g \in Fetches : g # f => pc'[g] = pc[g]
  BY DEF Ends, Typed, FetchTyped
<1>2. \A g \in Fetches : pc'[g] \in {"cache", "sent", "read"} => suspect' = Ids
  BY <1>1, OthersIdle DEF Running
<1>3. Overlap' /\ CacheFirst' /\ SentAhead' /\ ReadAhead'
  BY <1>2 DEF Overlap, CacheFirst, SentAhead, ReadAhead, Running
<1> QED BY <1>3 DEF TwiceInv

LEMMA LoadCacheTwice ==
    ASSUME Typed, Typed', TwiceInv, NEW f \in Fetches, LoadCache(f)
    PROVE  TwiceInv'
<1>1. UNCHANGED <<cursor, second, more, cache>> /\ pc[f] = "cache" /\ f \in Running
  BY DEF LoadCache, server, Running
<1>2. cursor = NoCursor \/ suspect = Ids
  BY <1>1 DEF TwiceInv, CacheFirst
<1>3. suspect \subseteq suspect' /\ suspect' \subseteq Ids
  BY DEF LoadCache, Request, Typed, OtherTyped
<1>4. NothingTwice'
  <2>1. CASE cache = {}
    BY <1>3, <2>1 DEF LoadCache, TwiceInv, NothingTwice
  <2>2. CASE cache # {}
    <3>1. list' = [e \in Entries |-> IF e \in cache THEN 1 ELSE 0]
      BY <2>2 DEF LoadCache, Shows
    <3>2. \A m \in Ids : list'[m] < 2 /\ list'[m] \in 0 .. 2
      BY <3>1, RestoredFacts, Constants
    <3> QED BY <3>2 DEF NothingTwice
  <2> QED BY <2>1, <2>2
<1>5. BehindCursor'
  <2>1. CASE cursor = NoCursor
    BY <1>1, <2>1 DEF BehindCursor
  <2>2. CASE cursor # NoCursor
    <3>1. suspect' = Ids
      BY <1>2, <1>3, <2>2
    <3>2. Listed # {} => Listed' # {}
      <4>1. CASE cache = {}
        BY <4>1 DEF LoadCache, Listed
      <4>2. CASE cache # {}
        BY <4>2, RestoredFacts DEF LoadCache, Shows
      <4> QED BY <4>1, <4>2
    <3>3. Listed # {}
      BY <2>2 DEF TwiceInv, BehindCursor
    <3> QED BY <3>1, <3>2, <3>3 DEF BehindCursor
  <2> QED BY <2>1, <2>2
<1>6. CASE more
  <2>1. Request(f, list')
    BY <1>6 DEF LoadCache
  <2> QED BY <1>1, <1>2, <1>4, <1>5, <2>1, RequestTwice DEF TwiceInv
<1>7. CASE ~more
  <2>1. Ends(f) /\ suspect' = suspect
    BY <1>7 DEF LoadCache
  <2> QED BY <1>1, <1>4, <1>5, <2>1, EndsTwice DEF TwiceInv
<1> QED BY <1>6, <1>7

\* What the service answers: the cursor's second and what is older.
Older(f) == {m \in 1 .. stored : from[f] # NoCursor => second[m] <= from[f]}

LEMMA ReadFacts ==
    ASSUME Typed, NEW f \in Fetches, ReadPage(f)
    PROVE  /\ pc[f] = "sent" /\ pc'[f] = "read"
           /\ page'[f] = {m \in Older(f) : Cardinality({k \in Older(f) : k > m}) < Limit} \ deleted
           /\ last'[f] = (Cardinality(Older(f)) < Limit)
           /\ \A g \in Fetches : g # f => /\ pc'[g] = pc[g] /\ from'[g] = from[g]
                                         /\ page'[g] = page[g] /\ last'[g] = last[g]
<1>1. /\ pc' = [pc EXCEPT ![f] = "read"] /\ from' = [from EXCEPT ![f] = NoCursor]
      /\ page' = [page EXCEPT ![f] =
            {m \in Older(f) : Cardinality({k \in Older(f) : k > m}) < Limit} \ deleted]
      /\ last' = [last EXCEPT ![f] = Cardinality(Older(f)) < Limit]
      /\ pc[f] = "sent"
  BY DEF ReadPage, Older
<1> QED BY <1>1 DEF Typed, FetchTyped

LEMMA ReadPageTwice ==
    ASSUME Typed, Typed', TwiceInv, NEW f \in Fetches, ReadPage(f)
    PROVE  TwiceInv'
<1>1. UNCHANGED <<list, cursor, second, stored, suspect>>
  BY DEF ReadPage, server, view, doubts
<1>2. Listed' = Listed
  BY <1>1 DEF Listed
<1>3. f \in Running /\ Running' = Running
  BY ReadFacts DEF Running
<1>4. Overlap' /\ BehindCursor' /\ CacheFirst' /\ NothingTwice'
  <2>1. Overlap'
    BY <1>1, <1>3 DEF TwiceInv, Overlap
  <2>2. BehindCursor' /\ NothingTwice'
    BY <1>1, <1>2 DEF TwiceInv, BehindCursor, NothingTwice
  <2>3. CacheFirst'
    BY <1>1, ReadFacts DEF TwiceInv, CacheFirst
  <2> QED BY <2>1, <2>2, <2>3
<1>5. SentAhead'
  BY <1>1, <1>2, ReadFacts DEF TwiceInv, SentAhead
<1>6. ReadAhead'
  <2> SUFFICES ASSUME NEW g \in Fetches, NEW m \in Ids, NEW k \in page'[g],
                      pc'[g] = "read", m \in Listed, m \notin suspect
               PROVE  second[m] >= second[k] /\ m # k
    BY <1>1, <1>2 DEF ReadAhead
  <2>1. CASE g # f
    BY <2>1, ReadFacts DEF TwiceInv, ReadAhead
  <2>2. CASE g = f
    <3>1. k \in 1 .. stored /\ (from[f] # NoCursor => second[k] <= from[f])
      BY <2>2, ReadFacts DEF Older
    <3>2. from[f] # NoCursor /\ second[m] > from[f]
      BY ReadFacts DEF TwiceInv, SentAhead
    <3>3. second[m] \in Nat /\ second[k] \in Nat /\ from[f] \in Nat
      BY <3>1, <3>2, ListedTyped DEF Cursors
    <3> QED BY <3>1, <3>2, <3>3
  <2> QED BY <2>1, <2>2
<1> QED BY <1>4, <1>5, <1>6 DEF TwiceInv

LEMMA ReceiveTwice ==
    ASSUME Typed, Typed', TwiceInv, NEW f \in Fetches, Receive(f)
    PROVE  TwiceInv'
<1>1. /\ list' = WithPage(f) /\ cursor' = NextCursor(page[f]) /\ Ends(f)
      /\ UNCHANGED <<second, suspect>> /\ pc[f] = "read" /\ f \in Running
  BY DEF Receive, Shows, server, doubts, Running
<1>2. \A m \in page[f] : m \in Ids /\ m \in 1 .. stored /\ second[m] \in Nat
  BY ListedTyped
<1>3. NothingTwice'
  <2> SUFFICES ASSUME NEW m \in Ids, list'[m] > 1, m \notin suspect
               PROVE  FALSE
    BY <1>1 DEF NothingTwice
  <2>1. m \in Entries
    BY Constants
  <2>2. CASE m \notin page[f]
    BY <1>1, <2>1, <2>2, PageFacts DEF TwiceInv, NothingTwice
  <2>3. CASE m \in page[f]
    <3>1. m \in Listed
      BY <1>1, <2>3, PageFacts, ListedTyped
    <3> QED BY <1>1, <2>3, <3>1 DEF TwiceInv, ReadAhead
  <2> QED BY <2>2, <2>3
<1>4. BehindCursor'
  <2> SUFFICES ASSUME cursor' # NoCursor
               PROVE  /\ Listed' # {}
                      /\ \A m \in Ids : m \in Listed' => m \in suspect \/ second[m] >= cursor'
    BY <1>1 DEF BehindCursor
  <2>1. PICK k \in page[f] : cursor' = second[k] /\ \A m \in page[f] : cursor' <= second[m]
    BY <1>1, NextCursorFacts
  <2>2. Listed' = Listed \cup page[f]
    BY <1>1, PageFacts
  <2>3. ASSUME NEW m \in Ids, m \in Listed', m \notin suspect
        PROVE  second[m] >= cursor'
    <3>1. CASE m \in page[f]
      BY <1>2, <2>1, <3>1
    <3>2. CASE m \in Listed
      BY <1>1, <2>1, <2>3, <3>2 DEF TwiceInv, ReadAhead
    <3> QED BY <2>2, <2>3, <3>1, <3>2
  <2> QED BY <2>2, <2>3
<1> QED BY <1>1, <1>3, <1>4, EndsTwice DEF TwiceInv

LEMMA TwiceStep == Typed /\ Typed' /\ TwiceInv /\ [Next]_vars => TwiceInv'
<1> SUFFICES ASSUME Typed, Typed', TwiceInv, [Next]_vars PROVE TwiceInv'
  OBVIOUS
<1>0. /\ suspect \subseteq Ids /\ suspect' \subseteq Ids
      /\ \A m \in Ids : m \in Listed => m \in 1 .. stored
      /\ \A f \in Fetches : \A m \in page[f] : m \in 1 .. stored
  BY ListedTyped DEF Typed, OtherTyped
<1>1. ASSUME UNCHANGED <<list, cursor, suspect>>,
             \A f \in Fetches :
                 \/ pc'[f] = "idle"
                 \/ pc'[f] = pc[f] /\ from'[f] = from[f] /\ page'[f] = page[f],
             \A m \in 1 .. stored : second'[m] = second[m]
      PROVE  TwiceInv'
  <2>1. Listed' = Listed
    BY <1>1 DEF Listed
  <2> QED BY <1>0, <1>1, <2>1, TwiceFrame
<1>2. ASSUME NEW m \in Ids, m <= stored, Doubts(m),
             UNCHANGED <<second, cursor, fetching>>,
             \A k \in Ids : list'[k] > 1 => list[k] > 1,
             Listed' \cap Ids \subseteq Listed \cup {m},
             Listed # {} => Listed' # {}
      PROVE  TwiceInv'
  <2>1. suspect \subseteq suspect'
    BY <1>2 DEF Doubts
  <2>2. m \in suspect' \/ (Running = {} /\ (cursor = NoCursor \/ second[m] >= cursor))
    <3>1. second[m] \in Nat /\ cursor \in Cursors
      BY ListedTyped DEF Typed, ViewTyped
    <3> QED BY <1>2, <3>1 DEF Doubts, Cursors
  <2>3. m \in 1 .. stored
    BY <1>2, Constants DEF Typed, ServerTyped, Ids
  <2>4. \A k \in Ids : k \in Listed' =>
            /\ k \in 1 .. stored
            /\ \/ k \in Listed \/ k \in suspect'
               \/ Running = {} /\ (cursor = NoCursor \/ second[k] >= cursor)
    BY <1>0, <1>2, <2>2, <2>3
  <2>5. /\ \A f \in Fetches : pc'[f] = pc[f] /\ from'[f] = from[f] /\ page'[f] = page[f]
        /\ \A k \in 1 .. stored : second'[k] = second[k]
    BY <1>2 DEF fetching
  <2> QED BY <1>0, <1>2, <2>1, <2>4, <2>5, TwiceFrame
<1>3. ASSUME NEW f \in Fetches, FetchStep(f)
      PROVE  TwiceInv'
  <2>1. CASE OpenScreen(f) \/ RefreshButton(f)
    BY <2>1, RefreshTwice DEF OpenScreen, RefreshButton
  <2>2. CASE FetchFails(f)
    <3>1. pc' = [pc EXCEPT ![f] = "idle"] /\ from' = [from EXCEPT ![f] = NoCursor]
          /\ page' = [page EXCEPT ![f] = {}] /\ UNCHANGED <<list, cursor, suspect, second>>
      BY <2>2 DEF FetchFails, Ends, doubts, server
    <3>2. \A g \in Fetches : \/ pc'[g] = "idle"
                             \/ pc'[g] = pc[g] /\ from'[g] = from[g] /\ page'[g] = page[g]
      <4>1. DOMAIN pc = Fetches /\ DOMAIN from = Fetches /\ DOMAIN page = Fetches
        BY DEF Typed, FetchTyped
      <4>2. pc'[f] = "idle"
        BY ONLY <3>1, <4>1, f \in Fetches
      <4>3. \A g \in Fetches : g # f =>
                pc'[g] = pc[g] /\ from'[g] = from[g] /\ page'[g] = page[g]
        BY ONLY <3>1, <4>1
      <4> QED BY <4>2, <4>3
    <3>3. \A m \in 1 .. stored : second'[m] = second[m]
      BY <3>1
    <3> QED BY <1>1, <3>1, <3>2, <3>3
  <2> QED BY <1>3, <2>1, <2>2, LoadMoreTwice, LoadCacheTwice, ReadPageTwice, ReceiveTwice
       DEF FetchStep
<1>4. ASSUME NEW sender \in Sends \cup {"other"}, NEW t \in 0 .. MaxSecond, Store(sender, t),
             UNCHANGED <<list, cursor, suspect, fetching>>
      PROVE  TwiceInv'
  <2>1. \A m \in 1 .. stored : second'[m] = second[m]
    BY <1>4, ListedTyped, Constants DEF Store, Typed, ServerTyped
  <2> QED BY <1>1, <1>4, <2>1 DEF fetching
<1>5. ASSUME NEW s \in Sends, SendStep(s)
      PROVE  TwiceInv'
  <2>1. CASE SendMessage(s)
    <3>1. /\ list' = Prepend(s) /\ sending[s] = "idle"
          /\ UNCHANGED <<cursor, suspect, fetching, second>>
      BY <2>1 DEF SendMessage, Shows, doubts, server
    <3>2. s \notin Listed /\ s \in Entries /\ s \notin Ids
      BY <3>1, Constants DEF Typed, ViewTyped
    <3>3. Listed' = Listed \cup {s} /\ \A m \in Ids : list'[m] = list[m]
      BY <3>1, <3>2, PrependFacts, Constants
    <3> QED BY <1>0, <3>1, <3>2, <3>3, TwiceFrame DEF fetching
  <2>2. CASE SendFails(s)
    BY <1>1, <2>2 DEF SendFails, server, fetching
  <2>3. ASSUME NEW t \in 0 .. MaxSecond, SendArrives(s, t)
        PROVE  TwiceInv'
    BY <1>4, <2>3 DEF SendArrives, view
  <2>4. ASSUME NEW m \in Ids, SendAnswered(s, m)
        PROVE  TwiceInv'
    <3>1. /\ IF {s, m} \cap Listed # {}
             THEN list' = ReplaceLocalMessage(s, m) ELSE list' = list
          /\ UNCHANGED <<cursor, fetching, second>> /\ Doubts(m) /\ by[m] = s
      BY <2>4 DEF SendAnswered, Shows, server
    <3>2. m <= stored
      BY <3>1 DEF Typed, ServerTyped
    <3>3. \A k \in Ids : list'[k] > 1 => list[k] > 1
      <4>1. ASSUME NEW k \in Ids, k # m
            PROVE  list'[k] = list[k]
        BY <3>1, <4>1, ReplaceFacts, Constants
      <4>2. list'[m] > 1 => list[m] > 1
        BY <3>1, ReplaceFacts
      <4> QED BY <4>1, <4>2
    <3>4. Listed # {} => Listed' # {}
      <4>1. CASE m \in Listed
        BY <3>1, <4>1, ReplaceFacts, Constants DEF Listed
      <4>2. CASE m \notin Listed /\ s \in Listed
        BY <3>1, <4>2, ReplaceFacts, Constants DEF Listed
      <4>3. CASE m \notin Listed /\ s \notin Listed
        BY <3>1, <4>3, ReplaceFacts
      <4> QED BY <4>1, <4>2, <4>3
    <3>5. Listed' \cap Ids \subseteq Listed \cup {m}
      BY <3>1, ReplaceFacts
    <3> QED BY <1>2, <3>1, <3>2, <3>3, <3>4, <3>5
  <2> QED BY <1>5, <2>1, <2>2, <2>3, <2>4 DEF SendStep
<1>6. ASSUME NEW m \in Ids, HandleWsEvent(m)
      PROVE  TwiceInv'
  <2>1. CASE m \in Listed
    BY <1>1, <1>6, <2>1 DEF HandleWsEvent, server, fetching
  <2>2. CASE m \notin Listed
    <3>1. /\ list' = Prepend(m) /\ Doubts(m) /\ UNCHANGED <<cursor, fetching, second>>
          /\ m <= stored /\ m \in Entries
      BY <1>6, <2>2, Constants DEF HandleWsEvent, Shows, server, Typed, SocketTyped
    <3>2. /\ Listed' = Listed \cup {m} /\ list'[m] = 1
          /\ \A k \in Ids : k # m => list'[k] = list[k]
      BY <2>2, <3>1, PrependFacts, Constants
    <3> QED BY <1>2, <3>1, <3>2
  <2> QED BY <2>1, <2>2
<1>7. ASSUME NEW t \in 0 .. MaxSecond, OthersSend(t)
      PROVE  TwiceInv'
  BY <1>4, <1>7 DEF OthersSend, view
<1>8. ASSUME \/ \E m \in Ids : Delete(m)
             \/ LinkEnds \/ Reconnect \/ UNCHANGED vars
      PROVE  TwiceInv'
  BY <1>1, <1>8 DEF Delete, LinkEnds, Reconnect, vars, server, view, fetching, doubts
<1> QED BY <1>3, <1>5, <1>6, <1>7, <1>8 DEF Next

LEMMA TwiceInit == Init => TwiceInv
<1> SUFFICES ASSUME Init PROVE TwiceInv
  OBVIOUS
<1>1. \A f \in Fetches : pc[f] = "idle"
  BY DEF Init
<1>2. \A m \in Ids : list[m] = 0
  BY Constants DEF Init
<1>3. NothingTwice
  BY <1>2 DEF NothingTwice
<1>4. cursor = NoCursor
  BY DEF Init
<1> QED BY <1>1, <1>3, <1>4
     DEF TwiceInv, Overlap, Running, BehindCursor, CacheFirst, SentAhead, ReadAhead

\* However pages, refreshes, events and answers to sends cross, nothing is listed twice that
\* is not suspect, for pages of any size and any number of messages and calls.
THEOREM NothingIsTwice == Spec => []NothingTwice
<1>1. TwiceInv => NothingTwice
  BY DEF TwiceInv
<1> QED BY <1>1, TwiceInit, TwiceStep, AlwaysTyped, PTL DEF Spec

-----------------------------------------------------------------------------
(* Nothing is missed.                                                      *)

\* The messages that are listed or need not be.
Covered ==
    {m \in 1 .. stored :
        \/ m \in Listed \/ frames[m] > 0 \/ m \in deleted \/ m \in absent
        \/ /\ by[m] \in Sends
           /\ by[m] \in absent \/ (sending[by[m]] = "stored" /\ by[m] \in Listed)}

\* Above the cursor, above the cursor of a request and above the page read for it all
\* messages are covered.
Alone == \A f, g \in Running : f # g => absent = Entries

AboveCursor ==
    cursor # NoCursor => \A m \in 1 .. stored : second[m] > cursor => m \in Covered

AllCovered == ~more => 1 .. stored \subseteq Covered

AboveRequest ==
    \A f \in Fetches : \A m \in 1 .. stored :
        pc[f] = "sent" /\ from[f] # NoCursor /\ second[m] > from[f] => m \in Covered

AbovePage ==
    \A f \in Fetches : \A m \in 1 .. stored :
        pc[f] = "read" =>
            \/ m \in page[f] \cup Covered
            \/ ~last[f] /\ \A k \in page[f] : second[m] <= second[k]

Posting == \A s \in Sends : sending[s] = "posting" => s \in Listed \cup absent

MissedInv ==
    Alone /\ AboveCursor /\ AllCovered /\ AboveRequest /\ AbovePage /\ Posting

\* A step that starts no fetch and ends none with a page.
LEMMA MissedFrame ==
    ASSUME Typed, MissedInv,
           absent \subseteq absent', absent' \subseteq Entries,
           Covered \subseteq Covered',
           \A m \in 1 .. stored' : m \in 1 .. stored \/ m \in Covered',
           \A m \in 1 .. stored : second'[m] = second[m],
           UNCHANGED <<cursor, more>>,
           \A f \in Fetches :
               \/ pc'[f] = "idle"
               \/ pc'[f] = pc[f] /\ from'[f] = from[f] /\ page'[f] = page[f] /\ last'[f] = last[f],
           Posting'
    PROVE  MissedInv'
<1>1. Alone'
  <2>1. Running' \subseteq Running
    BY DEF Running
  <2> QED BY <2>1 DEF MissedInv, Alone
<1>2. AboveCursor'
  BY DEF MissedInv, AboveCursor
<1>3. AllCovered'
  BY DEF MissedInv, AllCovered
<1>4. AboveRequest'
  BY DEF MissedInv, AboveRequest
<1>5. AbovePage'
  <2> SUFFICES ASSUME NEW f \in Fetches, NEW m \in 1 .. stored, pc'[f] = "read",
                      m \notin Covered', m \notin page[f]
               PROVE  ~last[f] /\ \A k \in page[f] : second'[m] <= second'[k]
    BY DEF AbovePage
  <2>1. pc[f] = "read" /\ m \notin Covered
    OBVIOUS
  <2>2. \A k \in page[f] : second'[k] = second[k]
    BY ListedTyped
  <2> QED BY <2>1, <2>2 DEF MissedInv, AbovePage
<1> QED BY <1>1, <1>2, <1>3, <1>4, <1>5 DEF MissedInv

LEMMA AbsentAll == Typed /\ absent = Entries => MissedInv
<1> SUFFICES ASSUME Typed, absent = Entries PROVE MissedInv
  OBVIOUS
<1>1. \A m \in 1 .. stored : m \in absent
  BY ListedTyped, Constants
<1>2. \A s \in Sends : s \in absent
  BY Constants
<1> QED BY <1>1, <1>2
     DEF Covered, MissedInv, Alone, AboveCursor, AllCovered, AboveRequest, AbovePage, Posting

LEMMA RefreshMissed ==
    ASSUME Typed, Typed', NEW f \in Fetches, Refresh(f), sending' = sending
    PROVE  MissedInv'
<1>1. CASE Running # {}
  <2>1. absent' = Entries
    BY <1>1 DEF Refresh
  <2>2. (Typed /\ absent = Entries => MissedInv)'
    BY AbsentAll, PTL
  <2> QED BY <2>1, <2>2
<1>2. CASE Running = {}
  <2>1. \A g \in Fetches : pc[g] \notin {"cache", "sent", "read"}
    BY <1>2 DEF Running
  <2>2. /\ absent' = {s \in Sends : sending[s] = "posting"}
        /\ cursor' = NoCursor /\ more' = TRUE
        /\ pc' = [pc EXCEPT ![f] = "sent"] /\ from' = [from EXCEPT ![f] = NoCursor]
    BY <1>2 DEF Refresh
  <2>3. pc'[f] = "sent" /\ from'[f] = NoCursor /\ \A g \in Fetches : g # f => pc'[g] = pc[g]
    BY <2>2 DEF Typed, FetchTyped
  <2>4. Posting' /\ AboveCursor' /\ AllCovered'
    BY <2>2 DEF Posting, AboveCursor, AllCovered
  <2>5. Alone' /\ AboveRequest' /\ AbovePage'
    BY <2>1, <2>3 DEF Alone, Running, AboveRequest, AbovePage
  <2> QED BY <2>4, <2>5 DEF MissedInv
<1> QED BY <1>1, <1>2

LEMMA SameCovered ==
    ASSUME UNCHANGED <<server, list, frames, sending, absent>>, Posting
    PROVE  Covered' = Covered /\ Posting'
<1>1. Listed' = Listed
  BY DEF Listed
<1> QED BY <1>1 DEF Covered, Posting, server

\* A fetch begins, or sends its request: what is above the cursor is covered.
LEMMA StartMissed ==
    ASSUME Typed, Typed', MissedInv, NEW f \in Fetches, NEW label \in {"cache", "sent"},
           Fetched(f, label), label = "sent" => from'[f] = cursor,
           UNCHANGED <<server, list, cursor, more, frames, sending>>,
           absent' = Entries \/ (absent' = absent /\ Running \subseteq {f})
    PROVE  MissedInv'
<1>1. CASE absent' = Entries
  <2>1. (Typed /\ absent = Entries => MissedInv)'
    BY AbsentAll, PTL
  <2> QED BY <1>1, <2>1
<1>2. CASE absent' = absent /\ Running \subseteq {f}
  <2>1. Covered' = Covered /\ Posting' /\ stored' = stored /\ second' = second
    BY <1>2, SameCovered DEF MissedInv, server
  <2>2. /\ pc'[f] = label
        /\ \A g \in Fetches : g # f => pc'[g] = pc[g] /\ pc'[g] \notin {"sent", "read"}
    BY <1>2 DEF Fetched, Typed, FetchTyped, Running
  <2>3. Alone'
    BY <1>2, <2>2 DEF Alone, Running
  <2>4. AboveCursor' /\ AllCovered'
    BY <2>1 DEF MissedInv, AboveCursor, AllCovered
  <2>5. AboveRequest' /\ AbovePage'
    BY <2>1, <2>2 DEF MissedInv, AboveCursor, AboveRequest, AbovePage
  <2> QED BY <2>1, <2>3, <2>4, <2>5 DEF MissedInv
<1> QED BY <1>1, <1>2

LEMMA LoadMoreMissed ==
    ASSUME Typed, Typed', MissedInv, NEW f \in Fetches, LoadMore(f)
    PROVE  MissedInv'
<1>1. /\ UNCHANGED <<server, list, cursor, more, frames, sending>>
      /\ absent' = IF Running = {} THEN absent ELSE Entries
  BY DEF LoadMore, socket
<1>2. CASE Listed = {}
  <2>1. Fetched(f, "cache")
    BY <1>2 DEF LoadMore, Fetched, Typed, FetchTyped
  <2> QED BY <1>1, <2>1, StartMissed
<1>3. CASE Listed # {}
  <2>1. Fetched(f, "sent") /\ from'[f] = cursor
    BY <1>3, RequestFetches DEF LoadMore
  <2> QED BY <1>1, <2>1, StartMissed
<1> QED BY <1>2, <1>3

LEMMA OtherAbsent ==
    ASSUME Alone, NEW f \in Running, absent # Entries
    PROVE  Running \subseteq {f}
BY DEF Alone

LEMMA LoadCacheMissed ==
    ASSUME Typed, Typed', MissedInv, NEW f \in Fetches, LoadCache(f)
    PROVE  MissedInv'
<1>1. /\ UNCHANGED <<server, cursor, more, frames, sending>>
      /\ pc[f] = "cache" /\ f \in Running
  BY DEF LoadCache, socket, Running
<1>2. CASE cache # {} \/ absent = Entries
  <2>1. absent' = Entries
    BY <1>2 DEF LoadCache
  <2>2. (Typed /\ absent = Entries => MissedInv)'
    BY AbsentAll, PTL
  <2> QED BY <2>1, <2>2
<1>3. CASE cache = {} /\ absent # Entries
  <2>1. UNCHANGED <<list, absent>> /\ Running \subseteq {f}
    BY <1>1, <1>3, OtherAbsent DEF LoadCache, MissedInv
  <2>2. CASE more
    <3>1. Fetched(f, "sent") /\ from'[f] = cursor
      BY <2>2, RequestFetches DEF LoadCache
    <3> QED BY <1>1, <2>1, <3>1, StartMissed
  <2>3. CASE ~more
    <3>1. Fetched(f, "idle")
      BY <2>3, EndsFetches DEF LoadCache
    <3>2. \A g \in Fetches :
             \/ pc'[g] = "idle"
             \/ pc'[g] = pc[g] /\ from'[g] = from[g] /\ page'[g] = page[g] /\ last'[g] = last[g]
      BY <3>1 DEF Fetched, Typed, FetchTyped
    <3>3. Covered' = Covered /\ Posting' /\ stored' = stored /\ second' = second
      BY <1>1, <2>1, SameCovered DEF MissedInv, server
    <3>4. absent' \subseteq Entries
      BY DEF Typed, OtherTyped
    <3> QED BY <1>1, <2>1, <3>2, <3>3, <3>4, MissedFrame
  <2> QED BY <2>2, <2>3
<1> QED BY <1>2, <1>3

\* What the limit leaves out is not younger than anything on the page, and then there is more.
LEMMA CutFacts ==
    ASSUME Typed, NEW f \in Fetches, NEW m \in Older(f),
           ~(Cardinality({k \in Older(f) : k > m}) < Limit)
    PROVE  /\ ~(Cardinality(Older(f)) < Limit)
           /\ \A k \in Older(f) : Cardinality({j \in Older(f) : j > k}) < Limit => k > m
<1> DEFINE O == Older(f)
           After(k) == {j \in O : j > k}
<1>1. O \subseteq 1 .. stored /\ stored \in Nat
  BY Constants DEF Older, Typed, ServerTyped
<1>2. IsFiniteSet(O)
  BY <1>1, FS_Interval, FS_Subset
<1> HIDE DEF O
<1>3. \A k \in O : IsFiniteSet(After(k)) /\ Cardinality(After(k)) \in Nat
  BY <1>2, FS_Subset, FS_CardinalityType
<1>4. Cardinality(After(m)) <= Cardinality(O) /\ Cardinality(O) \in Nat
  BY <1>2, FS_Subset, FS_CardinalityType
<1>5. ~(Cardinality(After(m)) < Limit) /\ m \in O
  BY DEF O
<1>6. ASSUME NEW k \in O, Cardinality(After(k)) < Limit
      PROVE  k > m
  <2> SUFFICES ASSUME k <= m PROVE FALSE
    BY <1>1, <1>5
  <2>1. After(m) \subseteq After(k)
    <3>1. ASSUME NEW j \in O, j > m
          PROVE  j > k
      <4>1. j \in Nat /\ m \in Nat /\ k \in Nat
        BY <1>1, <1>5
      <4> QED BY <3>1, <4>1
    <3> QED BY <3>1
  <2>2. Cardinality(After(m)) <= Cardinality(After(k))
    BY <1>3, <2>1, FS_Subset
  <2> QED BY <1>3, <1>5, <1>6, <2>2, Constants
<1>7. ~(Cardinality(O) < Limit)
  BY <1>3, <1>4, <1>5, Constants
<1> QED BY <1>6, <1>7 DEF O

LEMMA ReadPageMissed ==
    ASSUME Typed, Typed', MissedInv, NEW f \in Fetches, ReadPage(f)
    PROVE  MissedInv'
<1>1. UNCHANGED <<server, list, cursor, more, frames, sending, absent>>
  BY DEF ReadPage, view, doubts, socket
<1>2. Covered' = Covered /\ Posting' /\ stored' = stored /\ second' = second
  BY <1>1, SameCovered DEF MissedInv, server
<1>3. Alone'
  <2>1. Running' = Running
    BY ReadFacts DEF Running
  <2> QED BY <1>1, <2>1 DEF MissedInv, Alone
<1>4. AboveCursor' /\ AllCovered'
  BY <1>1, <1>2 DEF MissedInv, AboveCursor, AllCovered
<1>5. AboveRequest'
  BY <1>2, ReadFacts DEF MissedInv, AboveRequest
<1>6. AbovePage'
  <2> SUFFICES ASSUME NEW g \in Fetches, NEW m \in 1 .. stored, pc'[g] = "read",
                      m \notin Covered, m \notin page'[g]
               PROVE  ~last'[g] /\ \A k \in page'[g] : second[m] <= second[k]
    BY <1>2 DEF AbovePage
  <2>1. CASE g # f
    BY <2>1, ReadFacts DEF MissedInv, AbovePage
  <2>2. CASE g = f
    <3>1. m \in Older(f)
      <4> SUFFICES ASSUME from[f] # NoCursor PROVE second[m] <= from[f]
        BY DEF Older
      <4>1. second[m] \in Nat /\ from[f] \in Nat
        BY ListedTyped DEF Cursors
      <4>2. ~(second[m] > from[f])
        BY ReadFacts DEF MissedInv, AboveRequest
      <4> QED BY <4>1, <4>2
    <3>2. m \notin deleted
      BY DEF Covered
    <3>3. ~(Cardinality({k \in Older(f) : k > m}) < Limit)
      BY <2>2, <3>1, <3>2, ReadFacts
    <3>4. ASSUME NEW k \in page'[f]
          PROVE  second[m] <= second[k]
      <4>1. k \in Older(f) /\ Cardinality({j \in Older(f) : j > k}) < Limit
        BY <3>4, ReadFacts
      <4>2. k > m
        BY <3>1, <3>3, <4>1, CutFacts
      <4>3. k \in 1 .. stored
        BY <4>1 DEF Older
      <4> QED BY <4>2, <4>3 DEF Typed, ServerTyped
    <3>5. ~last'[f]
      BY <3>1, <3>3, CutFacts, ReadFacts
    <3> QED BY <2>2, <3>4, <3>5
  <2> QED BY <2>1, <2>2
<1> QED BY <1>2, <1>3, <1>4, <1>5, <1>6 DEF MissedInv

LEMMA ReceiveMissed ==
    ASSUME Typed, Typed', MissedInv, NEW f \in Fetches, Receive(f)
    PROVE  MissedInv'
<1>1. /\ list' = WithPage(f) /\ cursor' = NextCursor(page[f]) /\ more' = ~last[f] /\ Ends(f)
      /\ UNCHANGED <<server, frames, sending, absent>> /\ pc[f] = "read" /\ f \in Running
  BY DEF Receive, Shows, doubts, Running, socket
<1>2. CASE absent = Entries
  <2>1. (Typed /\ absent = Entries => MissedInv)'
    BY AbsentAll, PTL
  <2> QED BY <1>1, <1>2, <2>1
<1>3. CASE absent # Entries
  <2>1. Running \subseteq {f}
    BY <1>1, <1>3, OtherAbsent DEF MissedInv
  <2>2. \A g \in Fetches : pc'[g] \notin {"cache", "sent", "read"}
    BY <1>1, <2>1 DEF Ends, Running, Typed, FetchTyped
  <2>3. Listed' = Listed \cup page[f]
    BY <1>1, PageFacts
  <2>4. stored' = stored /\ second' = second /\ Covered \cup page[f] \subseteq Covered'
    BY <1>1, <2>3, ListedTyped DEF Covered, server
  <2>5. ASSUME NEW m \in 1 .. stored, m \notin Covered'
        PROVE  ~last[f] /\ \A k \in page[f] : second[m] <= second[k]
    BY <1>1, <2>4, <2>5 DEF MissedInv, AbovePage
  <2>6. AboveCursor'
    <3> SUFFICES ASSUME cursor' # NoCursor, NEW m \in 1 .. stored, second[m] > cursor'
                 PROVE  m \in Covered'
      BY <2>4 DEF AboveCursor
    <3>1. PICK k \in page[f] : cursor' = second[k]
      BY <1>1, NextCursorFacts
    <3>2. second[m] \in Nat /\ second[k] \in Nat
      BY <3>1, ListedTyped
    <3> QED BY <2>5, <3>1, <3>2
  <2>7. AllCovered'
    BY <1>1, <2>4, <2>5 DEF AllCovered
  <2>8. Posting'
    BY <1>1, <2>3 DEF MissedInv, Posting
  <2>9. Alone' /\ AboveRequest' /\ AbovePage'
    BY <2>2 DEF Alone, Running, AboveRequest, AbovePage
  <2> QED BY <2>6, <2>7, <2>8, <2>9 DEF MissedInv
<1> QED BY <1>2, <1>3

\* A message that is stored is on its way, or its entry is listed, or it is absent.
LEMMA StoreCovers ==
    ASSUME Typed, Typed', MissedInv, NEW sender, NEW t \in 0 .. MaxSecond, Store(sender, t),
           UNCHANGED <<list, cursor, more, fetching>>,
           absent \subseteq absent',
           \A m \in 1 .. stored : frames'[m] = frames[m],
           \A s \in Sends : s # sender => sending'[s] = sending[s],
           \A m \in Ids : by[m] # sender \/ sender \notin Sends,
           sender \in Sends /\ sender \notin absent' =>
               sending[sender] = "posting" /\ sending'[sender] = "stored",
           sender \notin Sends => frames'[stored + 1] > 0 \/ stored + 1 \in absent'
    PROVE  MissedInv'
<1>1. /\ stored' = stored + 1 /\ stored + 1 \in Ids /\ deleted' = deleted
      /\ by' = [by EXCEPT ![stored + 1] = sender]
      /\ second' = [second EXCEPT ![stored + 1] = t]
  BY StoreStores DEF Store, Stores
<1>2. stored \in Nat /\ \A m \in 1 .. stored : m \in Ids /\ m # stored + 1
  BY ListedTyped, Constants DEF Typed, ServerTyped
<1>3. by'[stored + 1] = sender
      /\ \A m \in 1 .. stored : by'[m] = by[m] /\ second'[m] = second[m]
  BY <1>1, <1>2 DEF Typed, ServerTyped
<1>4. Listed' = Listed /\ UNCHANGED <<pc, from, page, last>>
  BY DEF Listed, fetching
<1>5. Covered \subseteq Covered'
  <2> SUFFICES ASSUME NEW m \in 1 .. stored, m \in Covered PROVE m \in Covered'
    BY DEF Covered
  <2>1. m \in 1 .. stored'
    BY <1>1, <1>2
  <2>2. by[m] \in Sends => by[m] # sender
    BY <1>2
  <2> QED BY <1>1, <1>3, <1>4, <2>1, <2>2 DEF Covered
<1>6. stored + 1 \in Covered'
  <2>1. stored + 1 \in 1 .. stored'
    BY <1>1, <1>2
  <2>2. sender \in Sends /\ sender \notin absent' => sender \in Listed
    BY DEF MissedInv, Posting
  <2> QED BY <1>3, <1>4, <2>1, <2>2 DEF Covered
<1>7. \A m \in 1 .. stored' : m \in 1 .. stored \/ m \in Covered'
  BY <1>1, <1>2, <1>6
<1>8. Posting'
  BY <1>4 DEF MissedInv, Posting
<1>9. absent' \subseteq Entries
  BY DEF Typed, OtherTyped
<1> QED BY <1>3, <1>4, <1>5, <1>7, <1>8, <1>9, MissedFrame

LEMMA MissedStep == Typed /\ Typed' /\ MissedInv /\ [Next]_vars => MissedInv'
<1> SUFFICES ASSUME Typed, Typed', MissedInv, [Next]_vars PROVE MissedInv'
  OBVIOUS
<1>0. absent \subseteq Entries /\ absent' \subseteq Entries
  BY DEF Typed, OtherTyped
<1>1. ASSUME UNCHANGED <<stored, second, by, cursor, more>>, deleted \subseteq deleted',
             absent \subseteq absent',
             \A f \in Fetches :
                 \/ pc'[f] = "idle"
                 \/ /\ pc'[f] = pc[f] /\ from'[f] = from[f]
                    /\ page'[f] = page[f] /\ last'[f] = last[f],
             \A m \in 1 .. stored : m \in Listed \/ frames[m] > 0 =>
                 m \in Listed' \/ frames'[m] > 0 \/ m \in absent',
             \A m \in 1 .. stored :
                 by[m] \in Sends /\ sending[by[m]] = "stored" /\ by[m] \in Listed =>
                     m \in Listed' \/ by[m] \in absent'
                        \/ (sending'[by[m]] = "stored" /\ by[m] \in Listed'),
             Posting'
      PROVE  MissedInv'
  <2>1. Covered \subseteq Covered'
    <3> SUFFICES ASSUME NEW m \in 1 .. stored, m \in Covered PROVE m \in Covered'
      BY DEF Covered
    <3> QED BY <1>1 DEF Covered
  <2> QED BY <1>0, <1>1, <2>1, MissedFrame
<1>2. ASSUME UNCHANGED <<stored, second, by, list, cursor, more, sending>>,
             deleted \subseteq deleted',
             absent \subseteq absent',
             \A f \in Fetches :
                 \/ pc'[f] = "idle"
                 \/ /\ pc'[f] = pc[f] /\ from'[f] = from[f]
                    /\ page'[f] = page[f] /\ last'[f] = last[f],
             \A m \in 1 .. stored : frames[m] > 0 /\ m \notin Listed =>
                 frames'[m] > 0 \/ m \in absent'
      PROVE  MissedInv'
  <2>1. Listed' = Listed
    BY <1>2 DEF Listed
  <2>2. Posting'
    BY <1>2, <2>1 DEF MissedInv, Posting
  <2> QED BY <1>1, <1>2, <2>1, <2>2
<1>3. ASSUME NEW f \in Fetches, FetchStep(f)
      PROVE  MissedInv'
  <2>1. CASE OpenScreen(f) \/ RefreshButton(f)
    BY <2>1, RefreshMissed DEF OpenScreen, RefreshButton
  <2>2. CASE FetchFails(f)
    <3>1. /\ UNCHANGED <<server, list, cursor, more, sending, frames, absent>>
          /\ Fetched(f, "idle")
      BY <2>2, EndsFetches DEF FetchFails, doubts, socket
    <3>2. \A g \in Fetches :
             \/ pc'[g] = "idle"
             \/ pc'[g] = pc[g] /\ from'[g] = from[g] /\ page'[g] = page[g] /\ last'[g] = last[g]
      BY <3>1 DEF Fetched, Typed, FetchTyped
    <3> QED BY <1>2, <3>1, <3>2 DEF server
  <2> QED BY <1>3, <2>1, <2>2, LoadMoreMissed, LoadCacheMissed, ReadPageMissed, ReceiveMissed
       DEF FetchStep
<1>4. ASSUME NEW s \in Sends, SendStep(s)
      PROVE  MissedInv'
  <2>0. /\ DOMAIN sending = Sends /\ s \in Entries
        /\ \A m \in 1 .. stored : m \in Entries /\ m # s /\ m \in Ids
    BY ListedTyped, Constants DEF Typed, OtherTyped
  <2>1. CASE SendMessage(s)
    <3>1. /\ list' = Prepend(s) /\ sending[s] = "idle"
          /\ sending' = [sending EXCEPT ![s] = "posting"]
          /\ UNCHANGED <<server, cursor, more, fetching, frames, absent>>
      BY <2>1 DEF SendMessage, Shows, doubts, socket
    <3>2. s \notin Listed
      BY <3>1 DEF Typed, ViewTyped
    <3>3. Listed' = Listed \cup {s}
      BY <2>0, <3>1, <3>2, PrependFacts
    <3>4. sending'[s] = "posting" /\ \A r \in Sends : r # s => sending'[r] = sending[r]
      BY <2>0, <3>1
    <3>5. Posting'
      BY <3>1, <3>3, <3>4 DEF MissedInv, Posting
    <3> QED BY <1>1, <3>1, <3>3, <3>4, <3>5 DEF server, fetching
  <2>2. CASE SendFails(s)
    <3>1. /\ sending' = [sending EXCEPT ![s] = "failed"] /\ absent' = absent \cup {s}
          /\ UNCHANGED <<server, list, cursor, more, fetching, frames>>
      BY <2>2 DEF SendFails, socket
    <3>2. Listed' = Listed
      BY <3>1 DEF Listed
    <3>3. sending'[s] = "failed" /\ \A r \in Sends : r # s => sending'[r] = sending[r]
      BY <2>0, <3>1
    <3>4. Posting'
      BY <3>1, <3>2, <3>3 DEF MissedInv, Posting
    <3> QED BY <1>1, <3>1, <3>2, <3>3, <3>4 DEF server, fetching
  <2>3. ASSUME NEW t \in 0 .. MaxSecond, SendArrives(s, t)
        PROVE  MissedInv'
    <3>1. /\ Store(s, t) /\ \A m \in Ids : by[m] # s
          /\ UNCHANGED <<list, cursor, more, fetching, frames>>
          /\ \/ /\ sending[s] = "posting" /\ sending' = [sending EXCEPT ![s] = "stored"]
                /\ absent' = absent
             \/ sending' = sending /\ absent' = absent \cup {s}
      BY <2>3 DEF SendArrives, view, socket
    <3>2. \A r \in Sends : r # s => sending'[r] = sending[r]
      BY <2>0, <3>1
    <3>3. s \notin absent' => sending[s] = "posting" /\ sending'[s] = "stored"
      BY <2>0, <3>1
    <3> QED BY <3>1, <3>2, <3>3, StoreCovers
  <2>4. ASSUME NEW m \in Ids, SendAnswered(s, m)
        PROVE  MissedInv'
    <3>1. /\ IF {s, m} \cap Listed # {}
             THEN list' = ReplaceLocalMessage(s, m) ELSE list' = list
          /\ sending' = [sending EXCEPT ![s] = "done"] /\ by[m] = s
          /\ UNCHANGED <<server, cursor, more, fetching, frames, absent>>
      BY <2>4 DEF SendAnswered, Shows, socket
    <3>2. sending'[s] = "done" /\ \A r \in Sends : r # s => sending'[r] = sending[r]
      BY <2>0, <3>1
    <3>3. Listed \subseteq Listed' \cup {s} /\ (s \in Listed => m \in Listed')
      <4>1. Listed \subseteq Listed' \cup {s}
        BY <3>1, ReplaceFacts
      <4>2. CASE m \in Listed
        BY <4>1, <4>2, Constants
      <4>3. CASE m \notin Listed
        BY <3>1, <4>1, <4>3, ReplaceFacts, Constants DEF Listed
      <4> QED BY <4>1, <4>2, <4>3
    <3>4. \A k \in 1 .. stored : by[k] = s => k = m
      BY <2>0, <3>1 DEF Typed, ServerTyped
    <3>5. Posting'
      BY <3>1, <3>2, <3>3 DEF MissedInv, Posting
    <3>6. \A k \in 1 .. stored : k \in Listed => k \in Listed'
      BY <2>0, <3>3
    <3>7. \A k \in 1 .. stored :
              by[k] \in Sends /\ sending[by[k]] = "stored" /\ by[k] \in Listed =>
                  k \in Listed' \/ (sending'[by[k]] = "stored" /\ by[k] \in Listed')
      <4> SUFFICES ASSUME NEW k \in 1 .. stored, NEW r \in Sends, by[k] = r,
                          sending[r] = "stored", r \in Listed
                   PROVE  k \in Listed' \/ (sending'[r] = "stored" /\ r \in Listed')
        OBVIOUS
      <4>1. CASE r = s
        BY <3>3, <3>4, <4>1
      <4>2. CASE r # s
        BY <3>2, <3>3, <4>2
      <4> QED BY <4>1, <4>2
    <3> QED BY <1>1, <3>1, <3>5, <3>6, <3>7 DEF server, fetching
  <2> QED BY <1>4, <2>1, <2>2, <2>3, <2>4 DEF SendStep
<1>5. ASSUME NEW t \in 0 .. MaxSecond, OthersSend(t)
      PROVE  MissedInv'
  <2>1. /\ Store("other", t) /\ UNCHANGED <<list, cursor, more, fetching, sending>>
        /\ \/ frames' = [frames EXCEPT ![stored + 1] = 2] /\ absent' = absent
           \/ frames' = frames /\ absent' = absent \cup {stored + 1}
    BY <1>5 DEF OthersSend, view
  <2>2. stored + 1 \in Ids /\ stored \in Nat /\ 1 .. stored \subseteq Ids
    BY <2>1, StoreStores, ListedTyped, Constants DEF Stores, Typed, ServerTyped
  <2>3. /\ \A m \in 1 .. stored : frames'[m] = frames[m]
        /\ frames'[stored + 1] > 0 \/ stored + 1 \in absent'
    BY <2>1, <2>2 DEF Typed, SocketTyped
  <2> QED BY <2>1, <2>3, StoreCovers, Constants
<1>6. ASSUME NEW m \in Ids, HandleWsEvent(m)
      PROVE  MissedInv'
  <2>1. /\ frames' = [frames EXCEPT ![m] = @ - 1]
        /\ UNCHANGED <<server, cursor, more, fetching, sending, absent>>
    BY <1>6 DEF HandleWsEvent
  <2>2. \A k \in Ids : k # m => frames'[k] = frames[k]
    BY <2>1 DEF Typed, SocketTyped
  <2>3. Listed \subseteq Listed' /\ m \in Listed'
    <3>1. CASE m \in Listed
      BY <1>6, <3>1 DEF HandleWsEvent, Listed
    <3>2. CASE m \notin Listed
      BY <1>6, <3>2, PrependFacts, Constants DEF HandleWsEvent, Shows
    <3> QED BY <3>1, <3>2
  <2>4. Posting'
    BY <2>1, <2>3 DEF MissedInv, Posting
  <2>5. \A k \in 1 .. stored : k \in Listed \/ frames[k] > 0 => k \in Listed' \/ frames'[k] > 0
    BY <2>2, <2>3, ListedTyped
  <2> QED BY <1>1, <2>1, <2>3, <2>4, <2>5 DEF server, fetching
<1>7. ASSUME LinkEnds \/ Reconnect
      PROVE  MissedInv'
  <2>1. /\ UNCHANGED <<server, list, cursor, more, fetching, sending>>
        /\ absent' = absent \cup {m \in Ids \ Listed : frames[m] > 0}
    BY <1>7 DEF LinkEnds, Reconnect, LoseFrames
  <2>2. \A m \in 1 .. stored : m \in Ids
    BY ListedTyped
  <2>3. \A m \in 1 .. stored : frames[m] > 0 /\ m \notin Listed => m \in absent'
    BY <2>1, <2>2
  <2> QED BY <1>2, <2>1, <2>3 DEF server, fetching
<1>8. ASSUME (\E m \in Ids : Delete(m)) \/ UNCHANGED vars
      PROVE  MissedInv'
  BY <1>2, <1>8 DEF Delete, vars, view, fetching, socket, doubts
<1> QED BY <1>3, <1>4, <1>5, <1>6, <1>7, <1>8 DEF Next

LEMMA MissedInit == Init => MissedInv
<1> SUFFICES ASSUME Init PROVE MissedInv
  OBVIOUS
<1>1. \A f \in Fetches : pc[f] = "idle"
  BY DEF Init
<1>2. \A s \in Sends : sending[s] = "idle"
  BY DEF Init
<1>3. cursor = NoCursor /\ more = TRUE
  BY DEF Init
<1> QED BY <1>1, <1>2, <1>3
     DEF MissedInv, Alone, Running, AboveCursor, AllCovered, AboveRequest, AbovePage, Posting

\* However pages, refreshes, events and sends cross, the list of an app that has everything by
\* its own account lacks only what the connection missed, what fetches that overlapped or the
\* cache may have taken, and one's own of a send around a failure or a refresh.
THEOREM NothingIsMissed == Spec => []NothingMissed
<1>1. MissedInv => NothingMissed
  BY DEF MissedInv, AllCovered, Covered, NothingMissed
<1> QED BY <1>1, MissedInit, MissedStep, AlwaysTyped, PTL DEF Spec
=============================================================================
