----------------------------- MODULE SyncProofs -----------------------------
(***************************************************************************)
(* Proofs about Sync, for any chats, any ticks in a second, any window and *)
(* any limit of a page: types, that two pages overlap in no more than the  *)
(* second of the cursor between them, and that a sync leaves nothing out   *)
(* that it has gone past but what the code cannot page over.               *)
(*                                                                         *)
(* SkipsOnlyBehindDeleted speaks of what the device has been given.  The   *)
(* invariant follows a message that is still missing through a request:    *)
(* a chat that has been read has returned it, or a page's worth of         *)
(* messages that are not of an earlier second, so that either it is in the *)
(* reply or the next cursor stops short of it.                             *)
(*                                                                         *)
(* The last part is about the end of a sync: what remains of it gets less. *)
(***************************************************************************)
EXTENDS Sync, FiniteSetTheorems, SequenceTheorems, WellFoundedInduction, TLAPS

-----------------------------------------------------------------------------
(* Seconds, keys and pages.                                                *)

\* A set of numbers has a least one, and a bounded one a greatest one.
LEMMA Least ==
    ASSUME NEW T, T \subseteq Nat, T # {}
    PROVE  \E x \in T : \A y \in T : x <= y
  <1> DEFINE R == {ss \in Nat \X Nat : ss[1] < ss[2]}
  <1>1. IsWellFoundedOn(R, Nat)
    BY NatLessThanWellFounded DEF OpToRel
  <1>2. \E x \in T : \A y \in T : ~(<<y, x>> \in R)
    <2> HIDE DEF R
    <2>1. QED
      BY <1>1, WFMin
  <1>3. ASSUME NEW x \in Nat, NEW y \in Nat, ~(<<y, x>> \in R)
        PROVE  x <= y
    BY <1>3
  <1>4. QED
    BY <1>2, <1>3

LEMMA Greatest ==
    ASSUME NEW T, NEW bound \in Nat, T \subseteq 0..bound, T # {}
    PROVE  \E x \in T : \A y \in T : y <= x
  <1> DEFINE D == {bound - y : y \in T}
  <1>1. D \subseteq Nat /\ D # {}
    <2>1. ASSUME NEW y \in T PROVE bound - y \in Nat
      OBVIOUS
    <2>2. QED
      BY <2>1
  <1>2. PICK d \in D : \A e \in D : d <= e
    <2> HIDE DEF D
    <2>1. QED
      BY <1>1, Least
  <1>3. PICK x \in T : d = bound - x
    OBVIOUS
  <1>4. ASSUME NEW y \in T PROVE y <= x
    <2>1. bound - y \in D
      OBVIOUS
    <2>2. d <= bound - y
      BY <1>2, <2>1
    <2>3. QED
      BY <1>3, <2>2
  <1>5. QED
    BY <1>4

\* The seconds of a tick.
LEMMA Seconds ==
    ASSUME NEW t \in Int
    PROVE  /\ Second(t) \in Int /\ t % TicksPerSecond \in 0..(TicksPerSecond - 1)
           /\ t = TicksPerSecond * Second(t) + (t % TicksPerSecond)
           /\ t \in Nat => Second(t) \in 0..t
  BY SyncAssumption DEF Second

\* Seconds follow ticks, and a whole second divides the ticks before the next one.
LEMMA SecondsGrow ==
    ASSUME NEW s \in Int, NEW t \in Int, s <= t
    PROVE  Second(s) <= Second(t)
  BY SyncAssumption DEF Second

LEMMA WholeSecond ==
    ASSUME NEW n \in Int
    PROVE  /\ Second(n * TicksPerSecond) = n /\ (n * TicksPerSecond) % TicksPerSecond = 0
           /\ Key(n * TicksPerSecond) = n * TicksPerSecond + TicksPerSecond
           /\ \A t \in Int : t < n * TicksPerSecond + TicksPerSecond <=> Second(t) <= n
  BY SyncAssumption DEF Second, Key

\* The key of a tick is not before it, and within its second or at the end of it.
LEMMA Keys ==
    ASSUME NEW t \in Int
    PROVE  /\ Key(t) \in Int /\ t <= Key(t) /\ Key(t) <= t + TicksPerSecond
           /\ t % TicksPerSecond # 0 => Key(t) = t
           /\ t % TicksPerSecond = 0 => Key(t) = t + TicksPerSecond
  BY SyncAssumption, Seconds DEF Key

\* A message whose key is higher than the time of another is not of an earlier second.
LEMMA KeyAhead ==
    ASSUME NEW s \in Int, NEW t \in Int, t < Key(s)
    PROVE  Second(t) <= Second(s)
  <1>1. CASE s % TicksPerSecond # 0
    BY <1>1, Keys, SecondsGrow
  <1>2. CASE s % TicksPerSecond = 0
    <2>1. s = Second(s) * TicksPerSecond /\ Second(s) \in Int
      BY <1>2, Seconds, SyncAssumption
    <2>2. t < Second(s) * TicksPerSecond + TicksPerSecond
      BY <1>2, <2>1, Keys
    <2>3. QED
      BY <2>1, <2>2, WholeSecond
  <1>3. QED
    BY <1>1, <1>2

-----------------------------------------------------------------------------
(* What Newest returns.                                                    *)

\* It takes the messages in the order of their rank ...
LEMMA NewestInOrder ==
    ASSUME NEW M, IsFiniteSet(M), NEW n \in Nat, NEW rank, \A m \in M : rank[m] \in Int,
           NEW m \in M, m \notin Newest(M, n, rank)
    PROVE  /\ Cardinality({k \in M : rank[k] > rank[m]}) >= n
           /\ \A k \in Newest(M, n, rank) : rank[k] > rank[m]
  <1> DEFINE Above(k) == {j \in M : rank[j] > rank[k]}
  <1>1. \A k \in M : IsFiniteSet(Above(k)) /\ Cardinality(Above(k)) \in Nat
    BY FS_Subset, FS_CardinalityType
  <1>2. Cardinality(Above(m)) >= n
    BY <1>1 DEF Newest
  <1>3. ASSUME NEW k \in Newest(M, n, rank) PROVE rank[k] > rank[m]
    <2>1. k \in M /\ Cardinality(Above(k)) < n
      BY DEF Newest
    <2>2. ASSUME ~(rank[k] > rank[m]) PROVE FALSE
      <3>1. Above(m) \subseteq Above(k)
        BY <2>1, <2>2
      <3>2. Cardinality(Above(m)) <= Cardinality(Above(k))
        BY <1>1, <2>1, <3>1, FS_Subset
      <3>3. QED
        BY <1>1, <1>2, <2>1, <3>2
    <2>3. QED
      BY <2>2
  <1>4. QED
    BY <1>2, <1>3

\* ... as many as it is told if there are so many ...
LEMMA NewestFull ==
    ASSUME NEW M, IsFiniteSet(M), NEW n \in Nat, Cardinality(M) >= n,
           NEW rank, NEW bound \in Nat, \A m \in M : rank[m] \in 0..bound
    PROVE  Cardinality(Newest(M, n, rank)) >= n
  <1> DEFINE N == Newest(M, n, rank)
             Rest == M \ N
             Above(k) == {j \in M : rank[j] > rank[k]}
  <1>1. N \subseteq M
    BY DEF Newest
  <1>2. IsFiniteSet(N) /\ Cardinality(N) \in Nat /\ Cardinality(M) \in Nat
    BY <1>1, FS_Subset, FS_CardinalityType
  <1>3. CASE Rest = {}
    <2>1. N = M
      BY <1>1, <1>3
    <2>2. QED
      BY <2>1
  <1>4. CASE Rest # {}
    <2>1. PICK m \in Rest : \A k \in Rest : rank[k] <= rank[m]
      <3> DEFINE T == {rank[k] : k \in Rest}
      <3>1. T \subseteq 0..bound /\ T # {}
        BY <1>4
      <3>2. \E x \in T : \A y \in T : y <= x
        <4> HIDE DEF T
        <4>1. QED
          BY <3>1, Greatest
      <3>3. QED
        BY <3>2
    <2>2. Above(m) \subseteq N
      BY <2>1
    <2>3. Cardinality(Above(m)) >= n
      <3>1. m \in M /\ m \notin Newest(M, n, rank)
        BY <2>1
      <3>2. QED
        BY <3>1, NewestInOrder
    <2>4. Cardinality(Above(m)) <= Cardinality(N) /\ Cardinality(Above(m)) \in Nat
      BY <1>2, <2>2, FS_Subset, FS_CardinalityType
    <2>5. QED
      BY <1>2, <2>3, <2>4
  <1>5. QED
    BY <1>3, <1>4

\* ... and no more, where no two have the same rank.
LEMMA NewestFew ==
    ASSUME NEW M, IsFiniteSet(M), NEW n \in Nat, NEW rank, \A m \in M : rank[m] \in Nat,
           \A k, m \in M : rank[k] = rank[m] => k = m
    PROVE  Cardinality(Newest(M, n, rank)) <= n
  <1> DEFINE N == Newest(M, n, rank)
             Above(k) == {j \in M : rank[j] > rank[k]}
  <1>1. N \subseteq M
    BY DEF Newest
  <1>2. IsFiniteSet(N) /\ Cardinality(N) \in Nat
    BY <1>1, FS_Subset, FS_CardinalityType
  <1>3. CASE N = {}
    <2>1. Cardinality(N) = 0
      BY <1>3, FS_EmptySet
    <2>2. QED
      BY <2>1
  <1>4. CASE N # {}
    <2>1. PICK m \in N : \A k \in N : rank[m] <= rank[k]
      <3> DEFINE T == {rank[k] : k \in N}
      <3>1. T \subseteq Nat /\ T # {}
        BY <1>1, <1>4
      <3>2. \E x \in T : \A y \in T : x <= y
        <4> HIDE DEF T
        <4>1. QED
          BY <3>1, Least
      <3>3. QED
        BY <3>2
    <2>2. N \ {m} \subseteq Above(m)
      BY <1>1, <2>1
    <2>3. Cardinality(N \ {m}) = Cardinality(N) - 1
      BY <1>2, <2>1, FS_RemoveElement
    <2>4. IsFiniteSet(Above(m)) /\ Cardinality(Above(m)) \in Nat
      BY FS_Subset, FS_CardinalityType
    <2>5. Cardinality(N \ {m}) <= Cardinality(Above(m))
      BY <2>2, <2>4, FS_Subset
    <2>6. Cardinality(Above(m)) < n
      BY <2>1 DEF Newest
    <2>7. QED
      BY <1>2, <2>3, <2>4, <2>5, <2>6
  <1>5. QED
    BY <1>3, <1>4

-----------------------------------------------------------------------------
(* Types.                                                                  *)

\* The clock has passed every message, and each message the one before it.
Ordered ==
    /\ \A m \in Sent : log[m].at < clock
    /\ \A k, m \in Sent : k < m => log[k].at < log[m].at

\* A cursor is the second of a message.
CursorInTime == cursor # NoCursor => cursor * TicksPerSecond <= MaxClock

TypedStore ==
    /\ log \in Seq([chat : Chats, at : 0..MaxClock]) /\ Len(log) <= MaxMessages
    /\ deleted \subseteq Sent
    /\ clock \in 0..MaxClock /\ start \in 0..clock

TypedDevice ==
    /\ phase \in {"idle", "asking", "reading", "replied"}
    /\ cursor \in (0..MaxClock) \cup {NoCursor}
    /\ got \subseteq Sent
    /\ complete \in BOOLEAN

TypedService ==
    /\ from \in (-Window)..MaxClock
    /\ unread \subseteq Chats /\ missed \subseteq Chats
    /\ read \subseteq Sent
    /\ phase # "reading" => unread = {} /\ read = {}

TypedPage ==
    /\ page.messages \subseteq Sent /\ page.more \in BOOLEAN
    /\ phase # "replied" => page = NoPage
    /\ Cardinality(page.messages) <= Limit

IInv == TypedStore /\ TypedDevice /\ TypedService /\ TypedPage /\ Ordered /\ CursorInTime

LEMMA IInvIsEnough == IInv => TypeOK
  BY DEF IInv, TypedStore, TypedDevice, TypedService, TypedPage, TypeOK

\* No page has no messages.
LEMMA Blank ==
    ASSUME NEW blank, blank = NoPage
    PROVE  /\ blank.messages = {} /\ blank.more = FALSE
           /\ Cardinality(blank.messages) <= Limit
  <1>1. blank.messages = {} /\ blank.more = FALSE
    BY DEF NoPage
  <1>2. Cardinality(blank.messages) = 0
    BY <1>1, FS_EmptySet
  <1>3. Limit \in Nat
    BY SyncAssumption
  <1>4. QED
    BY <1>1, <1>2, <1>3

\* The messages stored, their times and their keys.
LEMMA Stored ==
    ASSUME IInv
    PROVE  /\ Sent = 1..Len(log) /\ Len(log) \in Nat /\ IsFiniteSet(Sent)
           /\ \A m \in Sent :
                 /\ log[m] \in [chat : Chats, at : 0..MaxClock]
                 /\ log[m].chat \in Chats /\ log[m].at \in 0..MaxClock /\ log[m].at < clock
                 /\ TimeOf[m] = log[m].at /\ KeyOf[m] = Key(log[m].at)
                 /\ TimeOf[m] \in 0..MaxClock /\ KeyOf[m] \in 0..(MaxClock + TicksPerSecond)
           /\ \A k, m \in Sent : TimeOf[k] = TimeOf[m] => k = m
  <1>1. log \in Seq([chat : Chats, at : 0..MaxClock])
    BY DEF IInv, TypedStore
  <1>2. Sent = 1..Len(log) /\ Len(log) \in Nat
    BY <1>1, LenProperties DEF Sent
  <1>3. IsFiniteSet(Sent)
    BY <1>2, FS_Interval
  <1>4. ASSUME NEW m \in Sent
        PROVE  /\ log[m] \in [chat : Chats, at : 0..MaxClock]
               /\ log[m].chat \in Chats /\ log[m].at \in 0..MaxClock /\ log[m].at < clock
               /\ TimeOf[m] = log[m].at /\ KeyOf[m] = Key(log[m].at)
    <2>1. log[m] \in [chat : Chats, at : 0..MaxClock]
      BY <1>1, <1>2, ElementOfSeq
    <2>2. log[m].chat \in Chats /\ log[m].at \in 0..MaxClock
      BY <2>1
    <2>3. log[m].at < clock
      BY DEF IInv, Ordered
    <2>4. TimeOf[m] = log[m].at /\ KeyOf[m] = Key(log[m].at)
      BY DEF TimeOf, KeyOf
    <2>5. QED
      BY <2>1, <2>2, <2>3, <2>4
  <1>5. ASSUME NEW m \in Sent
        PROVE  TimeOf[m] \in 0..MaxClock /\ KeyOf[m] \in 0..(MaxClock + TicksPerSecond)
    <2>1. log[m].at \in 0..MaxClock /\ TimeOf[m] = log[m].at /\ KeyOf[m] = Key(log[m].at)
      BY <1>4
    <2>2. /\ Key(log[m].at) \in Int /\ log[m].at <= Key(log[m].at)
          /\ Key(log[m].at) <= log[m].at + TicksPerSecond
      BY <2>1, Keys
    <2>3. QED
      BY <2>1, <2>2, SyncAssumption
  <1>6. ASSUME NEW k \in Sent, NEW m \in Sent, TimeOf[k] = TimeOf[m] PROVE k = m
    <2>1. log[k].at = log[m].at /\ log[k].at \in Int /\ k \in Int /\ m \in Int
      BY <1>2, <1>4, <1>6
    <2>2. ~(k < m) /\ ~(m < k)
      BY <2>1 DEF IInv, Ordered
    <2>3. QED
      BY <2>1, <2>2
  <1>7. QED
    BY <1>2, <1>3, <1>4, <1>5, <1>6

\* A message more.
LEMMA Posted ==
    ASSUME IInv, NEW c \in Chats, NEW t \in clock..MaxClock, Post(c, t)
    PROVE  /\ log' \in Seq([chat : Chats, at : 0..MaxClock]) /\ Len(log') = Len(log) + 1
           /\ Sent' = Sent \cup {Len(log) + 1} /\ Len(log) + 1 \notin Sent
           /\ \A m \in Sent : log'[m] = log[m]
           /\ log'[Len(log) + 1] = [chat |-> c, at |-> t]
  <1> DEFINE e == [chat |-> c, at |-> t]
             S == [chat : Chats, at : 0..MaxClock]
  <1>1. log \in Seq(S) /\ clock \in Nat /\ MaxClock \in Nat
    BY SyncAssumption DEF IInv, TypedStore
  <1>2. e \in S
    BY <1>1
  <1>3. log' = Append(log, e)
    BY DEF Post
  <1>4. Sent = 1..Len(log) /\ Len(log) \in Nat
    BY Stored
  <1>5. /\ Append(log, e) \in Seq(S)
        /\ Len(Append(log, e)) = Len(log) + 1
        /\ \A i \in 1..Len(log) : Append(log, e)[i] = log[i]
        /\ Append(log, e)[Len(log) + 1] = e
    <2> HIDE DEF e, S
    <2>1. QED
      BY <1>1, <1>2, AppendProperties
  <1>6. Sent' = 1..(Len(log) + 1)
    <2>1. DOMAIN Append(log, e) = 1..Len(Append(log, e))
      <3> HIDE DEF e, S
      <3>1. QED
        BY <1>5, LenProperties
    <2>2. QED
      BY <1>3, <1>5, <2>1 DEF Sent
  <1>7. QED
    BY <1>3, <1>4, <1>5, <1>6

LEMMA InitIInv == Init => IInv
  <1> SUFFICES ASSUME Init PROVE IInv
    OBVIOUS
  <1>1. log = <<>> /\ Sent = {} /\ log \in Seq([chat : Chats, at : 0..MaxClock]) /\ Len(log) = 0
    BY DEF Init, Sent
  <1>2. TypedStore
    BY <1>1, SyncAssumption DEF Init, TypedStore
  <1>3. TypedDevice
    BY <1>1 DEF Init, TypedDevice
  <1>4. TypedService
    BY <1>1, SyncAssumption DEF Init, TypedService
  <1>5. TypedPage
    <2>1. page = NoPage
      BY DEF Init
    <2>2. QED
      BY <2>1, Blank DEF TypedPage
  <1>6. QED
    BY <1>1, <1>2, <1>3, <1>4, <1>5 DEF Init, IInv, Ordered, CursorInTime

LEMMA PostIInv ==
    ASSUME IInv, NEW c \in Chats, NEW t \in clock..MaxClock, Post(c, t)
    PROVE  IInv'
  <1>1. /\ log' \in Seq([chat : Chats, at : 0..MaxClock]) /\ Len(log') = Len(log) + 1
        /\ Sent' = Sent \cup {Len(log) + 1} /\ Len(log) + 1 \notin Sent
        /\ \A m \in Sent : log'[m] = log[m]
        /\ log'[Len(log) + 1] = [chat |-> c, at |-> t]
    BY Posted
  <1>2. /\ Len(log) < MaxMessages /\ t < MaxClock /\ clock <= t /\ clock' = t + 1
        /\ UNCHANGED <<deleted, phase, cursor, got, from, unread, read, page, missed, complete, start>>
    BY DEF Post, device, service
  <1>3. t \in Nat /\ clock \in Nat /\ Len(log) \in Nat /\ Sent = 1..Len(log)
    BY Stored, SyncAssumption DEF IInv, TypedStore
  <1>4. TypedStore' /\ TypedDevice' /\ TypedService' /\ TypedPage'
    <2>1. TypedStore'
      <3>1. Len(log') <= MaxMessages
        BY <1>1, <1>2, <1>3, SyncAssumption
      <3>2. clock' \in 0..MaxClock
        BY <1>2, <1>3, SyncAssumption
      <3>3. start' \in 0..clock'
        BY <1>2, <1>3 DEF IInv, TypedStore
      <3>4. deleted' \subseteq Sent'
        BY <1>1, <1>2 DEF IInv, TypedStore
      <3>5. QED
        BY <1>1, <3>1, <3>2, <3>3, <3>4 DEF TypedStore
    <2>2. TypedDevice'
      BY <1>1, <1>2 DEF IInv, TypedDevice
    <2>3. TypedService'
      BY <1>1, <1>2 DEF IInv, TypedService
    <2>4. TypedPage'
      BY <1>1, <1>2 DEF IInv, TypedPage, NoPage
    <2>5. QED
      BY <2>1, <2>2, <2>3, <2>4
  <1>5. Ordered'
    <2>1. ASSUME NEW m \in Sent' PROVE log'[m].at < clock'
      <3>1. CASE m \in Sent
        <4>1. log'[m].at < clock /\ log'[m].at \in Int
          BY <1>1, <3>1, Stored
        <4>2. QED
          BY <1>2, <1>3, <4>1
      <3>2. CASE m = Len(log) + 1
        BY <1>1, <1>2, <1>3, <3>2
      <3>3. QED
        BY <1>1, <3>1, <3>2
    <2>2. ASSUME NEW k \in Sent', NEW m \in Sent', k < m PROVE log'[k].at < log'[m].at
      <3>1. k \in Sent
        BY <1>1, <1>3, <2>2
      <3>2. CASE m \in Sent
        BY <1>1, <2>2, <3>1, <3>2 DEF IInv, Ordered
      <3>3. CASE m = Len(log) + 1
        <4>1. log[k].at < clock /\ log[k].at \in Int
          BY <3>1, Stored
        <4>2. QED
          BY <1>1, <1>2, <1>3, <3>1, <3>3, <4>1
      <3>4. QED
        BY <1>1, <3>2, <3>3
    <2>3. QED
      BY <2>1, <2>2 DEF Ordered
  <1>6. CursorInTime'
    BY <1>2 DEF IInv, CursorInTime
  <1>7. QED
    BY <1>4, <1>5, <1>6 DEF IInv

\* A step that stores no message.
LEMMA SameStore ==
    ASSUME IInv, log' = log, deleted \subseteq deleted', deleted' \subseteq Sent,
           clock' = clock, start' \in {start, clock}
    PROVE  /\ TypedStore' /\ Ordered' /\ Sent' = Sent
           /\ \A m \in Sent : TimeOf'[m] = TimeOf[m] /\ KeyOf'[m] = KeyOf[m]
  <1>1. Sent' = Sent
    BY DEF Sent
  <1>2. TypedStore'
    BY <1>1, SyncAssumption DEF IInv, TypedStore
  <1>3. Ordered'
    BY <1>1 DEF IInv, Ordered
  <1>4. \A m \in Sent : TimeOf'[m] = TimeOf[m] /\ KeyOf'[m] = KeyOf[m]
    BY <1>1 DEF TimeOf, KeyOf
  <1>5. QED
    BY <1>1, <1>2, <1>3, <1>4

LEMMA DeleteIInv ==
    ASSUME IInv, NEW m \in Sent, Delete(m)
    PROVE  IInv'
  <1>1. /\ UNCHANGED <<log, clock, phase, cursor, got, from, unread, read, page, missed, complete, start>>
        /\ deleted' = deleted \cup {m}
    BY DEF Delete, device, service
  <1>2. TypedStore' /\ Ordered' /\ Sent' = Sent
    BY <1>1, SameStore DEF IInv, TypedStore
  <1>3. TypedDevice' /\ TypedService' /\ CursorInTime'
    BY <1>1, <1>2 DEF IInv, TypedDevice, TypedService, CursorInTime
  <1>4. TypedPage'
    BY <1>1, <1>2 DEF IInv, TypedPage, NoPage
  <1>5. QED
    BY <1>2, <1>3, <1>4 DEF IInv

LEMMA HandleSyncIInv ==
    ASSUME IInv, HandleSync
    PROVE  IInv'
  <1>1. /\ UNCHANGED <<log, deleted, clock, cursor, got, page, complete, start>>
        /\ phase = "asking" /\ phase' = "reading" /\ read' = {}
        /\ unread' \in {{}, Chats} /\ missed' \in {missed, Chats}
        /\ from' = IF cursor = NoCursor THEN clock - Window ELSE cursor * TicksPerSecond
    BY DEF HandleSync, store, device
  <1>2. TypedStore' /\ Ordered' /\ Sent' = Sent
    BY <1>1, SameStore DEF IInv, TypedStore
  <1>3. from' \in (-Window)..MaxClock
    <2>1. clock \in 0..MaxClock /\ Window \in Nat /\ MaxClock \in Nat
      BY SyncAssumption DEF IInv, TypedStore
    <2>2. CASE cursor = NoCursor
      BY <1>1, <2>1, <2>2
    <2>3. CASE cursor # NoCursor
      <3>1. cursor \in Nat /\ TicksPerSecond \in Nat
        BY <2>3, SyncAssumption DEF IInv, TypedDevice
      <3>2. cursor * TicksPerSecond \in Nat
        BY <3>1
      <3>3. cursor * TicksPerSecond <= MaxClock
        BY <2>3 DEF IInv, CursorInTime
      <3>4. QED
        BY <1>1, <2>1, <2>3, <3>2, <3>3
    <2>4. QED
      BY <2>2, <2>3
  <1>4. TypedDevice' /\ CursorInTime'
    BY <1>1, <1>2 DEF IInv, TypedDevice, CursorInTime
  <1>5. TypedService'
    BY <1>1, <1>3 DEF IInv, TypedService
  <1>6. TypedPage'
    BY <1>1, <1>2 DEF IInv, TypedPage, NoPage
  <1>7. QED
    BY <1>2, <1>4, <1>5, <1>6 DEF IInv

LEMMA ReadChatIInv ==
    ASSUME IInv, NEW c \in Chats, ReadChat(c)
    PROVE  IInv'
  <1>1. /\ UNCHANGED <<log, deleted, clock, phase, cursor, got, from, page, complete, start>>
        /\ phase = "reading" /\ unread' \subseteq unread
        /\ missed' \in {missed, missed \cup {c}}
        /\ read' = read \/ read' = read \cup GetMessages(c, from)
    BY DEF ReadChat, store, device
  <1>2. TypedStore' /\ Ordered' /\ Sent' = Sent
    BY <1>1, SameStore DEF IInv, TypedStore
  <1>3. GetMessages(c, from) \subseteq Sent
    BY DEF GetMessages, Newest
  <1>4. TypedDevice' /\ CursorInTime'
    BY <1>1, <1>2 DEF IInv, TypedDevice, CursorInTime
  <1>5. TypedService'
    BY <1>1, <1>2, <1>3 DEF IInv, TypedService
  <1>6. TypedPage'
    BY <1>1, <1>2 DEF IInv, TypedPage, NoPage
  <1>7. QED
    BY <1>2, <1>4, <1>5, <1>6 DEF IInv

\* What a reply holds.
LEMMA Trimmed ==
    ASSUME IInv
    PROVE  /\ Trim.messages = Newest(read, Limit, TimeOf) /\ Trim.messages \subseteq read
           /\ Trim.more = (Cardinality(read) >= Limit) /\ Trim.more \in BOOLEAN
           /\ IsFiniteSet(read) /\ read \subseteq Sent
           /\ Cardinality(Trim.messages) <= Limit
  <1>1. IsFiniteSet(read) /\ read \subseteq Sent
    BY Stored, FS_Subset DEF IInv, TypedService
  <1>2. /\ \A m \in read : TimeOf[m] \in Nat
        /\ \A k, m \in read : TimeOf[k] = TimeOf[m] => k = m
    BY <1>1, Stored
  <1>3. Cardinality(Newest(read, Limit, TimeOf)) <= Limit
    BY <1>1, <1>2, NewestFew, SyncAssumption
  <1>4. /\ Trim.messages = Newest(read, Limit, TimeOf)
        /\ Trim.more = (Cardinality(read) >= Limit) /\ Trim.more \in BOOLEAN
    BY DEF Trim
  <1>5. Trim.messages \subseteq read
    BY <1>4 DEF Newest
  <1>6. QED
    BY <1>1, <1>3, <1>4, <1>5

LEMMA ReplyIInv ==
    ASSUME IInv, Reply
    PROVE  IInv'
  <1>1. /\ UNCHANGED <<log, deleted, clock, cursor, got, unread, missed, complete, start>>
        /\ phase = "reading" /\ phase' = "replied" /\ unread = {} /\ read' = {}
        /\ from' = 0 /\ page' = Trim
    BY DEF Reply, store, device
  <1>2. TypedStore' /\ Ordered' /\ Sent' = Sent
    BY <1>1, SameStore DEF IInv, TypedStore
  <1>3. TypedDevice' /\ CursorInTime'
    BY <1>1, <1>2 DEF IInv, TypedDevice, CursorInTime
  <1>4. TypedService'
    BY <1>1, <1>2, SyncAssumption DEF IInv, TypedService
  <1>5. TypedPage'
    BY <1>1, <1>2, Trimmed DEF TypedPage
  <1>6. QED
    BY <1>2, <1>3, <1>4, <1>5 DEF IInv

LEMMA FullSyncIInv ==
    ASSUME IInv, FullSync
    PROVE  IInv'
  <1>1. /\ UNCHANGED <<log, deleted, clock, from, unread, read, page>>
        /\ phase = "idle" /\ phase' = "asking" /\ cursor' = NoCursor /\ got' = {} /\ missed' = {}
        /\ complete' = FALSE /\ start' = clock
    BY DEF FullSync, store, service
  <1>2. TypedStore' /\ Ordered' /\ Sent' = Sent
    BY <1>1, SameStore DEF IInv, TypedStore
  <1>3. TypedDevice' /\ CursorInTime'
    BY <1>1 DEF TypedDevice, CursorInTime
  <1>4. TypedService'
    BY <1>1, <1>2 DEF IInv, TypedService
  <1>5. TypedPage'
    BY <1>1, <1>2 DEF IInv, TypedPage, NoPage
  <1>6. QED
    BY <1>2, <1>3, <1>4, <1>5 DEF IInv

\* The next cursor is the second of the oldest message of the page.
LEMMA Oldest ==
    ASSUME IInv, NEW M, M \subseteq Sent, M # {}
    PROVE  \E p \in M : NextCursor(M) = Second(TimeOf[p]) /\ \A m \in M : TimeOf[p] <= TimeOf[m]
  <1> DEFINE T == {TimeOf[m] : m \in M}
             Is(t) == \A m \in M : t <= TimeOf[m]
  <1>1. T \subseteq Nat /\ T # {}
    BY Stored
  <1>2. \E t \in T : Is(t)
    <2>1. \E x \in T : \A y \in T : x <= y
      <3> HIDE DEF T
      <3>1. QED
        BY <1>1, Least
    <2>2. QED
      BY <2>1
  <1>3. (CHOOSE t \in T : Is(t)) \in T /\ Is(CHOOSE t \in T : Is(t))
    <2> HIDE DEF T, Is
    <2>1. QED
      BY <1>2
  <1>4. NextCursor(M) = Second(CHOOSE t \in T : Is(t))
    BY DEF NextCursor
  <1>5. PICK p \in M : TimeOf[p] = (CHOOSE t \in T : Is(t))
    <2> HIDE DEF Is
    <2>1. QED
      BY <1>3
  <1>6. QED
    BY <1>3, <1>4, <1>5

LEMMA ReceiveIInv ==
    ASSUME IInv, Receive
    PROVE  IInv'
  <1>1. /\ UNCHANGED <<log, deleted, clock, from, unread, read, missed, start>>
        /\ phase = "replied" /\ phase' \in {"asking", "idle"} /\ page' = NoPage
        /\ got' = got \cup page.messages
        /\ cursor' = cursor \/ (page.messages # {} /\ cursor' = NextCursor(page.messages))
        /\ complete' = ~page.more
    BY DEF Receive, Batch, store, service
  <1>2. TypedStore' /\ Ordered' /\ Sent' = Sent
    BY <1>1, SameStore DEF IInv, TypedStore
  <1>3. CASE cursor' = cursor
    <2>1. cursor' \in (0..MaxClock) \cup {NoCursor} /\ CursorInTime'
      BY <1>3 DEF IInv, TypedDevice, CursorInTime
    <2>2. TypedDevice'
      BY <1>1, <1>2, <2>1 DEF IInv, TypedDevice, TypedPage
    <2>3. TypedService'
      BY <1>1, <1>2 DEF IInv, TypedService
    <2>4. TypedPage'
      BY <1>1, Blank DEF TypedPage
    <2>5. QED
      BY <1>2, <2>1, <2>2, <2>3, <2>4 DEF IInv
  <1>4. CASE page.messages # {} /\ cursor' = NextCursor(page.messages)
    <2>1. PICK p \in page.messages : NextCursor(page.messages) = Second(TimeOf[p])
      BY <1>4, Oldest DEF IInv, TypedPage
    <2>2. TimeOf[p] \in 0..MaxClock
      BY <2>1, Stored DEF IInv, TypedPage
    <2>3. /\ cursor' \in 0..TimeOf[p]
          /\ TimeOf[p] = TicksPerSecond * cursor' + (TimeOf[p] % TicksPerSecond)
          /\ TimeOf[p] % TicksPerSecond \in Nat
      <3> DEFINE t == TimeOf[p]
      <3>1. t \in Nat /\ t \in Int /\ cursor' = Second(t)
        BY <1>4, <2>1, <2>2, SyncAssumption
      <3>2. /\ Second(t) \in 0..t /\ t % TicksPerSecond \in 0..(TicksPerSecond - 1)
            /\ t = TicksPerSecond * Second(t) + (t % TicksPerSecond)
        <4> HIDE DEF t
        <4>1. QED
          BY <3>1, Seconds
      <3>3. t % TicksPerSecond \in Nat
        BY <3>2, SyncAssumption
      <3>4. QED
        BY <3>1, <3>2, <3>3
    <2>4. cursor' \in 0..MaxClock /\ cursor' * TicksPerSecond <= MaxClock
      <3>1. TicksPerSecond * cursor' = cursor' * TicksPerSecond /\ cursor' * TicksPerSecond \in Int
        BY <2>2, <2>3, SyncAssumption
      <3>2. QED
        BY <2>2, <2>3, <3>1, SyncAssumption
    <2>5. TypedDevice' /\ CursorInTime'
      BY <1>1, <1>2, <2>4 DEF IInv, TypedDevice, TypedPage, CursorInTime
    <2>6. TypedService'
      BY <1>1, <1>2 DEF IInv, TypedService
    <2>7. TypedPage'
      BY <1>1, Blank DEF TypedPage
    <2>8. QED
      BY <1>2, <2>5, <2>6, <2>7 DEF IInv
  <1>5. QED
    BY <1>1, <1>3, <1>4

LEMMA SyncFailsIInv ==
    ASSUME IInv, SyncFails
    PROVE  IInv'
  <1>1. /\ UNCHANGED <<log, deleted, clock, cursor, got, from, unread, read, missed, complete, start>>
        /\ phase \in {"asking", "replied"} /\ phase' = "idle" /\ page' = NoPage
    BY DEF SyncFails, store, device, service
  <1>2. TypedStore' /\ Ordered' /\ Sent' = Sent
    BY <1>1, SameStore DEF IInv, TypedStore
  <1>3. TypedDevice' /\ TypedService' /\ CursorInTime'
    BY <1>1, <1>2 DEF IInv, TypedDevice, TypedService, CursorInTime
  <1>4. TypedPage'
    BY <1>1, Blank DEF TypedPage
  <1>5. QED
    BY <1>2, <1>3, <1>4 DEF IInv

LEMMA NextIInv == IInv /\ [Next]_vars => IInv'
  <1> SUFFICES ASSUME IInv, [Next]_vars PROVE IInv'
    OBVIOUS
  <1>1. CASE UNCHANGED vars
    <2>1. TypedStore' /\ Ordered' /\ Sent' = Sent
      BY <1>1, SameStore DEF IInv, TypedStore, vars
    <2>2. QED
      BY <1>1, <2>1 DEF vars, IInv, TypedDevice, TypedService, TypedPage, CursorInTime, NoPage
  <1>2. CASE \E c \in Chats : \E t \in clock..MaxClock : Post(c, t)
    BY <1>2, PostIInv
  <1>3. CASE \E m \in Sent : Delete(m)
    BY <1>3, DeleteIInv
  <1>4. CASE FullSync \/ SyncFails
    BY <1>4, FullSyncIInv, SyncFailsIInv
  <1>5. CASE SyncStep
    BY <1>5, HandleSyncIInv, ReplyIInv, ReceiveIInv, ReadChatIInv DEF SyncStep
  <1>6. QED
    BY <1>1, <1>2, <1>3, <1>4, <1>5 DEF Next

LEMMA Inductive == Spec => []IInv
  <1>1. Init => IInv
    BY InitIInv
  <1>2. IInv /\ [Next]_vars => IInv'
    BY NextIInv
  <1>3. QED
    BY <1>1, <1>2, PTL DEF Spec

\* The messages, the cursors and the pages have their types, a page is no longer than its
\* limit, and the service works on a request exactly while the app waits for it.
THEOREM TypeCorrect == Spec => []TypeOK
  <1>1. IInv => TypeOK
    BY IInvIsEnough
  <1>2. QED
    BY <1>1, Inductive, PTL

-----------------------------------------------------------------------------
(* Where two pages meet.  The next page is asked for with the second of    *)
(* the oldest message of the last one: what the device has is of that      *)
(* second or later, and what it is given is of that second or earlier.     *)

\* The request a chat is read for.
FromCursor ==
    phase = "reading" =>
        IF cursor = NoCursor THEN from >= start - Window ELSE from = cursor * TicksPerSecond

GotAfter == \A m \in got : cursor # NoCursor /\ Second(TimeOf[m]) >= cursor

PageBefore == cursor # NoCursor => \A m \in read \cup page.messages : Second(TimeOf[m]) <= cursor

Seam == FromCursor /\ GotAfter /\ PageBefore

\* A message keeps its chat, its time and its key.
LEMMA SameTimes ==
    ASSUME IInv, [Next]_vars
    PROVE  /\ Sent \subseteq Sent' /\ deleted \subseteq deleted'
           /\ \A m \in Sent : log'[m] = log[m] /\ TimeOf'[m] = TimeOf[m] /\ KeyOf'[m] = KeyOf[m]
  <1>1. ASSUME NEW c \in Chats, NEW t \in clock..MaxClock, Post(c, t)
        PROVE  Sent \subseteq Sent' /\ deleted' = deleted /\ \A m \in Sent : log'[m] = log[m]
    BY <1>1, Posted DEF Post
  <1>2. ASSUME log' = log
        PROVE  Sent \subseteq Sent' /\ \A m \in Sent : log'[m] = log[m]
    BY <1>2 DEF Sent
  <1>3. (\E c \in Chats : \E t \in clock..MaxClock : Post(c, t)) \/ log' = log
    BY DEF Next, vars, Delete, FullSync, SyncFails, SyncStep, HandleSync, ReadChat, Reply, Receive, store
  <1>4. deleted \subseteq deleted'
    BY DEF Next, vars, Post, Delete, FullSync, SyncFails, SyncStep, HandleSync, ReadChat, Reply, Receive, store
  <1>5. Sent \subseteq Sent' /\ \A m \in Sent : log'[m] = log[m]
    BY <1>1, <1>2, <1>3
  <1>6. \A m \in Sent : TimeOf'[m] = TimeOf[m] /\ KeyOf'[m] = KeyOf[m]
    BY <1>5 DEF TimeOf, KeyOf
  <1>7. QED
    BY <1>4, <1>5, <1>6

\* What the device and the service hold has been stored, and so has its place in time.
LEMMA Held ==
    ASSUME IInv
    PROVE  /\ got \subseteq Sent /\ read \subseteq Sent /\ page.messages \subseteq Sent
           /\ cursor # NoCursor => cursor \in Nat
           /\ \A m \in Sent : TimeOf[m] \in Int /\ KeyOf[m] \in Int /\ Second(TimeOf[m]) \in Int
                              /\ TimeOf[m] <= KeyOf[m] /\ KeyOf[m] = Key(TimeOf[m])
  <1>1. got \subseteq Sent /\ read \subseteq Sent /\ page.messages \subseteq Sent
    BY DEF IInv, TypedDevice, TypedService, TypedPage
  <1>2. cursor # NoCursor => cursor \in Nat
    BY DEF IInv, TypedDevice
  <1>3. ASSUME NEW m \in Sent
        PROVE  TimeOf[m] \in Int /\ KeyOf[m] \in Int /\ Second(TimeOf[m]) \in Int
               /\ TimeOf[m] <= KeyOf[m] /\ KeyOf[m] = Key(TimeOf[m])
    <2>1. TimeOf[m] \in Int /\ KeyOf[m] = Key(TimeOf[m])
      BY Stored
    <2>2. Second(TimeOf[m]) \in Int
      BY <2>1, Seconds
    <2>3. Key(TimeOf[m]) \in Int /\ TimeOf[m] <= Key(TimeOf[m])
      BY <2>1, Keys
    <2>4. QED
      BY <2>1, <2>2, <2>3
  <1>4. QED
    BY <1>1, <1>2, <1>3

\* A chat read with a cursor returns nothing after the second of the cursor.
LEMMA ReadBefore ==
    ASSUME IInv, FromCursor, phase = "reading", cursor # NoCursor, NEW c \in Chats,
           NEW m \in GetMessages(c, from)
    PROVE  Second(TimeOf[m]) <= cursor
  <1>1. m \in Sent /\ KeyOf[m] < Key(from)
    BY DEF GetMessages, Newest
  <1>2. from = cursor * TicksPerSecond /\ cursor \in Int
    BY Held DEF FromCursor
  <1>3. Key(from) = cursor * TicksPerSecond + TicksPerSecond
    BY <1>2, WholeSecond
  <1>4. TimeOf[m] \in Int /\ KeyOf[m] \in Int /\ TimeOf[m] <= KeyOf[m]
    BY <1>1, Held
  <1>5. TimeOf[m] < cursor * TicksPerSecond + TicksPerSecond
    <2>1. cursor * TicksPerSecond + TicksPerSecond \in Int
      BY <1>2, SyncAssumption
    <2>2. QED
      BY <1>1, <1>3, <1>4, <2>1
  <1>6. QED
    BY <1>2, <1>4, <1>5, WholeSecond

\* While nothing but the store changes, or the request only goes on, the seam holds.
LEMMA SeamStays ==
    ASSUME IInv, Seam, [Next]_vars, got' = got, cursor' = cursor,
           read' \subseteq read \cup page.messages, page'.messages \subseteq read \cup page.messages
    PROVE  GotAfter' /\ PageBefore'
  <1>1. \A m \in Sent : TimeOf'[m] = TimeOf[m]
    BY SameTimes
  <1>2. ASSUME NEW m \in got' PROVE cursor' # NoCursor /\ Second(TimeOf'[m]) >= cursor'
    BY <1>1, <1>2, Held DEF Seam, GotAfter
  <1>3. ASSUME cursor' # NoCursor, NEW m \in read' \cup page'.messages
        PROVE  Second(TimeOf'[m]) <= cursor'
    BY <1>1, <1>3, Held DEF Seam, PageBefore
  <1>4. QED
    BY <1>2, <1>3 DEF GotAfter, PageBefore

LEMMA ReceiveSeam ==
    ASSUME IInv, Seam, [Next]_vars, Receive
    PROVE  Seam'
  <1>1. /\ phase = "replied" /\ phase' # "reading" /\ read' = read /\ page' = NoPage
        /\ got' = got \cup page.messages
        /\ IF page.messages = {} THEN cursor' = cursor ELSE cursor' = NextCursor(page.messages)
    BY DEF Receive, Batch, service
  <1>2. read' = {} /\ page'.messages = {}
    BY <1>1, Blank DEF IInv, TypedService
  <1>3. FromCursor' /\ PageBefore'
    BY <1>1, <1>2 DEF FromCursor, PageBefore
  <1>4. \A m \in Sent : TimeOf'[m] = TimeOf[m]
    BY SameTimes
  <1>5. CASE page.messages = {}
    BY <1>1, <1>3, <1>4, <1>5, Held DEF Seam, GotAfter
  <1>6. CASE page.messages # {}
    <2>1. PICK p \in page.messages :
             NextCursor(page.messages) = Second(TimeOf[p]) /\ \A m \in page.messages : TimeOf[p] <= TimeOf[m]
      BY <1>6, Oldest, Held
    <2>2. cursor' = Second(TimeOf[p]) /\ p \in Sent /\ cursor' \in Int
      BY <1>1, <1>6, <2>1, Held
    <2>3. cursor' # NoCursor
      BY <2>2, SyncAssumption
    <2>4. ASSUME NEW m \in got PROVE Second(TimeOf[m]) >= cursor'
      <3>1. cursor # NoCursor /\ Second(TimeOf[m]) >= cursor /\ Second(TimeOf[p]) <= cursor
        BY <2>1 DEF Seam, GotAfter, PageBefore
      <3>2. Second(TimeOf[m]) \in Int /\ cursor \in Int /\ Second(TimeOf[p]) \in Int
        BY <2>2, <3>1, Held
      <3>3. QED
        BY <2>2, <3>1, <3>2
    <2>5. ASSUME NEW m \in page.messages PROVE Second(TimeOf[m]) >= cursor'
      <3>1. TimeOf[p] \in Int /\ TimeOf[m] \in Int /\ TimeOf[p] <= TimeOf[m]
        BY <2>1, <2>2, Held
      <3>2. Second(TimeOf[p]) <= Second(TimeOf[m]) /\ Second(TimeOf[m]) \in Int
        BY <3>1, SecondsGrow, Seconds
      <3>3. QED
        BY <2>2, <3>2
    <2>6. GotAfter'
      <3>1. ASSUME NEW m \in got' PROVE Second(TimeOf'[m]) >= cursor'
        <4>1. m \in Sent /\ TimeOf'[m] = TimeOf[m]
          BY <1>1, <1>4, <3>1, Held
        <4>2. QED
          BY <1>1, <2>4, <2>5, <3>1, <4>1
      <3>2. QED
        BY <2>3, <3>1 DEF GotAfter
    <2>7. QED
      BY <1>3, <2>6 DEF Seam
  <1>7. QED
    BY <1>5, <1>6

LEMMA ReadChatSeam ==
    ASSUME IInv, Seam, [Next]_vars, NEW c \in Chats, ReadChat(c)
    PROVE  Seam'
  <1>1. /\ phase = "reading" /\ phase' = phase /\ cursor' = cursor /\ got' = got /\ from' = from
        /\ page' = page /\ start' = start
        /\ read' = read \/ read' = read \cup GetMessages(c, from)
    BY DEF ReadChat, device
  <1>2. \A m \in Sent : TimeOf'[m] = TimeOf[m]
    BY SameTimes
  <1>3. FromCursor'
    BY <1>1 DEF Seam, FromCursor
  <1>4. GotAfter'
    <2>1. ASSUME NEW m \in got' PROVE cursor' # NoCursor /\ Second(TimeOf'[m]) >= cursor'
      BY <1>1, <1>2, <2>1, Held DEF Seam, GotAfter
    <2>2. QED
      BY <2>1 DEF GotAfter
  <1>5. PageBefore'
    <2>1. ASSUME cursor' # NoCursor, NEW m \in read' \cup page'.messages
          PROVE  Second(TimeOf'[m]) <= cursor'
      <3>1. m \in Sent /\ TimeOf'[m] = TimeOf[m]
        <4>1. GetMessages(c, from) \subseteq Sent
          BY DEF GetMessages, Newest
        <4>2. QED
          BY <1>1, <1>2, <2>1, <4>1, Held
      <3>2. CASE m \in read \cup page.messages
        BY <1>1, <2>1, <3>1, <3>2 DEF Seam, PageBefore
      <3>3. CASE m \in GetMessages(c, from)
        BY <1>1, <2>1, <3>1, <3>3, ReadBefore DEF Seam
      <3>4. QED
        BY <1>1, <2>1, <3>2, <3>3
    <2>2. QED
      BY <2>1 DEF PageBefore
  <1>6. QED
    BY <1>3, <1>4, <1>5 DEF Seam

LEMMA NextSeam == IInv /\ IInv' /\ Seam /\ [Next]_vars => Seam'
  <1> SUFFICES ASSUME IInv, IInv', Seam, [Next]_vars PROVE Seam'
    OBVIOUS
  <1>1. ASSUME UNCHANGED <<phase, cursor, got, from, read, page, start>>
        PROVE  Seam'
    <2>1. FromCursor'
      BY <1>1 DEF Seam, FromCursor
    <2>2. GotAfter' /\ PageBefore'
      BY <1>1, SeamStays
    <2>3. QED
      BY <2>1, <2>2 DEF Seam
  <1>2. CASE \/ UNCHANGED vars
             \/ \E c \in Chats : \E t \in clock..MaxClock : Post(c, t)
             \/ \E m \in Sent : Delete(m)
    BY <1>1, <1>2 DEF vars, Post, Delete, device, service
  <1>3. CASE HandleSync
    <2>1. /\ cursor' = cursor /\ got' = got /\ read' = {} /\ page' = page /\ start' = start
          /\ from' = IF cursor = NoCursor THEN clock - Window ELSE cursor * TicksPerSecond
      BY <1>3 DEF HandleSync, device
    <2>2. clock - Window >= start - Window
      BY SyncAssumption DEF IInv, TypedStore
    <2>3. FromCursor'
      BY <2>1, <2>2 DEF FromCursor
    <2>4. GotAfter' /\ PageBefore'
      BY <2>1, SeamStays
    <2>5. QED
      BY <2>3, <2>4 DEF Seam
  <1>4. CASE Reply
    <2>1. /\ cursor' = cursor /\ got' = got /\ read' = {} /\ page' = Trim /\ phase' = "replied"
      BY <1>4 DEF Reply, device
    <2>2. page'.messages \subseteq read
      BY <2>1, Trimmed
    <2>3. FromCursor'
      BY <2>1 DEF FromCursor
    <2>4. GotAfter' /\ PageBefore'
      BY <2>1, <2>2, SeamStays
    <2>5. QED
      BY <2>3, <2>4 DEF Seam
  <1>5. CASE SyncFails
    <2>1. cursor' = cursor /\ got' = got /\ read' = read /\ page' = NoPage /\ phase' = "idle"
      BY <1>5 DEF SyncFails, device, service
    <2>2. page'.messages = {}
      BY <2>1, Blank
    <2>3. FromCursor'
      BY <2>1 DEF FromCursor
    <2>4. GotAfter' /\ PageBefore'
      BY <2>1, <2>2, SeamStays
    <2>5. QED
      BY <2>3, <2>4 DEF Seam
  <1>6. CASE FullSync
    BY <1>6 DEF FullSync, Seam, FromCursor, GotAfter, PageBefore
  <1>7. QED
    BY <1>2, <1>3, <1>4, <1>5, <1>6, ReceiveSeam, ReadChatSeam DEF Next, SyncStep

LEMMA AlwaysSeam == Spec => []Seam
  <1>1. Init => Seam
    <2> SUFFICES ASSUME Init PROVE Seam
      OBVIOUS
    <2>1. page = NoPage
      BY DEF Init
    <2>2. page.messages = {}
      BY <2>1, Blank
    <2>3. QED
      BY <2>2 DEF Init, Seam, FromCursor, GotAfter, PageBefore
  <1>2. IInv /\ IInv' /\ Seam /\ [Next]_vars => Seam'
    BY NextSeam
  <1>3. QED
    BY <1>1, <1>2, Inductive, PTL DEF Spec

\* For any limit and any width of a second: what a page brings that the device has already
\* is of the second of the cursor the page was asked for with.
THEOREM SeamsRepeat == Spec => RepeatsOnlyAtSeam
  <1>1. ASSUME IInv, Seam, Receive, NEW m \in got \cap page.messages
        PROVE  Second(TimeOf[m]) = cursor
    <2>1. /\ cursor # NoCursor /\ Second(TimeOf[m]) >= cursor /\ Second(TimeOf[m]) <= cursor
          /\ m \in Sent
      BY <1>1, Held DEF Seam, GotAfter, PageBefore
    <2>2. Second(TimeOf[m]) \in Int /\ cursor \in Int
      BY <1>1, <2>1, Held
    <2>3. QED
      BY <2>1, <2>2
  <1>2. IInv /\ Seam /\ [Next]_vars
           => [Receive => \A m \in got \cap page.messages : Second(TimeOf[m]) = cursor]_vars
    BY <1>1
  <1>3. QED
    BY <1>2, Inductive, AlwaysSeam, PTL DEF Spec, RepeatsOnlyAtSeam

-----------------------------------------------------------------------------
(* What a sync leaves out.                                                 *)

\* A message the sync has still to bring: the device has not got it, and none of the
\* reasons there are for leaving it out holds.
Due(m) ==
    /\ m \in Sent \ (got \cup deleted) /\ TimeOf[m] < start - Window
    /\ TimeOf[m] % TicksPerSecond # 0
    /\ log[m].chat \notin missed
    /\ ~\E d \in deleted : log[d].chat = log[m].chat /\ KeyOf[d] > KeyOf[m]

\* The messages that are not of an earlier second.
Ahead(m, messages) == {k \in messages : Second(TimeOf[k]) >= Second(TimeOf[m])}

\* The sync has not gone past it.
NotPast == \A m \in Sent : Due(m) => ~GonePast(m)

\* When its chat has been read it is among what was read, or crowded out of it.
Caught ==
    phase = "reading" =>
        \A m \in Sent : Due(m) /\ log[m].chat \notin unread =>
            m \in read \/ Cardinality(Ahead(m, read)) >= Limit

\* It is in the reply, or the reply promises another page and stops short of it.
Answered ==
    phase = "replied" =>
        \A m \in Sent : Due(m) =>
            \/ m \in page.messages
            \/ page.more /\ \A p \in page.messages : Second(TimeOf[p]) >= Second(TimeOf[m])

Pending == NotPast /\ Caught /\ Answered

\* What is due was due before, unless the sync begins.
LEMMA DueBefore ==
    ASSUME IInv, [Next]_vars, ~FullSync, NEW m \in Sent', Due(m)'
    PROVE  /\ m \in Sent /\ Due(m) /\ log'[m] = log[m] /\ TimeOf'[m] = TimeOf[m]
           /\ m \notin got' /\ log[m].chat \notin missed'
  <1>1. /\ Sent \subseteq Sent' /\ deleted \subseteq deleted'
        /\ \A k \in Sent : log'[k] = log[k] /\ TimeOf'[k] = TimeOf[k] /\ KeyOf'[k] = KeyOf[k]
    BY SameTimes
  <1>2. start' = start /\ got \subseteq got'
    BY DEF Next, vars, Post, Delete, SyncFails, SyncStep, HandleSync, ReadChat, Reply, Receive, Batch, device
  <1>3. m \in Sent
    <2>1. ASSUME NEW c \in Chats, NEW t \in clock..MaxClock, Post(c, t), m \notin Sent
          PROVE  FALSE
      <3>1. m = Len(log) + 1 /\ log'[m] = [chat |-> c, at |-> t] /\ m \in Sent'
        BY <2>1, Posted
      <3>2. TimeOf'[m] = t
        BY <3>1 DEF TimeOf
      <3>3. start \in 0..clock /\ clock \in 0..MaxClock /\ MaxClock \in Nat /\ Window \in Nat
        BY SyncAssumption DEF IInv, TypedStore
      <3>4. t < start - Window
        BY <1>2, <3>2 DEF Due
      <3>5. QED
        BY <3>3, <3>4
    <2>2. (\E c \in Chats : \E t \in clock..MaxClock : Post(c, t)) \/ log' = log
      BY DEF Next, vars, Delete, SyncFails, SyncStep, HandleSync, ReadChat, Reply, Receive, store
    <2>3. log' = log => m \in Sent
      BY DEF Sent
    <2>4. QED
      BY <2>1, <2>2, <2>3
  <1>4. missed \subseteq missed'
    BY DEF Next, vars, IInv, TypedService, Post, Delete, SyncFails, SyncStep, HandleSync, ReadChat, Reply, Receive
  <1>5. deleted \subseteq Sent
    BY DEF IInv, TypedStore
  <1>6. m \notin got' /\ log[m].chat \notin missed' /\ Due(m)
    BY <1>1, <1>2, <1>3, <1>4, <1>5 DEF Due
  <1>7. QED
    BY <1>1, <1>3, <1>6

\* What is due is before the cursor of the request, so a chat that is read returns it or a
\* page's worth of messages of the chat with higher keys.
LEMMA ReadReturns ==
    ASSUME IInv, Seam, NotPast, phase = "reading", NEW m \in Sent, Due(m)
    PROVE  LET found == GetMessages(log[m].chat, from)
           IN  m \in found \/ Cardinality(Ahead(m, found)) >= Limit
  <1> DEFINE c == log[m].chat
             B == {k \in Sent : log[k].chat = c /\ KeyOf[k] < Key(from)}
             N == Newest(B, Limit, KeyOf)
             found == GetMessages(c, from)
  <1>1. found = N \ deleted
    BY DEF GetMessages
  <1>2. TimeOf[m] \in Int /\ KeyOf[m] = TimeOf[m] /\ TimeOf[m] % TicksPerSecond # 0
    BY Held, Keys DEF Due
  <1>3. KeyOf[m] < Key(from)
    <2>1. CASE cursor = NoCursor
      <3>1. TimeOf[m] < start - Window /\ from >= start - Window
        BY <2>1 DEF Due, Seam, FromCursor
      <3>2. from \in Int /\ start \in Int /\ Window \in Int
        BY SyncAssumption DEF IInv, TypedService, TypedStore
      <3>3. Key(from) \in Int /\ from <= Key(from)
        BY <3>2, Keys
      <3>4. QED
        BY <1>2, <3>1, <3>2, <3>3
    <2>2. CASE cursor # NoCursor
      <3>1. from = cursor * TicksPerSecond /\ cursor \in Int
        BY <2>2, Held DEF Seam, FromCursor
      <3>2. ~(Second(TimeOf[m]) > cursor)
        BY <2>2 DEF NotPast, GonePast
      <3>3. Second(TimeOf[m]) \in Int
        BY Held
      <3>4. TimeOf[m] < cursor * TicksPerSecond + TicksPerSecond
        BY <1>2, <3>1, <3>2, <3>3, WholeSecond
      <3>5. Key(from) = cursor * TicksPerSecond + TicksPerSecond
        BY <3>1, WholeSecond
      <3>6. QED
        BY <1>2, <3>4, <3>5
    <2>3. QED
      BY <2>1, <2>2
  <1>4. m \in B /\ m \notin deleted
    BY <1>3 DEF Due
  <1>5. CASE m \in N
    BY <1>1, <1>4, <1>5
  <1>6. CASE m \notin N
    <2>1. B \subseteq Sent /\ IsFiniteSet(B)
      BY Stored, FS_Subset
    <2>2. \A k \in B : KeyOf[k] \in 0..(MaxClock + TicksPerSecond) /\ KeyOf[k] \in Int
      BY <2>1, Stored, Held
    <2>3. Limit \in Nat /\ MaxClock + TicksPerSecond \in Nat
      BY SyncAssumption
    <2>4. /\ Cardinality({k \in B : KeyOf[k] > KeyOf[m]}) >= Limit
          /\ \A k \in N : KeyOf[k] > KeyOf[m]
      <3> HIDE DEF B
      <3>1. QED
        BY <1>4, <1>6, <2>1, <2>2, <2>3, NewestInOrder
    <2>5. Cardinality(N) >= Limit
      <3>1. {k \in B : KeyOf[k] > KeyOf[m]} \subseteq B
        OBVIOUS
      <3>2. /\ Cardinality({k \in B : KeyOf[k] > KeyOf[m]}) <= Cardinality(B)
            /\ Cardinality(B) \in Nat /\ Cardinality({k \in B : KeyOf[k] > KeyOf[m]}) \in Nat
        <4> HIDE DEF B
        <4>1. QED
          BY <2>1, <3>1, FS_Subset, FS_CardinalityType
      <3>3. Cardinality(B) >= Limit
        BY <2>3, <2>4, <3>2
      <3>4. QED
        <4> HIDE DEF B
        <4>1. QED
          BY <2>1, <2>2, <2>3, <3>3, NewestFull
    <2>6. found = N
      <3>1. ASSUME NEW k \in N, k \in deleted PROVE FALSE
        <4>1. k \in B
          BY DEF Newest
        <4>2. log[k].chat = log[m].chat /\ KeyOf[k] > KeyOf[m]
          BY <2>4, <4>1
        <4>3. QED
          BY <3>1, <4>2 DEF Due
      <3>2. QED
        BY <1>1, <3>1
    <2>7. Ahead(m, found) = N
      <3>1. ASSUME NEW k \in N PROVE Second(TimeOf[k]) >= Second(TimeOf[m])
        <4>1. k \in Sent
          BY <2>1 DEF Newest
        <4>2. TimeOf[k] \in Int /\ KeyOf[k] = Key(TimeOf[k]) /\ KeyOf[k] > TimeOf[m]
          BY <1>2, <2>4, <4>1, Held
        <4>3. Second(TimeOf[m]) <= Second(TimeOf[k])
          BY <1>2, <4>2, KeyAhead
        <4>4. QED
          BY <4>1, <4>3, Held
      <3>2. QED
        BY <2>6, <3>1 DEF Ahead
    <2>8. QED
      BY <2>5, <2>7
  <1>7. QED
    BY <1>5, <1>6

\* The reply has it, or is full and reaches back no further than its second.
LEMMA TrimReturns ==
    ASSUME IInv, NEW m \in Sent, m \in read \/ Cardinality(Ahead(m, read)) >= Limit
    PROVE  \/ m \in Trim.messages
           \/ Trim.more /\ \A p \in Trim.messages : Second(TimeOf[p]) >= Second(TimeOf[m])
  <1> SUFFICES ASSUME m \notin Trim.messages
               PROVE  Trim.more /\ \A p \in Trim.messages : Second(TimeOf[p]) >= Second(TimeOf[m])
    OBVIOUS
  <1>1. /\ Trim.messages = Newest(read, Limit, TimeOf) /\ Trim.more = (Cardinality(read) >= Limit)
        /\ IsFiniteSet(read) /\ read \subseteq Sent
    BY Trimmed
  <1>2. \A k \in Sent : TimeOf[k] \in Int /\ Second(TimeOf[k]) \in Int
    BY Held
  <1>3. Limit \in Nat
    BY SyncAssumption
  <1>4. IsFiniteSet(Ahead(m, read)) /\ Cardinality(Ahead(m, read)) \in Nat /\ Ahead(m, read) \subseteq read
    BY <1>1, FS_Subset, FS_CardinalityType DEF Ahead
  <1>5. Cardinality(Ahead(m, read)) >= Limit
    <2>1. CASE m \in read
      <3> DEFINE After == {k \in read : TimeOf[k] > TimeOf[m]}
      <3>1. Cardinality(After) >= Limit
        BY <1>1, <1>2, <1>3, <2>1, NewestInOrder
      <3>2. After \subseteq Ahead(m, read)
        <4>1. ASSUME NEW k \in After PROVE Second(TimeOf[k]) >= Second(TimeOf[m])
          <5>1. TimeOf[k] \in Int /\ TimeOf[m] \in Int /\ TimeOf[m] <= TimeOf[k]
            BY <1>1, <1>2
          <5>2. Second(TimeOf[m]) <= Second(TimeOf[k])
            BY <5>1, SecondsGrow
          <5>3. QED
            BY <1>1, <1>2, <5>2
        <4>2. QED
          BY <4>1 DEF Ahead
      <3>3. Cardinality(After) <= Cardinality(Ahead(m, read)) /\ Cardinality(After) \in Nat
        <4> HIDE DEF After
        <4>1. QED
          BY <1>4, <3>2, FS_Subset, FS_CardinalityType
      <3>4. QED
        BY <1>3, <1>4, <3>1, <3>3
    <2>2. QED
      BY <2>1
  <1>6. Trim.more
    <2>1. Cardinality(Ahead(m, read)) <= Cardinality(read) /\ Cardinality(read) \in Nat
      BY <1>1, <1>4, FS_Subset, FS_CardinalityType
    <2>2. Cardinality(read) >= Limit
      BY <1>3, <1>4, <1>5, <2>1
    <2>3. QED
      BY <2>2 DEF Trim
  <1>7. ASSUME NEW p \in Trim.messages, ~(Second(TimeOf[p]) >= Second(TimeOf[m]))
        PROVE  FALSE
    <2> DEFINE After == {k \in read : TimeOf[k] > TimeOf[p]}
    <2>1. p \in read /\ Cardinality(After) < Limit
      BY <1>1 DEF Newest
    <2>2. Ahead(m, read) \subseteq After
      <3>1. ASSUME NEW k \in Ahead(m, read) PROVE TimeOf[k] > TimeOf[p]
        <4>1. /\ k \in read /\ Second(TimeOf[k]) >= Second(TimeOf[m])
              /\ TimeOf[k] \in Int /\ TimeOf[p] \in Int
              /\ Second(TimeOf[k]) \in Int /\ Second(TimeOf[p]) \in Int /\ Second(TimeOf[m]) \in Int
          BY <1>1, <1>2, <2>1 DEF Ahead
        <4>2. TimeOf[k] <= TimeOf[p] => Second(TimeOf[k]) <= Second(TimeOf[p])
          BY <4>1, SecondsGrow
        <4>3. QED
          BY <1>7, <4>1, <4>2
      <3>2. QED
        BY <1>4, <3>1
    <2>3. /\ Cardinality(Ahead(m, read)) <= Cardinality(After)
          /\ Cardinality(After) \in Nat
      <3>1. After \subseteq read
        OBVIOUS
      <3>2. QED
        <4> HIDE DEF After
        <4>1. QED
          BY <1>1, <2>2, <3>1, FS_Subset, FS_CardinalityType
    <2>4. QED
      BY <1>3, <1>4, <1>5, <2>1, <2>3
  <1>8. QED
    BY <1>6, <1>7

\* More that has been read leaves no more out.
LEMMA AheadGrows ==
    ASSUME IInv, IInv', [Next]_vars, NEW m \in Sent, NEW M, M \subseteq read', M \subseteq Sent,
           Cardinality(Ahead(m, M)) >= Limit
    PROVE  Cardinality(Ahead(m, read)') >= Limit
  <1>1. IsFiniteSet(read')
    <2>1. log' \in Seq([chat : Chats, at : 0..MaxClock]) /\ read' \subseteq Sent'
      BY DEF IInv, TypedStore, TypedService
    <2>2. Sent' = 1..Len(log') /\ Len(log') \in Nat
      BY <2>1, LenProperties DEF Sent
    <2>3. IsFiniteSet(1..Len(log'))
      BY <2>2, FS_Interval
    <2>4. QED
      BY <2>1, <2>2, <2>3, FS_Subset
  <1>2. Ahead(m, read)' = {k \in read' : Second(TimeOf'[k]) >= Second(TimeOf'[m])}
    BY DEF Ahead
  <1>3. Ahead(m, M) \subseteq Ahead(m, read)'
    BY <1>2, SameTimes DEF Ahead
  <1>4. IsFiniteSet(Ahead(m, read)')
    BY <1>1, <1>2, FS_Subset
  <1>5. /\ Cardinality(Ahead(m, M)) <= Cardinality(Ahead(m, read)')
        /\ Cardinality(Ahead(m, M)) \in Nat /\ Cardinality(Ahead(m, read)') \in Nat
    BY <1>3, <1>4, FS_Subset, FS_CardinalityType
  <1>6. QED
    BY <1>5, SyncAssumption

\* The sync goes past nothing while its cursor stays and it does not end.
LEMMA NotPastStays ==
    ASSUME IInv, NotPast, [Next]_vars, ~FullSync, cursor' = cursor, complete' = complete
    PROVE  NotPast'
  <1>1. ASSUME NEW m \in Sent', Due(m)' PROVE ~GonePast(m)'
    <2>1. m \in Sent /\ Due(m) /\ TimeOf'[m] = TimeOf[m]
      BY <1>1, DueBefore
    <2>2. ~GonePast(m)
      BY <2>1 DEF NotPast
    <2>3. GonePast(m)' <=> (complete' \/ (cursor' # NoCursor /\ Second(TimeOf'[m]) > cursor'))
      BY DEF GonePast
    <2>4. QED
      BY <2>1, <2>2, <2>3 DEF GonePast
  <1>2. QED
    BY <1>1 DEF NotPast

\* Steps of the others.
LEMMA OthersPending ==
    ASSUME IInv, IInv', Pending, [Next]_vars, ~FullSync,
           UNCHANGED <<phase, cursor, got, unread, read, page, missed, complete>>
    PROVE  Pending'
  <1>1. NotPast'
    BY NotPastStays DEF Pending
  <1>2. Caught'
    <2>1. ASSUME phase' = "reading", NEW m \in Sent', Due(m)', log'[m].chat \notin unread', m \notin read'
          PROVE  Cardinality(Ahead(m, read)') >= Limit
      <3>1. m \in Sent /\ Due(m) /\ log'[m] = log[m]
        BY <2>1, DueBefore
      <3>2. Cardinality(Ahead(m, read)) >= Limit
        BY <2>1, <3>1 DEF Pending, Caught
      <3>3. read \subseteq read' /\ read \subseteq Sent
        BY Held
      <3>4. QED
        BY <3>1, <3>2, <3>3, AheadGrows
    <2>2. QED
      BY <2>1 DEF Caught
  <1>3. Answered'
    <2>1. ASSUME phase' = "replied", NEW m \in Sent', Due(m)', m \notin page'.messages
          PROVE  page'.more /\ \A p \in page'.messages : Second(TimeOf'[p]) >= Second(TimeOf'[m])
      <3>1. m \in Sent /\ Due(m) /\ TimeOf'[m] = TimeOf[m]
        BY <2>1, DueBefore
      <3>2. page.more /\ \A p \in page.messages : Second(TimeOf[p]) >= Second(TimeOf[m])
        BY <2>1, <3>1 DEF Pending, Answered
      <3>3. \A p \in page.messages : TimeOf'[p] = TimeOf[p]
        BY SameTimes, Held
      <3>4. QED
        BY <3>1, <3>2, <3>3
    <2>2. QED
      BY <2>1 DEF Answered
  <1>4. QED
    BY <1>1, <1>2, <1>3 DEF Pending

\* A chat that is read brings what is due in it, or a page's worth.
LEMMA ReadChatPending ==
    ASSUME IInv, IInv', Seam, Pending, [Next]_vars, NEW c \in Chats, ReadChat(c)
    PROVE  Pending'
  <1>1. /\ phase = "reading" /\ phase' = phase /\ cursor' = cursor /\ complete' = complete
        /\ c \in unread /\ unread' = unread \ {c}
        /\ \/ read' = read \cup GetMessages(c, from)
           \/ read' = read /\ missed' = missed \cup {c}
    BY DEF ReadChat, device
  <1>2. ~FullSync
    BY <1>1 DEF FullSync
  <1>3. NotPast'
    BY <1>1, <1>2, NotPastStays DEF Pending
  <1>4. Caught'
    <2>1. ASSUME NEW m \in Sent', Due(m)', log'[m].chat \notin unread', m \notin read'
          PROVE  Cardinality(Ahead(m, read)') >= Limit
      <3>1. m \in Sent /\ Due(m) /\ log'[m] = log[m] /\ log[m].chat \notin missed'
        BY <1>2, <2>1, DueBefore
      <3>2. CASE log[m].chat # c
        <4>1. log[m].chat \notin unread /\ m \notin read
          BY <1>1, <2>1, <3>1, <3>2
        <4>2. Cardinality(Ahead(m, read)) >= Limit
          BY <1>1, <3>1, <4>1 DEF Pending, Caught
        <4>3. read \subseteq read' /\ read \subseteq Sent
          BY <1>1, Held
        <4>4. QED
          BY <3>1, <4>2, <4>3, AheadGrows
      <3>3. CASE log[m].chat = c
        <4>1. read' = read \cup GetMessages(c, from)
          BY <1>1, <3>1, <3>3
        <4>2. m \notin GetMessages(log[m].chat, from)
          BY <2>1, <3>3, <4>1
        <4>3. Cardinality(Ahead(m, GetMessages(log[m].chat, from))) >= Limit
          BY <1>1, <3>1, <4>2, ReadReturns DEF Pending
        <4>4. GetMessages(log[m].chat, from) \subseteq Sent
          BY DEF GetMessages, Newest
        <4>5. GetMessages(log[m].chat, from) \subseteq read'
          BY <3>3, <4>1
        <4>6. QED
          BY <3>1, <4>3, <4>4, <4>5, AheadGrows
      <3>4. QED
        BY <3>2, <3>3
    <2>2. QED
      BY <2>1 DEF Caught
  <1>5. Answered'
    BY <1>1 DEF Answered
  <1>6. QED
    BY <1>3, <1>4, <1>5 DEF Pending

LEMMA HandleSyncPending ==
    ASSUME IInv, Pending, [Next]_vars, HandleSync
    PROVE  Pending'
  <1>1. /\ phase' = "reading" /\ cursor' = cursor /\ complete' = complete
        /\ unread' = Chats \/ missed' = Chats
    BY DEF HandleSync, device
  <1>2. ~FullSync
    BY DEF HandleSync, FullSync
  <1>3. NotPast'
    BY <1>1, <1>2, NotPastStays DEF Pending
  <1>4. Caught'
    <2>1. ASSUME NEW m \in Sent', Due(m)', log'[m].chat \notin unread'
          PROVE  FALSE
      <3>1. m \in Sent /\ log'[m] = log[m] /\ log[m].chat \notin missed'
        BY <1>2, <2>1, DueBefore
      <3>2. log[m].chat \in Chats
        BY <3>1, Stored
      <3>3. QED
        BY <1>1, <2>1, <3>1, <3>2
    <2>2. QED
      BY <2>1 DEF Caught
  <1>5. Answered'
    BY <1>1 DEF Answered
  <1>6. QED
    BY <1>3, <1>4, <1>5 DEF Pending

LEMMA ReplyPending ==
    ASSUME IInv, Pending, [Next]_vars, Reply
    PROVE  Pending'
  <1>1. /\ phase = "reading" /\ phase' = "replied" /\ cursor' = cursor /\ complete' = complete
        /\ unread = {} /\ page' = Trim
    BY DEF Reply, device
  <1>2. ~FullSync
    BY <1>1 DEF FullSync
  <1>3. NotPast'
    BY <1>1, <1>2, NotPastStays DEF Pending
  <1>4. Caught'
    BY <1>1 DEF Caught
  <1>5. Answered'
    <2>1. ASSUME NEW m \in Sent', Due(m)', m \notin page'.messages
          PROVE  page'.more /\ \A p \in page'.messages : Second(TimeOf'[p]) >= Second(TimeOf'[m])
      <3>1. m \in Sent /\ Due(m) /\ TimeOf'[m] = TimeOf[m]
        BY <1>2, <2>1, DueBefore
      <3>2. m \in read \/ Cardinality(Ahead(m, read)) >= Limit
        BY <1>1, <3>1 DEF Pending, Caught
      <3>3. m \notin Trim.messages
        BY <1>1, <2>1
      <3>4. Trim.more /\ \A p \in Trim.messages : Second(TimeOf[p]) >= Second(TimeOf[m])
        BY <3>1, <3>2, <3>3, TrimReturns
      <3>5. \A p \in Trim.messages : TimeOf'[p] = TimeOf[p]
        BY SameTimes, Trimmed
      <3>6. QED
        BY <1>1, <3>1, <3>4, <3>5
    <2>2. QED
      BY <2>1 DEF Answered
  <1>6. QED
    BY <1>3, <1>4, <1>5 DEF Pending

\* The device takes the page: what is due is not in it, so the next page is asked for from
\* no earlier than its second.
LEMMA ReceivePending ==
    ASSUME IInv, Pending, [Next]_vars, Receive
    PROVE  Pending'
  <1>1. /\ phase = "replied" /\ phase' \notin {"reading", "replied"}
        /\ got' = got \cup page.messages /\ complete' = ~page.more
        /\ IF page.messages = {} THEN cursor' = cursor ELSE cursor' = NextCursor(page.messages)
    BY DEF Receive, Batch
  <1>2. ~FullSync
    BY <1>1 DEF FullSync
  <1>3. NotPast'
    <2>1. ASSUME NEW m \in Sent', Due(m)' PROVE ~GonePast(m)'
      <3>1. m \in Sent /\ Due(m) /\ TimeOf'[m] = TimeOf[m] /\ m \notin got'
        BY <1>2, <2>1, DueBefore
      <3>2. page.more /\ \A p \in page.messages : Second(TimeOf[p]) >= Second(TimeOf[m])
        BY <1>1, <3>1 DEF Pending, Answered
      <3>3. ~(cursor' # NoCursor /\ Second(TimeOf[m]) > cursor')
        <4>1. CASE page.messages = {}
          BY <1>1, <3>1, <4>1 DEF Pending, NotPast, GonePast
        <4>2. CASE page.messages # {}
          <5>1. PICK p \in page.messages : NextCursor(page.messages) = Second(TimeOf[p])
            BY <4>2, Oldest, Held
          <5>2. cursor' = Second(TimeOf[p]) /\ Second(TimeOf[p]) >= Second(TimeOf[m])
            BY <1>1, <3>2, <4>2, <5>1
          <5>3. Second(TimeOf[p]) \in Int /\ Second(TimeOf[m]) \in Int
            BY <3>1, Held
          <5>4. QED
            BY <5>2, <5>3
        <4>3. QED
          BY <4>1, <4>2
      <3>4. ~complete'
        BY <1>1, <3>2
      <3>5. GonePast(m)' <=> (complete' \/ (cursor' # NoCursor /\ Second(TimeOf'[m]) > cursor'))
        BY DEF GonePast
      <3>6. QED
        BY <3>1, <3>3, <3>4, <3>5
    <2>2. QED
      BY <2>1 DEF NotPast
  <1>4. Caught' /\ Answered'
    BY <1>1 DEF Caught, Answered
  <1>5. QED
    BY <1>3, <1>4 DEF Pending

LEMMA FullSyncPending ==
    ASSUME FullSync
    PROVE  Pending'
  BY DEF FullSync, Pending, NotPast, GonePast, Caught, Answered

LEMMA NextPending == IInv /\ IInv' /\ Seam /\ Pending /\ [Next]_vars => Pending'
  <1> SUFFICES ASSUME IInv, IInv', Seam, Pending, [Next]_vars PROVE Pending'
    OBVIOUS
  <1>1. CASE FullSync
    BY <1>1, FullSyncPending
  <1>2. CASE /\ ~FullSync
             /\ \/ UNCHANGED vars
                \/ \E c \in Chats : \E t \in clock..MaxClock : Post(c, t)
                \/ \E m \in Sent : Delete(m)
    <2>1. UNCHANGED <<phase, cursor, got, unread, read, page, missed, complete>>
      BY <1>2 DEF vars, Post, Delete, device, service
    <2>2. QED
      BY <1>2, <2>1, OthersPending
  <1>3. CASE SyncFails
    <2>1. phase \in {"asking", "replied"} /\ phase' = "idle" /\ cursor' = cursor /\ complete' = complete
      BY <1>3 DEF SyncFails, device
    <2>2. ~FullSync
      BY <2>1 DEF FullSync
    <2>3. NotPast'
      BY <2>1, <2>2, NotPastStays DEF Pending
    <2>4. Caught' /\ Answered'
      BY <2>1 DEF Caught, Answered
    <2>5. QED
      BY <2>3, <2>4 DEF Pending
  <1>4. CASE SyncStep
    BY <1>4, HandleSyncPending, ReplyPending, ReceivePending, ReadChatPending DEF SyncStep
  <1>5. QED
    BY <1>1, <1>2, <1>3, <1>4 DEF Next

LEMMA AlwaysPending == Spec => []Pending
  <1>1. Init => Pending
    BY DEF Init, Pending, NotPast, GonePast, Caught, Answered
  <1>2. IInv /\ IInv' /\ Seam /\ Pending /\ [Next]_vars => Pending'
    BY NextPending
  <1>3. QED
    BY <1>1, <1>2, Inductive, AlwaysSeam, PTL DEF Spec

\* For any chats, any limit and any window, and whatever is deleted or cannot be read while
\* it runs: a sync leaves out no message it has gone past, but for one created on the very
\* second, one behind a deleted message, or one of a chat that could not be read.
THEOREM LeavesNothingElseOut == Spec => []SkipsOnlyBehindDeleted
  <1>1. Pending => SkipsOnlyBehindDeleted
    <2> SUFFICES ASSUME Pending, NEW m \in Sent \ (got \cup deleted),
                        GonePast(m), TimeOf[m] < start - Window
                 PROVE  \/ TimeOf[m] % TicksPerSecond = 0
                        \/ log[m].chat \in missed
                        \/ \E d \in deleted : log[d].chat = log[m].chat /\ KeyOf[d] > KeyOf[m]
      BY DEF SkipsOnlyBehindDeleted
    <2>1. ~Due(m)
      BY DEF Pending, NotPast
    <2>2. QED
      BY <2>1 DEF Due
  <1>2. QED
    BY <1>1, AlwaysPending, PTL

-----------------------------------------------------------------------------
(* Every sync comes to an end: what remains of a sync, first the cursor,   *)
(* then the request, then the chats it has still to read, gets less with   *)
(* every step of the app or of the service, and no other step adds to it.  *)

Height == IF cursor = NoCursor THEN MaxClock + 1 ELSE cursor
Stage  == CASE phase = "asking" -> 2 [] phase = "reading" -> 1 [] OTHER -> 0

Closer ==
    \/ Height' < Height
    \/ Height' = Height /\ Stage' < Stage
    \/ Height' = Height /\ Stage' = Stage /\ unread' \subseteq unread /\ unread' # unread

\* No step of a sync is in vain, and no other step undoes one.
StepsRunOut ==
    [][/\ SyncStep => phase' = "idle" \/ Crowded \/ Closer
       /\ phase # "idle" /\ ~SyncStep => phase' = "idle" \/ UNCHANGED <<Height, Stage, unread>>]_vars

\* A reply that promises another page is full.
FullIfMore == page.more => Cardinality(page.messages) >= Limit

LEMMA ReplyFull ==
    ASSUME IInv, Reply
    PROVE  FullIfMore'
  <1>1. /\ Trim.messages = Newest(read, Limit, TimeOf) /\ Trim.more = (Cardinality(read) >= Limit)
        /\ IsFiniteSet(read) /\ read \subseteq Sent
    BY Trimmed
  <1>2. \A m \in read : TimeOf[m] \in 0..MaxClock
    BY <1>1, Stored
  <1>3. Cardinality(read) >= Limit => Cardinality(Newest(read, Limit, TimeOf)) >= Limit
    BY <1>1, <1>2, NewestFull, SyncAssumption
  <1>4. page' = Trim
    BY DEF Reply
  <1>5. QED
    BY <1>1, <1>3, <1>4 DEF FullIfMore

LEMMA AlwaysFull == Spec => []FullIfMore
  <1>1. Init => FullIfMore
    BY Blank DEF Init, FullIfMore
  <1>2. IInv /\ FullIfMore /\ [Next]_vars => FullIfMore'
    <2> SUFFICES ASSUME IInv, FullIfMore, [Next]_vars PROVE FullIfMore'
      OBVIOUS
    <2>1. CASE Reply
      BY <2>1, ReplyFull
    <2>2. CASE page' = page
      BY <2>2 DEF FullIfMore
    <2>3. CASE page' = NoPage
      BY <2>3, Blank DEF FullIfMore
    <2>4. Reply \/ page' = page \/ page' = NoPage
      BY DEF Next, SyncStep, Post, Delete, FullSync, SyncFails, HandleSync, ReadChat, Receive, vars
    <2>5. QED
      BY <2>1, <2>2, <2>3, <2>4
  <1>3. QED
    BY <1>1, <1>2, Inductive, PTL DEF Spec

\* If all of a full page is of one second, that second is crowded.
LEMMA OneSecond ==
    ASSUME IInv, NEW M, M \subseteq Sent, Cardinality(M) >= Limit, NEW s \in 0..MaxClock,
           \A m \in M : Second(TimeOf[m]) = s
    PROVE  Crowded
  <1> DEFINE Same == {m \in Sent : Second(TimeOf[m]) = s}
  <1>1. M \subseteq Same /\ IsFiniteSet(Same)
    BY Stored, FS_Subset
  <1>2. Cardinality(M) <= Cardinality(Same) /\ Cardinality(M) \in Nat /\ Cardinality(Same) \in Nat
    <2> HIDE DEF Same
    <2>1. QED
      BY <1>1, FS_Subset, FS_CardinalityType
  <1>3. Cardinality(Same) >= Limit
    BY <1>2, SyncAssumption
  <1>4. QED
    BY <1>3 DEF Crowded

\* A page that promises more moves the cursor back, unless it is of one second only.
LEMMA CursorGoesBack ==
    ASSUME IInv, Seam, FullIfMore, Receive, page.more, ~Crowded
    PROVE  Height' < Height
  <1>1. /\ cursor' = NextCursor(page.messages) /\ page.messages # {} /\ page.messages \subseteq Sent
    <2>1. Cardinality(page.messages) >= Limit /\ page.messages \subseteq Sent
      BY DEF FullIfMore, IInv, TypedPage
    <2>2. page.messages # {}
      BY <2>1, FS_EmptySet, SyncAssumption
    <2>3. QED
      BY <2>1, <2>2 DEF Receive, Batch
  <1>2. PICK p \in page.messages :
           /\ NextCursor(page.messages) = Second(TimeOf[p])
           /\ \A m \in page.messages : TimeOf[p] <= TimeOf[m]
    BY <1>1, Oldest
  <1>3. TimeOf[p] \in 0..MaxClock /\ Second(TimeOf[p]) \in 0..MaxClock
    <2>1. TimeOf[p] \in 0..MaxClock
      BY <1>1, Stored
    <2>2. TimeOf[p] \in Int /\ TimeOf[p] \in Nat /\ TimeOf[p] <= MaxClock /\ MaxClock \in Nat
      BY <2>1, SyncAssumption
    <2>3. Second(TimeOf[p]) \in 0..TimeOf[p]
      BY <2>2, Seconds
    <2>4. QED
      BY <2>1, <2>2, <2>3
  <1>4. cursor' = Second(TimeOf[p]) /\ Height' = Second(TimeOf[p])
    BY <1>1, <1>2, <1>3, SyncAssumption DEF Height
  <1>5. CASE cursor = NoCursor
    BY <1>3, <1>4, <1>5, SyncAssumption DEF Height
  <1>6. CASE cursor # NoCursor
    <2>1. cursor \in 0..MaxClock /\ Height = cursor
      BY <1>6 DEF Height, IInv, TypedDevice
    <2>2. Second(TimeOf[p]) <= cursor
      BY <1>6 DEF Seam, PageBefore
    <2>3. ASSUME Second(TimeOf[p]) = cursor PROVE FALSE
      <3>1. ASSUME NEW m \in page.messages PROVE Second(TimeOf[m]) = cursor
        <4>1. TimeOf[m] \in Int /\ TimeOf[p] \in Int /\ TimeOf[p] <= TimeOf[m]
          BY <1>1, <1>2, Stored
        <4>2. Second(TimeOf[p]) <= Second(TimeOf[m]) /\ Second(TimeOf[m]) \in Int
          BY <4>1, SecondsGrow, Seconds
        <4>3. Second(TimeOf[m]) <= cursor
          BY <1>6 DEF Seam, PageBefore
        <4>4. QED
          BY <2>1, <2>3, <4>2, <4>3
      <3>2. Cardinality(page.messages) >= Limit
        BY DEF FullIfMore
      <3>3. Crowded
        BY <1>1, <2>1, <3>1, <3>2, OneSecond
      <3>4. QED
        BY <3>3
    <2>4. QED
      BY <1>3, <1>4, <2>1, <2>2, <2>3
  <1>7. QED
    BY <1>5, <1>6

LEMMA EachStepRunsOut ==
    ASSUME IInv, Seam, FullIfMore, SyncStep
    PROVE  phase' = "idle" \/ Crowded \/ Closer
  <1>1. CASE HandleSync
    <2>1. cursor' = cursor /\ phase = "asking" /\ phase' = "reading"
      BY <1>1 DEF HandleSync, device
    <2>2. QED
      BY <2>1 DEF Closer, Height, Stage
  <1>2. CASE Reply
    <2>1. cursor' = cursor /\ phase = "reading" /\ phase' = "replied"
      BY <1>2 DEF Reply, device
    <2>2. QED
      BY <2>1 DEF Closer, Height, Stage
  <1>3. ASSUME NEW c \in Chats, ReadChat(c) PROVE Closer
    <2>1. cursor' = cursor /\ phase' = phase /\ c \in unread /\ unread' = unread \ {c}
      BY <1>3 DEF ReadChat, device
    <2>2. unread' \subseteq unread /\ unread' # unread
      BY <2>1
    <2>3. QED
      BY <2>1, <2>2 DEF Closer, Height, Stage
  <1>4. CASE Receive
    <2>1. ~page.more => phase' = "idle"
      BY <1>4 DEF Receive
    <2>2. page.more /\ ~Crowded => Height' < Height
      BY <1>4, CursorGoesBack
    <2>3. QED
      BY <2>1, <2>2 DEF Closer
  <1>5. QED
    BY <1>1, <1>2, <1>3, <1>4 DEF SyncStep

\* What SyncEnds needs besides fairness, for any chats and any limit: every step of a sync
\* leaves less of it to do, or ends it, unless a page's worth of messages fell into one
\* second; and while it runs nothing else adds to what there is to do.
THEOREM EverySyncRunsOut == Spec => StepsRunOut
  <1>1. ASSUME IInv, Seam, FullIfMore, [Next]_vars
        PROVE  [/\ SyncStep => phase' = "idle" \/ Crowded \/ Closer
                /\ phase # "idle" /\ ~SyncStep
                      => phase' = "idle" \/ UNCHANGED <<Height, Stage, unread>>]_vars
    <2>1. ASSUME phase # "idle", ~SyncStep PROVE phase' = "idle" \/ UNCHANGED <<phase, cursor, unread>>
      BY <1>1, <2>1 DEF Next, Post, Delete, FullSync, SyncFails, vars, device, service
    <2>2. UNCHANGED <<phase, cursor, unread>> => UNCHANGED <<Height, Stage, unread>>
      BY DEF Height, Stage
    <2>3. QED
      BY <1>1, <2>1, <2>2, EachStepRunsOut
  <1>2. QED
    BY <1>1, Inductive, AlwaysSeam, AlwaysFull, PTL DEF Spec, StepsRunOut
=============================================================================
