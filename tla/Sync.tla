-------------------------------- MODULE Sync --------------------------------
(***************************************************************************)
(* Catching up after being away: the paged history of the message service  *)
(* (handleSyncMessages and GetMessages over DynamoDB) and the loop of the  *)
(* app that pages through it (SyncService.fullSync).                       *)
(*                                                                         *)
(* A message is created at a tick of the clock, TicksPerSecond of them in  *)
(* a second.  The sort key of a message is the text of its time, and the   *)
(* cursor between two pages is a time in whole seconds, so the order of    *)
(* keys and the width of the cursor are part of the model.                 *)
(***************************************************************************)
EXTENDS Integers, Sequences, FiniteSets

CONSTANTS
    Chats,          \* the chats the user takes part in
    TicksPerSecond,
    Window,         \* ticks a sync without a cursor goes back (30 days)
    Limit,          \* messages in a page
    MaxMessages,    \* bound of the model on messages
    MaxDeleted,     \* bound of the model on deletions
    MaxClock,       \* bound of the model on time
    NoCursor

ASSUME SyncAssumption ==
    /\ TicksPerSecond \in Nat \ {0}
    /\ Limit \in Nat \ {0}
    /\ {Window, MaxMessages, MaxDeleted, MaxClock} \subseteq Nat
    /\ NoCursor \notin Int

VARIABLES
    log,      \* the messages stored, in the order of their creation: chat and tick
    deleted,  \* is_deleted: indexes of log
    clock,
    phase,    \* of the one sync of the app: "idle", "asking", "reading", "replied"
    cursor,   \* _lastCursor, a second
    got,      \* what onBatch has been given
    from,     \* cursor of the request the service handles, a tick
    unread,   \* chats the service has still to read
    read,     \* allMessages
    page,     \* the reply: messages and has_more
    missed,   \* (auxiliary) chats of which a read has failed
    complete, \* (auxiliary) the sync has come to its end
    start     \* (auxiliary) the tick the sync began

store   == <<log, deleted, clock>>
service == <<from, unread, read>>
device  == <<cursor, got>>
vars    == <<log, deleted, clock, phase, cursor, got, from, unread, read, page,
             missed, complete, start>>

Sent   == DOMAIN log
Second(t) == t \div TicksPerSecond
NoPage == [messages |-> {}, more |-> FALSE]

Init ==
    /\ log = <<>>
    /\ deleted = {}
    /\ clock = 0
    /\ phase = "idle"
    /\ cursor = NoCursor
    /\ got = {}
    /\ from = 0
    /\ unread = {}
    /\ read = {}
    /\ page = NoPage
    /\ missed = {}
    /\ complete = FALSE
    /\ start = 0

-----------------------------------------------------------------------------
(* The messages of the chats, as the other handlers change them.           *)

\* Some time after the message before it; no two messages have the same time.
Post(c, t) ==
    /\ Len(log) < MaxMessages
    /\ t >= clock /\ t < MaxClock
    /\ log' = Append(log, [chat |-> c, at |-> t])
    /\ clock' = t + 1
    /\ UNCHANGED <<deleted, phase, device, service, page, missed, complete, start>>

Delete(m) ==
    /\ m \notin deleted
    /\ Cardinality(deleted) < MaxDeleted
    /\ deleted' = deleted \cup {m}
    /\ UNCHANGED <<log, clock, phase, device, service, page, missed, complete, start>>

-----------------------------------------------------------------------------
(* GetMessages.                                                            *)

\* Fault: the keys compare as the times do.
KeyAsTime(t) == t

\* The place of a sort key among the keys.  RFC3339Nano leaves out a fraction that is zero,
\* and "." is before "Z": the key of a whole second is the last one of its second.
Key(t) ==
    LET fraction == t % TicksPerSecond
    IN  t + (IF fraction = 0 THEN TicksPerSecond ELSE 0)

\* The `n` members of `messages` with the highest value of `rank`, or all of them.
Newest(messages, n, rank) ==
    {m \in messages : Cardinality({k \in messages : rank[k] > rank[m]}) < n}

KeyOf == [m \in Sent |-> Key(log[m].at)]
TimeOf == [m \in Sent |-> log[m].at]

\* Before the cursor, the newest first; the limit counts what the filter takes out after it.
GetMessages(c, t) ==
    Newest({m \in Sent : log[m].chat = c /\ KeyOf[m] < Key(t)}, Limit, KeyOf) \ deleted

-----------------------------------------------------------------------------
(* handleSyncMessages: one query for each chat.                            *)

\* `after` of the request, or a month before now.
HandleSync ==
    /\ phase = "asking"
    /\ phase' = "reading"
    /\ from' = IF cursor = NoCursor THEN clock - Window ELSE cursor * TicksPerSecond
    /\ \/ unread' = Chats /\ UNCHANGED missed
       \/ unread' = {} /\ missed' = Chats
    /\ read' = {}
    /\ UNCHANGED <<store, device, page, complete, start>>

\* A chat that cannot be read is passed over.
ReadChat(c) ==
    /\ phase = "reading"
    /\ c \in unread
    /\ unread' = unread \ {c}
    /\ \/ read' = read \cup GetMessages(c, from) /\ UNCHANGED missed
       \/ missed' = missed \cup {c} /\ UNCHANGED read
    /\ UNCHANGED <<store, phase, device, from, page, complete, start>>

\* Fault: any message promises another page.
TrimHopeful ==
    [messages |-> Newest(read, Limit, TimeOf), more |-> read # {}]

Trim ==
    [messages |-> Newest(read, Limit, TimeOf), more |-> Cardinality(read) >= Limit]

\* Fault: what was read is still there for the next request.
ReplyKeeps ==
    /\ phase = "reading"
    /\ unread = {}
    /\ phase' = "replied"
    /\ page' = Trim
    /\ from' = 0
    /\ UNCHANGED <<store, device, unread, read, missed, complete, start>>

Reply ==
    /\ phase = "reading"
    /\ unread = {}
    /\ phase' = "replied"
    /\ page' = Trim
    /\ from' = 0
    /\ read' = {}
    /\ UNCHANGED <<store, device, unread, missed, complete, start>>

-----------------------------------------------------------------------------
(* SyncService, new for every screen that loads its conversations.         *)

FullSync ==
    /\ phase = "idle"
    /\ phase' = "asking"
    /\ cursor' = NoCursor
    /\ got' = {}
    /\ missed' = {}
    /\ complete' = FALSE
    /\ start' = clock
    /\ UNCHANGED <<store, service, page>>

\* Fault: the cursor is the newest message of the page.
NextCursorFirst(messages) ==
    Second(CHOOSE t \in {TimeOf[m] : m \in messages} : \A m \in messages : t >= TimeOf[m])

NextCursor(messages) ==
    Second(CHOOSE t \in {TimeOf[m] : m \in messages} : \A m \in messages : t <= TimeOf[m])

\* Fault: a batch replaces the one before it.
BatchReplaces ==
    /\ got' = page.messages
    /\ IF page.messages = {} THEN UNCHANGED cursor ELSE cursor' = NextCursor(page.messages)

Batch ==
    /\ got' = got \cup page.messages
    /\ IF page.messages = {} THEN UNCHANGED cursor ELSE cursor' = NextCursor(page.messages)

Receive ==
    /\ phase = "replied"
    /\ Batch
    /\ phase' = IF page.more THEN "asking" ELSE "idle"
    /\ complete' = ~page.more
    /\ page' = NoPage
    /\ UNCHANGED <<store, service, missed, start>>

\* Any failure ends the sync: the retry finds _isSyncing still set and returns FALSE.
SyncFails ==
    /\ phase \in {"asking", "replied"}
    /\ phase' = "idle"
    /\ page' = NoPage
    /\ UNCHANGED <<store, device, service, missed, complete, start>>

-----------------------------------------------------------------------------
SyncStep ==
    \/ HandleSync \/ Reply \/ Receive
    \/ \E c \in Chats : ReadChat(c)

Next ==
    \/ \E c \in Chats : \E t \in clock..MaxClock : Post(c, t)
    \/ \E m \in Sent : Delete(m)
    \/ FullSync \/ SyncFails
    \/ SyncStep

Spec == Init /\ [][Next]_vars

\* A request the app awaits is answered: the handler runs to its end, and so does the loop.
FairSpec == Spec /\ WF_vars(SyncStep)

-----------------------------------------------------------------------------
(* Properties.                                                             *)

\* Types, and: the service works on a request exactly while the app waits for its reply.
TypeOK ==
    /\ log \in Seq([chat : Chats, at : 0..MaxClock])
    /\ Len(log) <= MaxMessages
    /\ deleted \subseteq Sent
    /\ clock \in 0..MaxClock
    /\ phase \in {"idle", "asking", "reading", "replied"}
    /\ cursor \in (0..MaxClock) \cup {NoCursor}
    /\ got \subseteq Sent
    /\ from \in (-Window)..MaxClock
    /\ unread \subseteq Chats /\ missed \subseteq Chats
    /\ read \subseteq Sent /\ page.messages \subseteq Sent
    /\ page.more \in BOOLEAN /\ complete \in BOOLEAN
    /\ start \in 0..clock
    /\ phase # "reading" => unread = {} /\ read = {}
    /\ phase # "replied" => page = NoPage
    /\ Cardinality(page.messages) <= Limit

\* The sync has been through the time of message `m`.
GonePast(m) == complete \/ (cursor # NoCursor /\ Second(TimeOf[m]) > cursor)

\* A sync leaves out no message it has gone past, although the cursor loses the fraction of
\* a second, except one created on the very second, one behind a deleted message of its
\* chat, or one of a chat that could not be read.
SkipsOnlyBehindDeleted ==
    \A m \in Sent \ (got \cup deleted) :
        GonePast(m) /\ TimeOf[m] < start - Window
            => \/ TimeOf[m] % TicksPerSecond = 0
               \/ log[m].chat \in missed
               \/ \E d \in deleted : log[d].chat = log[m].chat /\ KeyOf[d] > KeyOf[m]

\* Two pages of a sync overlap in no more than the second of the cursor between them.
RepeatsOnlyAtSeam ==
    [][Receive => \A m \in got \cap page.messages : Second(TimeOf[m]) = cursor]_vars

\* Some second has as many messages as a page holds.
Crowded == \E s \in 0..MaxClock : Cardinality({m \in Sent : Second(TimeOf[m]) = s}) >= Limit

\* A sync ends, unless a page's worth of messages fell into one second.
SyncEnds == phase # "idle" ~> phase = "idle" \/ Crowded

\* sync_service.dart: "fetches ALL messages since last cursor in batches"; the first cursor
\* is a month ago.
CatchesUp ==
    complete /\ phase = "idle" /\ missed = {}
        => \A m \in Sent \ deleted :
              start - Window <= TimeOf[m] /\ TimeOf[m] < start => m \in got
=============================================================================
