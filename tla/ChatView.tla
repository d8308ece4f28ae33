------------------------------ MODULE ChatView ------------------------------
(***************************************************************************)
(* The messages of one chat as the app shows them: ChatProvider of         *)
(* chat_provider.dart, the scrolling of chat_detail_screen.dart and the    *)
(* cache of local_storage_service.dart, over a service that stores and     *)
(* broadcasts messages as handleSendMessage and handleGetMessages do.      *)
(*                                                                         *)
(* What the app does between two awaits is one step.  Of the list the      *)
(* model has what is in it, and what twice; its order, and the status and  *)
(* the reactions of entries, are left out.  Messages are numbered in the   *)
(* order of their creation and none is created on a whole second (see      *)
(* Sync), so that a page starts with what is in the second of its cursor.  *)
(* They are not encrypted: a decryption is one more await for a frame.     *)
(* The other service calls of the provider change nothing in the app.      *)
(***************************************************************************)
EXTENDS Naturals, FiniteSets

CONSTANTS
    Fetches,      \* calls of fetchMessages that may run at a time
    Sends,        \* calls of sendMessage, and their entries local_<time>
    Limit,        \* 50 in fetchMessages
    CacheSize,    \* 200 in cacheMessages
    MaxMessages,  \* bound of the model on messages
    MaxSecond,    \* bound of the model on time
    MaxDeleted,   \* bound of the model on deletions
    MaxTimers,    \* bound of the model on delayed reconnections
    NoCursor,
    NoFetch

ASSUME ChatViewAssumption ==
    /\ Limit \in Nat \ {0}
    /\ {CacheSize, MaxMessages, MaxSecond, MaxDeleted, MaxTimers} \subseteq Nat
    /\ NoCursor \notin Nat
    /\ NoFetch \notin Fetches
    /\ Sends \cap Nat = {}
    /\ IsFiniteSet(Sends)
    /\ {"other", "none"} \cap Sends = {}

VARIABLES
    stored,     \* how many messages the chat has in the table
    second,     \* created_at of a message, in whole seconds
    by,         \* who sent it: a call here, or some "other" device or user
    deleted,    \* is_deleted
    list,       \* _messages: 0 for an entry it does not have, 1, or 2 for any number more
    cursor,     \* _nextCursors
    more,       \* _hasMore
    cache,      \* the entries in SharedPreferences
    attached,   \* the ListView is on the screen
    pc,         \* the await of a fetch
    from,       \* the cursor of its request
    page,       \* its answer: messages
    last,       \* and has_more
    scrolling,  \* the fetch that _loadMore of the screen waits for (_isLoadingMore)
    sending,    \* the await of a send, or how it ended
    link,       \* the WebSocket as the app sees it: "none", "up" or "down"
    timers,     \* delayed reconnections
    frames,     \* how many message.new are on their way for a message
    restored,   \* (auxiliary) the cache has taken the place of the list
    suspect,    \* (auxiliary) messages that a page may bring although they are listed
    absent      \* (auxiliary) messages that may be missing: those the WebSocket did not
                \* bring, and those of a send that failed or lost its entry to a refresh

server   == <<stored, second, by, deleted>>
view     == <<list, cursor, more, cache, attached>>
fetching == <<pc, from, page, last, scrolling>>
socket   == <<link, timers, frames>>
doubts   == <<restored, suspect, absent>>
vars     == <<stored, second, by, deleted, list, cursor, more, cache, attached,
              pc, from, page, last, scrolling, sending, link, timers, frames,
              restored, suspect, absent>>

Ids     == 1 .. MaxMessages
Entries == Ids \cup Sends
Cursors == Nat \cup {NoCursor}

Listed  == {e \in Entries : list[e] > 0}
Running == {f \in Fetches : pc[f] \in {"cache", "sent", "read"}}

\* The chat has its history when a screen opens for the first time.
Init ==
    /\ stored = 0
    /\ second = [m \in Ids |-> 0]
    /\ by = [m \in Ids |-> "none"]
    /\ deleted = {}
    /\ list = [e \in Entries |-> 0]
    /\ cursor = NoCursor
    /\ more = TRUE
    /\ cache = {}
    /\ attached = FALSE
    /\ pc = [f \in Fetches |-> "idle"]
    /\ from = [f \in Fetches |-> NoCursor]
    /\ page = [f \in Fetches |-> {}]
    /\ last = [f \in Fetches |-> FALSE]
    /\ scrolling = NoFetch
    /\ sending = [s \in Sends |-> "idle"]
    /\ link = "none"
    /\ timers = 0
    /\ frames = [m \in Ids |-> 0]
    /\ restored = FALSE
    /\ suspect = {} /\ absent = {}

-----------------------------------------------------------------------------
(* The list and its cache.                                                 *)

\* Once more; nothing is ever taken out of the list that is in it twice.
Add(n) == IF n = 0 THEN 1 ELSE 2

Prepend(e) == [list EXCEPT ![e] = Add(@)]

\* The list after a rebuild decides whether there is a ListView to scroll.
Shows(entries) ==
    /\ list' = entries
    /\ attached' = (\E e \in Entries : entries[e] > 0)

Rebuilt == attached' = (Listed # {})

\* _loadMore sets _isLoadingMore back when its fetch has returned.
Returns(f) == IF scrolling = f THEN Rebuilt ELSE UNCHANGED attached

\* cacheMessages with the list as it is now: entries the list no longer has stay, and the
\* cut takes from the end, where those of the list are.
CacheMessages ==
    LET kept == cache \ Listed'
        all  == cache \cup Listed'
    IN  IF Cardinality(all) <= CacheSize
        THEN cache' = all
        ELSE cache' \in {C \in SUBSET all : /\ Cardinality(C) = CacheSize
                                            /\ kept \subseteq C \/ C \subseteq kept}

\* A page that is still to come may have message m, which is listed now.
Doubts(m) ==
    suspect' = IF Running # {} \/ (cursor # NoCursor /\ second[m] < cursor)
               THEN suspect \cup {m} ELSE suspect

-----------------------------------------------------------------------------
(* The service: a message is stored and offered to the connection.         *)

\* Not before the message before it; time is counted from the first.
Store(sender, t) ==
    /\ stored < MaxMessages
    /\ IF stored = 0 THEN t = 0 ELSE t >= second[stored]
    /\ stored' = stored + 1
    /\ second' = [second EXCEPT ![stored + 1] = t]
    /\ by' = [by EXCEPT ![stored + 1] = sender]
    /\ UNCHANGED deleted

\* A frame for the chat and one for the user.  None comes when another device of the same
\* user sent the message, or on a connection that is broken and not known to be.
OthersSend(t) ==
    /\ Store("other", t)
    /\ \/ /\ link = "up"
          /\ frames' = [frames EXCEPT ![stored + 1] = 2]
          /\ UNCHANGED absent
       \/ /\ absent' = absent \cup {stored + 1}
          /\ UNCHANGED frames
    /\ UNCHANGED <<view, fetching, sending, link, timers, restored, suspect>>

\* message.updated, which follows, is none of the types the app handles.
Delete(m) ==
    /\ m <= stored /\ m \notin deleted
    /\ Cardinality(deleted) < MaxDeleted
    /\ deleted' = deleted \cup {m}
    /\ UNCHANGED <<stored, second, by, view, fetching, sending, socket, doubts>>

-----------------------------------------------------------------------------
(* fetchMessages.                                                          *)

\* The request leaves, with the cursor of now, and will have the messages in its second;
\* without a cursor it begins at the newest again.
Request(f, entries) ==
    /\ pc' = [pc EXCEPT ![f] = "sent"]
    /\ from' = [from EXCEPT ![f] = cursor]
    /\ UNCHANGED <<page, last>>
    /\ suspect' =
          IF Running \ {f} # {} THEN Ids
          ELSE suspect \cup
                  {m \in Ids : entries[m] > 0 /\ (cursor = NoCursor \/ second[m] = cursor)}

\* Fault: a refresh keeps what it is about to fetch again.
NotEmptied == list

Emptied == [e \in Entries |-> 0]

\* With `refresh`: nothing is awaited before the request, and nothing tells the screen.
Refresh(f) ==
    /\ pc[f] = "idle"
    /\ list' = Emptied
    /\ cursor' = NoCursor
    /\ more' = TRUE
    /\ pc' = [pc EXCEPT ![f] = "sent"]
    /\ from' = [from EXCEPT ![f] = NoCursor]
    /\ UNCHANGED <<cache, page, last>>
    /\ restored' = FALSE
    /\ suspect' = IF Running = {} THEN {} ELSE Ids
    /\ absent' = IF Running = {} THEN {s \in Sends : sending[s] = "posting"} ELSE Entries

\* The refresh button of a screen that is open.
RefreshButton(f) ==
    /\ link # "none"
    /\ Refresh(f)
    /\ UNCHANGED <<server, attached, scrolling, sending, socket>>

\* _loadMore.  An empty list is first looked for in the cache: the ListView is still there
\* when a refresh has emptied the list and nothing has rebuilt the screen since.
LoadMore(f) ==
    /\ attached
    /\ scrolling = NoFetch
    /\ pc[f] = "idle"
    /\ Rebuilt
    /\ scrolling' = f
    /\ IF Listed = {}
       THEN /\ pc' = [pc EXCEPT ![f] = "cache"]
            /\ UNCHANGED <<from, page, last>>
            /\ suspect' = IF Running = {} THEN suspect ELSE Ids
       ELSE /\ more
            /\ Request(f, list)
    /\ absent' = IF Running = {} THEN absent ELSE Entries
    /\ UNCHANGED <<server, list, cursor, more, cache, sending, socket, restored>>

\* Fault: what a fetch has read is still there for the next one.
EndsKeepsPage(f) ==
    /\ pc' = [pc EXCEPT ![f] = "idle"]
    /\ from' = [from EXCEPT ![f] = NoCursor]
    /\ last' = [last EXCEPT ![f] = FALSE]
    /\ scrolling' = IF scrolling = f THEN NoFetch ELSE scrolling
    /\ UNCHANGED page

Ends(f) ==
    /\ pc' = [pc EXCEPT ![f] = "idle"]
    /\ from' = [from EXCEPT ![f] = NoCursor]
    /\ page' = [page EXCEPT ![f] = {}]
    /\ last' = [last EXCEPT ![f] = FALSE]
    /\ scrolling' = IF scrolling = f THEN NoFetch ELSE scrolling

\* getCachedMessages has answered: what came into the list meanwhile is replaced.
LoadCache(f) ==
    /\ pc[f] = "cache"
    /\ IF cache # {}
       THEN /\ Shows([e \in Entries |-> IF e \in cache THEN 1 ELSE 0])
            /\ restored' = TRUE
            /\ absent' = Entries
       ELSE /\ IF more THEN UNCHANGED attached ELSE Returns(f)
            /\ UNCHANGED <<list, restored, absent>>
    /\ IF more
       THEN Request(f, list') /\ UNCHANGED scrolling
       ELSE Ends(f) /\ UNCHANGED suspect
    /\ UNCHANGED <<server, cursor, more, cache, sending, socket>>

\* handleGetMessages: the second of the cursor and what is older, the newest first; the
\* limit counts the deleted ones, which are then taken out.
ReadPage(f) ==
    LET older == {m \in 1 .. stored : from[f] # NoCursor => second[m] <= from[f]}
    IN  /\ pc[f] = "sent"
        /\ pc' = [pc EXCEPT ![f] = "read"]
        /\ from' = [from EXCEPT ![f] = NoCursor]
        /\ page' = [page EXCEPT ![f] =
              {m \in older : Cardinality({k \in older : k > m}) < Limit} \ deleted]
        /\ last' = [last EXCEPT ![f] = Cardinality(older) < Limit]
        /\ UNCHANGED <<server, view, scrolling, sending, socket, doubts>>

\* next_cursor, which an empty page does not have.
NextCursor(messages) ==
    IF messages = {} THEN NoCursor
    ELSE second[CHOOSE m \in messages : \A k \in messages : m <= k]

\* Fault: the page takes the place of the list.
OnlyPage(f) == [e \in Entries |-> IF e \in page[f] THEN 1 ELSE 0]

WithPage(f) == [e \in Entries |-> IF e \in page[f] THEN Add(list[e]) ELSE list[e]]

\* The page goes behind whatever the list has by now.
Receive(f) ==
    /\ pc[f] = "read"
    /\ Shows(WithPage(f))
    /\ cursor' = NextCursor(page[f])
    /\ more' = ~last[f]
    /\ CacheMessages
    /\ Ends(f)
    /\ UNCHANGED <<server, sending, socket, doubts>>

\* Any error and any status but 200, as if nothing had been read: the list stays as it is.
FetchFails(f) ==
    /\ pc[f] = "sent"
    /\ Ends(f)
    /\ Returns(f)
    /\ UNCHANGED <<server, list, cursor, more, cache, sending, socket, doubts>>

-----------------------------------------------------------------------------
(* sendMessage.                                                            *)

SendMessage(s) ==
    /\ link # "none"
    /\ sending[s] = "idle"
    /\ sending' = [sending EXCEPT ![s] = "posting"]
    /\ Shows(Prepend(s))
    /\ UNCHANGED <<server, cursor, more, cache, fetching, socket, doubts>>

\* handleSendMessage, which may also be after the app has given up on the answer.
SendArrives(s, t) ==
    /\ sending[s] \in {"posting", "failed"}
    /\ \A m \in Ids : by[m] # s
    /\ Store(s, t)
    /\ IF sending[s] = "posting"
       THEN sending' = [sending EXCEPT ![s] = "stored"] /\ UNCHANGED absent
       ELSE absent' = absent \cup {s} /\ UNCHANGED sending
    /\ UNCHANGED <<view, fetching, socket, restored, suspect>>

\* Fault: the entry stays when the list has the message already.
ReplaceOnly(s, m) ==
    IF m \notin Listed /\ s \in Listed
    THEN [list EXCEPT ![s] = 0, ![m] = 1] ELSE list

\* A message that is listed already takes the place of the entry; an entry that is not
\* listed any more is not replaced.
ReplaceLocalMessage(s, m) ==
    IF m \in Listed THEN [list EXCEPT ![s] = 0]
    ELSE IF s \in Listed THEN [list EXCEPT ![s] = 0, ![m] = 1]
    ELSE list

SendAnswered(s, m) ==
    /\ sending[s] = "stored"
    /\ by[m] = s
    /\ sending' = [sending EXCEPT ![s] = "done"]
    /\ IF {s, m} \cap Listed # {}
       THEN Shows(ReplaceLocalMessage(s, m)) ELSE UNCHANGED <<list, attached>>
    /\ CacheMessages
    /\ Doubts(m)
    /\ UNCHANGED <<server, cursor, more, fetching, socket, restored, absent>>

\* The entry stays, with the status "failed", whether or not the message was stored.
SendFails(s) ==
    /\ sending[s] \in {"posting", "stored"}
    /\ sending' = [sending EXCEPT ![s] = "failed"]
    /\ absent' = absent \cup {s}
    /\ IF s \in Listed THEN Rebuilt ELSE UNCHANGED attached
    /\ UNCHANGED <<server, list, cursor, more, cache, fetching, socket, restored,
                   suspect>>

-----------------------------------------------------------------------------
(* connectWebSocket and its events.                                        *)

\* What was on its way on the connection is gone.
LoseFrames ==
    /\ frames' = [m \in Ids |-> 0]
    /\ absent' = absent \cup {m \in Ids \ Listed : frames[m] > 0}

\* initState of a screen: refresh and connect; the old connection is not listened to any more.
OpenScreen(f) ==
    /\ Refresh(f)
    /\ attached' = FALSE
    /\ scrolling' = NoFetch
    /\ link' = "up"
    /\ frames' = [m \in Ids |-> 0]
    /\ UNCHANGED <<server, sending, timers>>

\* onDone: another try in three seconds.
LinkEnds ==
    /\ link = "up"
    /\ timers < MaxTimers
    /\ link' = "down"
    /\ timers' = timers + 1
    /\ LoseFrames
    /\ Rebuilt
    /\ UNCHANGED <<server, list, cursor, more, cache, fetching, sending, restored, suspect>>

\* A timer connects whatever the connection is by now; nothing is fetched.
Reconnect ==
    /\ timers > 0
    /\ timers' = timers - 1
    /\ link' = "up"
    /\ LoseFrames
    /\ Rebuilt
    /\ UNCHANGED <<server, list, cursor, more, cache, fetching, sending, restored, suspect>>

\* message.new.  The broadcasts of two messages may overtake each other.
HandleWsEvent(m) ==
    /\ link = "up"
    /\ frames[m] > 0
    /\ frames' = [frames EXCEPT ![m] = @ - 1]
    /\ IF m \in Listed
       THEN UNCHANGED <<list, attached, cache, suspect>>
       ELSE /\ Shows(Prepend(m))
            /\ CacheMessages
            /\ Doubts(m)
    /\ UNCHANGED <<server, cursor, more, fetching, sending, link, timers, restored, absent>>

-----------------------------------------------------------------------------
FetchStep(f) ==
    \/ OpenScreen(f) \/ RefreshButton(f) \/ LoadMore(f)
    \/ LoadCache(f) \/ ReadPage(f) \/ Receive(f) \/ FetchFails(f)

SendStep(s) ==
    \/ SendMessage(s) \/ SendFails(s)
    \/ \E t \in 0 .. MaxSecond : SendArrives(s, t)
    \/ \E m \in Ids : SendAnswered(s, m)

Next ==
    \/ \E f \in Fetches : FetchStep(f)
    \/ \E s \in Sends : SendStep(s)
    \/ \E t \in 0 .. MaxSecond : OthersSend(t)
    \/ \E m \in Ids : Delete(m) \/ HandleWsEvent(m)
    \/ LinkEnds \/ Reconnect

Spec == Init /\ [][Next]_vars

-----------------------------------------------------------------------------
(* Properties.                                                             *)

\* Types, and: what a fetch holds fits its await, and frames travel on a live connection.
TypeOK ==
    /\ stored \in 0 .. MaxMessages
    /\ second \in [Ids -> 0 .. MaxSecond]
    /\ by \in [Ids -> Sends \cup {"other", "none"}]
    /\ deleted \subseteq 1 .. stored
    /\ list \in [Entries -> 0 .. 2] /\ \A s \in Sends : list[s] < 2
    /\ cursor \in Cursors /\ more \in BOOLEAN
    /\ cache \subseteq Entries /\ attached \in BOOLEAN
    /\ pc \in [Fetches -> {"idle", "cache", "sent", "read"}]
    /\ from \in [Fetches -> Cursors]
    /\ page \in [Fetches -> SUBSET (1 .. stored)]
    /\ \A f \in Fetches : page[f] # {} => pc[f] = "read"
    /\ last \in [Fetches -> BOOLEAN]
    /\ scrolling \in Running \cup {NoFetch}
    /\ sending \in [Sends -> {"idle", "posting", "stored", "failed", "done"}]
    /\ link \in {"none", "up", "down"}
    /\ timers \in 0 .. MaxTimers
    /\ frames \in [Ids -> 0 .. 2]
    /\ \A m \in Ids : frames[m] > 0 => link = "up" /\ m <= stored
    /\ restored \in BOOLEAN
    /\ suspect \subseteq Ids /\ absent \subseteq Entries

\* No message is in the list twice, unless two fetches overlapped, one began at the newest
\* message again, it is in the second of a cursor, or an event listed it while a fetch ran
\* or after newer pages.
NothingTwice == \A m \in Ids : list[m] > 1 => m \in suspect

\* When the app has everything by its own account (there are no more pages) the list has
\* every message of the chat that no event is still to bring, unless fetches overlapped, the
\* cache took the place of the list, the connection missed it, or it is one's own and was
\* sent around a failure or a refresh.
NothingMissed ==
    ~more =>
        \A m \in (1 .. stored) \ deleted :
            \/ m \in Listed \/ frames[m] > 0 \/ m \in absent
            \/ by[m] \in Sends /\ (by[m] \in absent \/ sending[by[m]] = "stored")

\* The entry of a message that was sent goes when the answer comes, however pages, refreshes
\* and answers cross: it stays only after a failure, or comes back from the cache.
EntriesResolve ==
    \A s \in Sends :
        s \in Listed => restored \/ sending[s] \in {"posting", "stored", "failed"}
=============================================================================
