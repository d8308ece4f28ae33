------------------------------- MODULE Marks --------------------------------
(***************************************************************************)
(* What users attach to messages and how they find them: reactions,        *)
(* bookmarks and search (cmd/message-service/main.go), over DynamoDB       *)
(* (internal/database/dynamodb_store.go) and the table message_search in   *)
(* Neon (internal/database/neon.go).                                       *)
(*                                                                         *)
(* Each store call is one step.  Queries of DynamoDB are eventually        *)
(* consistent, and so is the secondary index of the bookmarks.  The        *)
(* handlers ignore the errors of these calls.                              *)
(***************************************************************************)
EXTENDS Naturals, FiniteSets

CONSTANTS
    Users,
    Messages,   \* message ids; an element is sent once
    Emojis,
    Texts,      \* contents; a query finds a message if it is its text
    Requests,   \* HTTP requests; an element is used once
    Nothing     \* no text, no copy

ASSUME MarksAssumption ==
    /\ Nothing \notin Texts
    /\ Nothing \notin [user : Users, message : Messages, by : Requests]
    /\ Nothing \notin Users \cup Messages \cup Emojis

VARIABLES
    text,       \* closetalk-messages: the content of a message, Nothing before it is sent
    gone,       \* messages with is_deleted, or past their disappeared_at
    indexed,    \* message_search: the content of a message, Nothing without a row
    reactions,  \* closetalk-message-reactions: <<message, user, emoji>>
    settling,   \* reactions whose last write a query may still miss
    shown,      \* the list of reactions that was last broadcast for a message
    bookmarks,  \* closetalk-bookmarks: entries, each with the request that brought it
    byMessage,  \* its message_id-index, which lags behind
    pc, who, on,\* the store call a request makes next, its user and its message
    copy,       \* what it has read or been told
    overlapped, \* (auxiliary) messages two requests reacted to at the same time
    doubtful,   \* (auxiliary) messages with a failed call or a late read for their reactions
    toggled,    \* (auxiliary) reactions asked for an odd number of times
    wanted,     \* (auxiliary) <<user, message>> whose last request is a bookmark
    crowded,    \* (auxiliary) messages whose bookmark was removed among several, or which
                \* the index did not have right, or where a call failed
    unindexed,  \* (auxiliary) messages whose indexing failed or was never asked for
    edited      \* (auxiliary) messages whose content has been changed

messages == <<text, gone, indexed, unindexed, edited>>
reacting == <<reactions, settling, shown, overlapped, doubtful, toggled>>
marking  == <<bookmarks, byMessage, wanted, crowded>>
request  == <<pc, who, on, copy>>
vars     == <<text, gone, indexed, unindexed, edited, reactions, settling, shown, overlapped,
              doubtful, toggled, bookmarks, byMessage, wanted, crowded, pc, who, on, copy>>

Entries == [user : Users, message : Messages, by : Requests]
Lists   == SUBSET (Users \X Emojis)

Init ==
    /\ text = [m \in Messages |-> Nothing] /\ gone = {}
    /\ indexed = [m \in Messages |-> Nothing]
    /\ reactions = {} /\ settling = {}
    /\ shown = [m \in Messages |-> {}]
    /\ bookmarks = {} /\ byMessage = {}
    /\ pc = [q \in Requests |-> "idle"]
    /\ who = [q \in Requests |-> Nothing]
    /\ on = [q \in Requests |-> Nothing]
    /\ copy = [q \in Requests |-> Nothing]
    /\ overlapped = {} /\ doubtful = {} /\ toggled = {}
    /\ wanted = {} /\ crowded = {} /\ unindexed = {} /\ edited = {}

-----------------------------------------------------------------------------
(* Requests.                                                               *)

Starts(q, label, u, m, c) ==
    /\ pc[q] = "idle"
    /\ pc' = [pc EXCEPT ![q] = label]
    /\ who' = [who EXCEPT ![q] = u]
    /\ on' = [on EXCEPT ![q] = m]
    /\ copy' = [copy EXCEPT ![q] = c]

Goto(q, label, c) ==
    /\ pc' = [pc EXCEPT ![q] = label]
    /\ copy' = [copy EXCEPT ![q] = c]
    /\ UNCHANGED <<who, on>>

\* Fault: what was read outlives the request.
EndsHalf(q) ==
    /\ pc' = [pc EXCEPT ![q] = "done"]
    /\ UNCHANGED <<who, on, copy>>

Ends(q) ==
    /\ pc' = [pc EXCEPT ![q] = "done"]
    /\ who' = [who EXCEPT ![q] = Nothing]
    /\ on' = [on EXCEPT ![q] = Nothing]
    /\ copy' = [copy EXCEPT ![q] = Nothing]

\* A handler of one call.
AtOnce(q) ==
    /\ pc[q] = "idle"
    /\ pc' = [pc EXCEPT ![q] = "done"]
    /\ UNCHANGED <<who, on, copy>>

Doing(labels, m) == {q \in Requests : pc[q] \in labels /\ on[q] = m}

-----------------------------------------------------------------------------
(* handleReactToMessage.                                                   *)

ReactionsTo(m) == {x \in Users \X Emojis : <<m, x[1], x[2]>> \in reactions}

\* GetReactions: what a query may return, with any of the latest writes missing.
MayRead(m) ==
    {{x \in Users \X Emojis : (<<m, x[1], x[2]>> \in reactions) # (x \in late)} :
        late \in SUBSET {x \in Users \X Emojis : <<m, x[1], x[2]>> \in settling}}

AddReaction(mark)    == reactions' = reactions \cup {mark}
RemoveReaction(mark) == reactions' = reactions \ {mark}

Reacting == {"add", "remove", "list", "broadcast"}

\* An error of the query reads as no reaction.
StartReact(q, u, m, e) ==
    /\ \E seen \in MayRead(m) \cup {{}} :
          /\ Starts(q, IF <<u, e>> \in seen THEN "remove" ELSE "add", u, m, e)
          /\ doubtful' = IF seen = ReactionsTo(m) THEN doubtful ELSE doubtful \cup {m}
    /\ overlapped' = IF Doing(Reacting, m) = {} THEN overlapped ELSE overlapped \cup {m}
    /\ UNCHANGED <<messages, reactions, settling, shown, toggled, marking>>

\* Fault: a reaction is always put.
AlwaysReact(q) ==
    /\ pc[q] \in {"add", "remove"}
    /\ LET mark == <<on[q], who[q], copy[q]>>
       IN  /\ AddReaction(mark)
           /\ settling' = settling \cup {mark}
           /\ toggled' = (toggled \cup {mark}) \ (toggled \cap {mark})
    /\ Goto(q, "list", Nothing)
    /\ UNCHANGED <<messages, shown, overlapped, doubtful, marking>>

\* PutItem or DeleteItem, by what was read.
ToggleReaction(q) ==
    /\ pc[q] \in {"add", "remove"}
    /\ LET mark == <<on[q], who[q], copy[q]>>
       IN  /\ \/ /\ IF pc[q] = "add" THEN AddReaction(mark) ELSE RemoveReaction(mark)
                 /\ settling' = settling \cup {mark}
                 /\ UNCHANGED doubtful
              \/ doubtful' = doubtful \cup {on[q]} /\ UNCHANGED <<reactions, settling>>
           /\ toggled' = (toggled \cup {mark}) \ (toggled \cap {mark})
    /\ Goto(q, "list", Nothing)
    /\ UNCHANGED <<messages, shown, overlapped, marking>>

\* GetReactions again, for the answer and the broadcast.
ListReactions(q) ==
    /\ pc[q] = "list"
    /\ \E seen \in MayRead(on[q]) \cup {{}} :
          /\ Goto(q, "broadcast", seen)
          /\ doubtful' = IF seen = ReactionsTo(on[q]) THEN doubtful ELSE doubtful \cup {on[q]}
    /\ UNCHANGED <<messages, reactions, settling, shown, overlapped, toggled, marking>>

\* Fault: the sender sees only its own answer.
AnswerReaction(q) ==
    /\ pc[q] = "broadcast"
    /\ Ends(q)
    /\ UNCHANGED <<messages, reacting, marking>>

\* Without the message there is no chat to broadcast to.
BroadcastReactions(q) ==
    /\ pc[q] = "broadcast"
    /\ \/ /\ text[on[q]] # Nothing
          /\ shown' = [shown EXCEPT ![on[q]] = copy[q]]
          /\ UNCHANGED doubtful
       \/ doubtful' = doubtful \cup {on[q]} /\ UNCHANGED shown
    /\ Ends(q)
    /\ UNCHANGED <<messages, reactions, settling, overlapped, toggled, marking>>

ReactionSettles(mark) ==
    /\ mark \in settling
    /\ settling' = settling \ {mark}
    /\ UNCHANGED <<messages, reactions, shown, overlapped, doubtful, toggled, marking, request>>

-----------------------------------------------------------------------------
(* handleAddBookmark, handleRemoveBookmark.  The table's key holds the     *)
(* time: a message bookmarked twice has two entries.                       *)

BookmarkMessage(u, m, q) ==
    bookmarks' = bookmarks \cup {[user |-> u, message |-> m, by |-> q]}

AddBookmark(q, u, m) ==
    /\ AtOnce(q)
    /\ text[m] # Nothing
    /\ \/ BookmarkMessage(u, m, q) /\ UNCHANGED crowded
       \/ crowded' = crowded \cup {m} /\ UNCHANGED bookmarks
    /\ wanted' = wanted \cup {<<u, m>>}
    /\ UNCHANGED <<messages, reacting, byMessage>>

Bookmarking(m) == {b \in bookmarks \cup byMessage : b.message = m}

\* RemoveBookmark asks the index for one entry of the message, whoever made it.
FindBookmark(q, u, m) ==
    /\ \/ \E b \in byMessage : b.message = m /\ Starts(q, "delete", u, m, b)
       \/ (\A b \in byMessage : b.message # m) /\ AtOnce(q)
    /\ crowded' =
          IF \E b \in bookmarks \cap byMessage : b.user = u /\ Bookmarking(m) = {b}
          THEN crowded ELSE crowded \cup {m}
    /\ wanted' = wanted \ {<<u, m>>}
    /\ UNCHANGED <<messages, reacting, bookmarks, byMessage>>

\* Fault: the entry stays.
LeaveBookmark(q) ==
    /\ pc[q] = "delete"
    /\ Ends(q)
    /\ UNCHANGED <<messages, reacting, marking>>

DeleteBookmark(q) ==
    /\ pc[q] = "delete"
    /\ \/ bookmarks' = bookmarks \ {copy[q]} /\ UNCHANGED crowded
       \/ crowded' = crowded \cup {on[q]} /\ UNCHANGED bookmarks
    /\ Ends(q)
    /\ UNCHANGED <<messages, reacting, byMessage, wanted>>

\* handleListBookmarks, all its pages.
ListBookmarks(u) == {b.message : b \in {x \in bookmarks : x.user = u}}

IndexCatchesUp(b) ==
    /\ b \in (bookmarks \cup byMessage) \ (bookmarks \cap byMessage)
    /\ byMessage' = IF b \in bookmarks THEN byMessage \cup {b} ELSE byMessage \ {b}
    /\ UNCHANGED <<messages, reacting, bookmarks, wanted, crowded, request>>

-----------------------------------------------------------------------------
(* Messages and the search index.  Sending alone writes the index; an edit *)
(* or a deletion leaves the row as it is.                                  *)

SendMessage(q, m, t) ==
    /\ text[m] = Nothing
    /\ text' = [text EXCEPT ![m] = t]
    /\ Starts(q, "index", Nothing, m, t)
    /\ UNCHANGED <<gone, indexed, unindexed, edited, reacting, marking>>

\* The goroutine of handleSendMessage.
IndexMessage(q) ==
    /\ pc[q] = "index"
    /\ \/ indexed' = [indexed EXCEPT ![on[q]] = copy[q]] /\ UNCHANGED unindexed
       \/ unindexed' = unindexed \cup {on[q]} /\ UNCHANGED indexed
    /\ Ends(q)
    /\ UNCHANGED <<text, gone, edited, reacting, marking>>

\* A forwarded message is inserted without an index row.
ForwardMessage(q, m, t) ==
    /\ AtOnce(q)
    /\ text[m] = Nothing
    /\ text' = [text EXCEPT ![m] = t]
    /\ unindexed' = unindexed \cup {m}
    /\ UNCHANGED <<gone, indexed, edited, reacting, marking>>

EditMessage(q, m, t) ==
    /\ AtOnce(q)
    /\ text[m] # Nothing
    /\ text' = [text EXCEPT ![m] = t]
    /\ edited' = edited \cup {m}
    /\ UNCHANGED <<gone, indexed, unindexed, reacting, marking>>

DeleteMessage(m) ==
    /\ text[m] # Nothing
    /\ gone' = gone \cup {m}
    /\ UNCHANGED <<text, indexed, unindexed, edited, reacting, marking, request>>

\* SearchMessagesNeon, and SearchMessages of the store.
InNeon(t)  == {m \in Messages : indexed[m] = t}
InStore(t) == {m \in Messages \ gone : text[m] = t}

\* handleSearchMessagesGlobal, for one who takes part in the chats: the index alone.
SearchMessagesGlobal(t) == InNeon(t)

\* handleSearchMessages: the store is asked when the index has nothing.
SearchMessages(t) == IF InNeon(t) # {} THEN InNeon(t) ELSE InStore(t)

-----------------------------------------------------------------------------
Step(q) ==
    \/ ToggleReaction(q) \/ ListReactions(q) \/ BroadcastReactions(q)
    \/ DeleteBookmark(q)
    \/ IndexMessage(q)

Start(q) ==
    \E m \in Messages :
        \/ \E u \in Users :
              \/ \E e \in Emojis : StartReact(q, u, m, e)
              \/ AddBookmark(q, u, m) \/ FindBookmark(q, u, m)
        \/ \E t \in Texts : SendMessage(q, m, t) \/ ForwardMessage(q, m, t) \/ EditMessage(q, m, t)

Next ==
    \/ \E q \in Requests : Start(q) \/ Step(q)
    \/ \E m \in Messages : DeleteMessage(m)
    \/ \E mark \in Messages \X Users \X Emojis : ReactionSettles(mark)
    \/ \E b \in Entries : IndexCatchesUp(b)

Spec == Init /\ [][Next]_vars

-----------------------------------------------------------------------------
(* Properties.                                                             *)

\* Types, and: a request holds a copy and a message exactly while it needs them.
TypeOK ==
    /\ text \in [Messages -> Texts \cup {Nothing}]
    /\ indexed \in [Messages -> Texts \cup {Nothing}]
    /\ \A m \in Messages : text[m] = Nothing => indexed[m] = Nothing
    /\ gone \subseteq Messages
    /\ reactions \subseteq Messages \X Users \X Emojis
    /\ settling \subseteq Messages \X Users \X Emojis
    /\ shown \in [Messages -> Lists]
    /\ bookmarks \subseteq Entries /\ byMessage \subseteq Entries
    /\ \A q \in Requests :
          CASE pc[q] \in {"idle", "done"}  -> on[q] = Nothing /\ who[q] = Nothing /\ copy[q] = Nothing
            [] pc[q] \in {"add", "remove"} -> on[q] \in Messages /\ who[q] \in Users /\ copy[q] \in Emojis
            [] pc[q] = "list"              -> on[q] \in Messages /\ who[q] \in Users /\ copy[q] = Nothing
            [] pc[q] = "broadcast"         -> on[q] \in Messages /\ who[q] \in Users /\ copy[q] \in Lists
            [] pc[q] = "delete"            -> on[q] \in Messages /\ who[q] \in Users /\ copy[q] \in Entries
            [] pc[q] = "index"             -> on[q] \in Messages /\ (copy[q] = text[on[q]] \/ on[q] \in edited)
            [] OTHER                       -> FALSE

\* A reaction is there if it was asked for an odd number of times, unless two requests
\* reacted to the message at the same time, a call failed or a query came too early.
ToggledAsAsked ==
    \A m \in Messages \ (overlapped \cup doubtful) :
        \A u \in Users, e \in Emojis : <<m, u, e>> \in reactions <=> <<m, u, e>> \in toggled

\* What everybody in the chat was last told of the reactions to a message is what they are,
\* once nobody is reacting to it, with the same exceptions.
ShownIsCurrent ==
    \A m \in Messages \ (overlapped \cup doubtful) :
        Doing(Reacting, m) = {} => shown[m] = ReactionsTo(m)

\* A user has a bookmark of a message if the last request of the user about it was to make
\* one, unless one was removed while the message had several, its index lagged or a call failed.
BookmarkedAsAsked ==
    \A m \in Messages \ crowded : \A u \in Users :
        Doing({"delete"}, m) = {} =>
            (<<u, m>> \in wanted <=> m \in ListBookmarks(u))

\* A message that is there and has not been edited is found by its text, in its chat and in
\* all chats; unless it has not been indexed, or not yet: then it is still found in its
\* chat, except when the index has another message with this text.
FoundByText ==
    \A m \in Messages \ (gone \cup edited) : text[m] # Nothing =>
        /\ m \in SearchMessagesGlobal(text[m]) \/ m \in unindexed \/ Doing({"index"}, m) # {}
        /\ m \in SearchMessages(text[m])
              \/ /\ indexed[m] = Nothing
                 /\ \E n \in Messages \ {m} : indexed[n] = text[m]
=============================================================================
