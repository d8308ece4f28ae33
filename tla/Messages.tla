------------------------------ MODULE Messages ------------------------------
(***************************************************************************)
(* The life of a stored message: the handlers of                           *)
(* cmd/message-service/main.go that write messages, over the DynamoDB      *)
(* store (internal/database/dynamodb_store.go).                            *)
(*                                                                         *)
(* Every handler that changes a message looks it up in the secondary index *)
(* message_id-index, works on the copy, and writes some attributes back    *)
(* with UpdateItem.  The index follows the table with a delay (reads are   *)
(* eventually consistent), and nothing orders two requests, so a copy may  *)
(* be old when it is written back.  One store call is one step; the checks *)
(* between a look-up and the write only ever turn from true to false and   *)
(* are part of the look-up's step.                                         *)
(***************************************************************************)
EXTENDS Naturals, Sequences, Functions

CONSTANTS
    Users,
    Messages,   \* message ids (uuid.New); an element is stored at most once
    Requests,   \* HTTP requests; an element is used once and names the content it brings
    SenderOf,   \* message -> the user who sends (or forwards) it
    UserOf,     \* request -> the authenticated user who makes it
    Absent,     \* no such item
    NoMessage

ASSUME MessagesAssumption ==
    /\ SenderOf \in [Messages -> Users]
    /\ UserOf \in [Requests -> Users]
    /\ Absent \notin [content : Messages \cup Requests, history : Seq(Messages \cup Requests),
                     status : {"sent", "delivered", "read"}, deleted : BOOLEAN,
                     moderation : {"", "approved", "rejected"}]
    /\ NoMessage \notin Messages
    /\ Messages \cap Requests = {}

VARIABLES
    table,      \* closetalk-messages: message -> item or Absent
    index,      \* its message_id-index, which lags behind
    reads,      \* closetalk-message-reads: message -> users
    members,    \* conversation_participants of the chat
    aged,       \* messages older than 15 minutes
    pc,         \* request -> what it does next
    target,     \* request -> the message it is about
    seen,       \* request -> the copy it works on, or Absent
    parent      \* (auxiliary) content brought by an edit -> content it replaced

requests == <<pc, target, seen>>
vars == <<table, index, reads, members, aged, pc, target, seen, parent>>

Contents == Messages \cup Requests
Statuses == {"sent", "delivered", "read"}
Reviews  == {"", "approved", "rejected"}
Item     == [content : Contents, history : Seq(Contents), status : Statuses,
             deleted : BOOLEAN, moderation : Reviews]

Init ==
    /\ table = [m \in Messages |-> Absent]
    /\ index = [m \in Messages |-> Absent]
    /\ reads = [m \in Messages |-> {}]
    /\ members = Users
    /\ aged = {}
    /\ pc = [r \in Requests |-> "idle"]
    /\ target = [r \in Requests |-> NoMessage]
    /\ seen = [r \in Requests |-> Absent]
    /\ parent = [r \in Requests |-> NoMessage]

-----------------------------------------------------------------------------
(* The store.                                                              *)

NewItem(content) ==
    [content |-> content, history |-> <<>>, status |-> "sent", deleted |-> FALSE,
     moderation |-> ""]

InsertMessage(m, content) ==
    /\ table[m] = Absent
    /\ table' = [table EXCEPT ![m] = NewItem(content)]

\* Fault: the whole copy is put back.
PutMessage(m, copy) == table' = [table EXCEPT ![m] = copy]

\* UpdateItem SET content, edit_history, edited_at, status, moderation_status: the other
\* attributes of the item, is_deleted among them, stay.
UpdateMessage(m, copy) ==
    table' = [table EXCEPT ![m] = [copy EXCEPT !.deleted = table[m].deleted]]

SetDeleted(m) == table' = [table EXCEPT ![m].deleted = TRUE]

IndexCatchesUp(m) ==
    /\ index[m] # table[m]
    /\ index' = [index EXCEPT ![m] = table[m]]
    /\ UNCHANGED <<table, reads, members, aged, requests, parent>>

-----------------------------------------------------------------------------
(* Around the message service: the auth service removes participants, and  *)
(* time passes.                                                            *)

LeavesConversation(u) ==
    /\ u \in members
    /\ members' = members \ {u}
    /\ UNCHANGED <<table, index, reads, aged, requests, parent>>

FifteenMinutesPass(m) ==
    /\ table[m] # Absent
    /\ m \notin aged
    /\ aged' = aged \cup {m}
    /\ UNCHANGED <<table, index, reads, members, requests, parent>>

-----------------------------------------------------------------------------
(* The handlers.                                                           *)

\* GetMessage by id, and what the request will do with its copy.
LookUp(r, m, next) ==
    /\ pc[r] = "idle"
    /\ index[m] # Absent
    /\ seen' = [seen EXCEPT ![r] = index[m]]
    /\ target' = [target EXCEPT ![r] = m]
    /\ pc' = [pc EXCEPT ![r] = next]

\* Fault: the copy outlives the request.
FinishKeepsCopy(r) ==
    /\ pc' = [pc EXCEPT ![r] = "done"]
    /\ UNCHANGED <<seen, target>>

Finish(r) ==
    /\ pc' = [pc EXCEPT ![r] = "done"]
    /\ seen' = [seen EXCEPT ![r] = Absent]
    /\ UNCHANGED target

SendMessage(m) ==
    /\ InsertMessage(m, m)
    /\ UNCHANGED <<index, reads, members, aged, requests, parent>>

\* Forwarding copies the content it found; a deleted message can be forwarded.
ForwardLookUp(r, m) ==
    /\ LookUp(r, m, "forward")
    /\ UNCHANGED <<table, index, reads, members, aged, parent>>

\* One target chat: a new message with the copied content.
ForwardInsert(r, n) ==
    /\ pc[r] = "forward"
    /\ SenderOf[n] = UserOf[r]
    /\ InsertMessage(n, seen[r].content)
    /\ UNCHANGED <<index, reads, members, aged, requests, parent>>

\* All target chats have been tried; a chat whose insert failed is skipped.
ForwardEnds(r) ==
    /\ pc[r] = "forward"
    /\ Finish(r)
    /\ UNCHANGED <<table, index, reads, members, aged, parent>>

\* Fault: any participant may change a message.
MayChangeAsMember(r, m) ==
    /\ UserOf[r] \in members
    /\ m \notin aged

\* The caller is the sender, still a participant, and within 15 minutes.
MayChange(r, m) ==
    /\ UserOf[r] = SenderOf[m]
    /\ UserOf[r] \in members
    /\ m \notin aged

EditLookUp(r, m) ==
    /\ MayChange(r, m)
    /\ LookUp(r, m, "edit")
    /\ UNCHANGED <<table, index, reads, members, aged, parent>>

\* Fault: the content is replaced before it is put in the history.
EditedTooEarly(r) ==
    [seen[r] EXCEPT !.history = Append(seen[r].history, r), !.content = r]

Edited(r) ==
    [seen[r] EXCEPT !.history = Append(seen[r].history, seen[r].content), !.content = r]

\* handleEditMessage ignores the result of UpdateMessage.
EditWrite(r) ==
    /\ pc[r] = "edit"
    /\ UpdateMessage(target[r], Edited(r)) \/ UNCHANGED table
    /\ parent' = [parent EXCEPT ![r] = seen[r].content]
    /\ Finish(r)
    /\ UNCHANGED <<index, reads, members, aged>>

\* Deleting looks the message up twice, but writes only the flag.
DeleteLookUp(r, m) ==
    /\ MayChange(r, m)
    /\ LookUp(r, m, "delete")
    /\ UNCHANGED <<table, index, reads, members, aged, parent>>

DeleteWrite(r) ==
    /\ pc[r] = "delete"
    /\ SetDeleted(target[r]) \/ UNCHANGED table
    /\ Finish(r)
    /\ UNCHANGED <<index, reads, members, aged, parent>>

\* handleMarkRead: the receipt, then the status of the copy found; errors are ignored.
MarkReadReceipt(r, m) ==
    /\ pc[r] = "idle"
    /\ pc' = [pc EXCEPT ![r] = "receipt"]
    /\ target' = [target EXCEPT ![r] = m]
    /\ reads' = [reads EXCEPT ![m] = @ \cup {UserOf[r]}] \/ UNCHANGED reads
    /\ UNCHANGED <<table, index, members, aged, seen, parent>>

MarkReadLookUp(r) ==
    /\ pc[r] = "receipt"
    /\ LET found == index[target[r]]
       IN  IF found # Absent /\ found.status # "read"
           THEN /\ seen' = [seen EXCEPT ![r] = found]
                /\ pc' = [pc EXCEPT ![r] = "status"]
                /\ UNCHANGED target
           ELSE Finish(r)
    /\ UNCHANGED <<table, index, reads, members, aged, parent>>

MarkReadWrite(r) ==
    /\ pc[r] = "status"
    /\ UpdateMessage(target[r], [seen[r] EXCEPT !.status = "read"]) \/ UNCHANGED table
    /\ Finish(r)
    /\ UNCHANGED <<index, reads, members, aged, parent>>

\* handleMarkDelivered: the status is written whatever it was.
MarkDelivered(r, m) ==
    /\ pc[r] = "idle"
    /\ index[m] # Absent
    /\ table' = [table EXCEPT ![m].status = "delivered"]
    /\ Finish(r)
    /\ UNCHANGED <<index, reads, members, aged, parent>>

\* handleModerationReview: any user may review, and nothing flags a message first.
ReviewLookUp(r, m, verdict) ==
    /\ LookUp(r, m, verdict)
    /\ UNCHANGED <<table, index, reads, members, aged, parent>>

ReviewWrite(r) ==
    /\ pc[r] \in {"approved", "rejected"}
    /\ UpdateMessage(target[r], [seen[r] EXCEPT !.moderation = pc[r]]) \/ UNCHANGED table
    /\ Finish(r)
    /\ UNCHANGED <<index, reads, members, aged, parent>>

-----------------------------------------------------------------------------
RequestStep(r) ==
    \/ \E m \in Messages :
          \/ ForwardLookUp(r, m) \/ ForwardInsert(r, m)
          \/ EditLookUp(r, m) \/ DeleteLookUp(r, m)
          \/ MarkReadReceipt(r, m) \/ MarkDelivered(r, m)
          \/ \E verdict \in {"approved", "rejected"} : ReviewLookUp(r, m, verdict)
    \/ ForwardEnds(r)
    \/ EditWrite(r)
    \/ DeleteWrite(r)
    \/ MarkReadLookUp(r)
    \/ MarkReadWrite(r)
    \/ ReviewWrite(r)

Next ==
    \/ \E r \in Requests : RequestStep(r)
    \/ \E m \in Messages : SendMessage(m) \/ IndexCatchesUp(m) \/ FifteenMinutesPass(m)
    \/ \E u \in Users : LeavesConversation(u)

Spec == Init /\ [][Next]_vars

-----------------------------------------------------------------------------
(* Properties.                                                             *)

Stages == {"idle", "forward", "edit", "delete", "receipt", "status", "approved", "rejected", "done"}

\* Every variable has its type, and a request holds a copy exactly while it needs one.
TypeOK ==
    /\ table \in [Messages -> Item \cup {Absent}]
    /\ index \in [Messages -> Item \cup {Absent}]
    /\ reads \in [Messages -> SUBSET Users]
    /\ members \subseteq Users
    /\ aged \subseteq Messages
    /\ pc \in [Requests -> Stages]
    /\ target \in [Requests -> Messages \cup {NoMessage}]
    /\ seen \in [Requests -> Item \cup {Absent}]
    /\ \A r \in Requests : (seen[r] # Absent) = (pc[r] \notin {"idle", "receipt", "done"})
    /\ parent \in [Requests -> Contents \cup {NoMessage}]

\* Consecutive versions of a history followed by the current content.
Versions(item) == Append(item.history, item.content)

\* The edit history a reader is shown is a true line of descent: it starts with what was
\* sent or forwarded, each version is the edit of the one before it and the last is the
\* one the current content replaced.  Stale copies written back may drop a branch, but
\* they never splice two.
HistoryIsLineage ==
    \A m \in Messages : table[m] # Absent =>
        LET v == Versions(table[m])
        IN  /\ \A i \in 1 .. Len(v) - 1 : v[i + 1] \in Requests /\ parent[v[i + 1]] = v[i]
            /\ \A i, j \in 1 .. Len(v) : i # j => v[i] # v[j]

\* A deletion is for good: no edit, read receipt or review that started before it and
\* writes its copy back afterwards makes the message visible again.
DeletedForGood ==
    [][\A m \in Messages :
          table[m] # Absent /\ table[m].deleted => table'[m].deleted]_vars

\* Nobody but the sender of a message changes its text, however many copies of it are
\* written back: a content that a message has and was not created with was brought by
\* a request of its sender.
TextIsTheSenders ==
    \A m \in Messages : table[m] # Absent /\ table[m].history # <<>> =>
            table[m].content \in Requests /\ UserOf[table[m].content] = SenderOf[m]

\* requirements.md:37 (F3.6), edits "with edit history": an edit that was stored stays in
\* the message, as its content or in its history.
NoEditLost ==
    [][\A m \in Messages :
          table[m] # Absent => Range(Versions(table[m])) \subseteq Range(Versions(table'[m]))]_vars
=============================================================================
