------------------------------ MODULE Contacts ------------------------------
(***************************************************************************)
(* Contact requests, friends, blocks and the direct conversations of       *)
(* friends: the contact handlers of cmd/auth-service/main.go.              *)
(*                                                                         *)
(* Two users share two rows of the table contacts, one of each, and the    *)
(* handlers write them with separate statements that commit one by one, so *)
(* a statement is a step.  Some handlers ignore the error of a statement   *)
(* and go on; a service that stops simply never takes its next step.       *)
(***************************************************************************)
EXTENDS Naturals, FiniteSets

CONSTANTS
    Users,
    Requests,       \* HTTP requests; an element is used once
    Conversations,  \* ids of direct conversations; an element is created once
    NoUser, NoChat

ASSUME ContactsAssumption ==
    /\ NoUser \notin Users
    /\ NoChat \notin Conversations

VARIABLES
    status,       \* contacts.status: user -> contact -> status, "none" without a row
    chat,         \* contacts.conversation_id
    created,      \* conversations of type direct
    participants, \* conversation_participants
    pc, op,       \* the statement a request executes next, and for which handler
    caller, other,\* the authenticated user, and the one in the request
    found,        \* chatID, the conversation the request has found or created
    willing,      \* (auxiliary) <<u, v>>: u has asked v, or set about accepting v
    outrun,       \* (auxiliary) pairs with a block and an accept at the same time
    doubled,      \* (auxiliary) pairs with two requests at the same time that may create
    failed        \* (auxiliary) pairs of which a statement has failed

contacts == <<status, chat>>
direct   == <<created, participants>>
request  == <<op, caller, other>>
vars     == <<status, chat, created, participants, pc, op, caller, other, found,
              willing, outrun, doubled, failed>>

Statuses == {"none", "sent", "pending", "accepted", "blocked", "rejected"}
Handlers == {"none", "send", "accept", "block", "direct"}
Labels   == {"idle", "ask", "tell", "find", "create", "join", "mine", "theirs",
             "block", "blockTheirs", "done"}

Init ==
    /\ status = [u \in Users |-> [v \in Users |-> "none"]]
    /\ chat = [u \in Users |-> [v \in Users |-> NoChat]]
    /\ created = {}
    /\ participants = [c \in Conversations |-> {}]
    /\ pc = [q \in Requests |-> "idle"]
    /\ op = [q \in Requests |-> "none"]
    /\ caller = [q \in Requests |-> NoUser]
    /\ other = [q \in Requests |-> NoUser]
    /\ found = [q \in Requests |-> NoChat]
    /\ willing = {}
    /\ outrun = {}
    /\ doubled = {}
    /\ failed = {}

-----------------------------------------------------------------------------
(* Requests.                                                               *)

Pair(q) == {caller[q], other[q]}
On(u, v, handlers) == \E p \in Requests : op[p] \in handlers /\ Pair(p) = {u, v}

\* A handler starts at `label`; the ghosts note what runs beside it.
Starts(q, handler, label, u, v) ==
    /\ pc[q] = "idle"
    /\ u # v
    /\ pc' = [pc EXCEPT ![q] = label]
    /\ op' = [op EXCEPT ![q] = handler]
    /\ caller' = [caller EXCEPT ![q] = u]
    /\ other' = [other EXCEPT ![q] = v]
    /\ outrun' = IF \/ handler = "block" /\ On(u, v, {"accept"})
                    \/ handler = "accept" /\ On(u, v, {"block"})
                 THEN outrun \cup {{u, v}} ELSE outrun
    /\ doubled' = IF handler \in {"accept", "direct"} /\ On(u, v, {"accept", "direct"})
                  THEN doubled \cup {{u, v}} ELSE doubled
    /\ UNCHANGED <<contacts, direct, found, failed>>

Goto(q, label) ==
    /\ pc' = [pc EXCEPT ![q] = label]
    /\ UNCHANGED <<request, willing, outrun, doubled>>

\* Fault: the request is not over for the ones beside it.
EndsHalf(q) ==
    /\ pc' = [pc EXCEPT ![q] = "done"]
    /\ UNCHANGED <<found, request, willing, outrun, doubled>>

Ends(q) ==
    /\ pc' = [pc EXCEPT ![q] = "done"]
    /\ op' = [op EXCEPT ![q] = "none"]
    /\ caller' = [caller EXCEPT ![q] = NoUser]
    /\ other' = [other EXCEPT ![q] = NoUser]
    /\ found' = [found EXCEPT ![q] = NoChat]
    /\ UNCHANGED <<willing, outrun, doubled>>

Works == UNCHANGED failed
Fails(q) == failed' = failed \cup {Pair(q)} /\ UNCHANGED <<contacts, direct>>

SetStatus(u, v, s) == status' = [status EXCEPT ![u][v] = s]

-----------------------------------------------------------------------------
(* handleSendContactRequest.                                               *)

StartSend(q, u, v) ==
    /\ status[v][u] # "blocked"
    /\ Starts(q, "send", "ask", u, v)
    /\ willing' = willing \cup {<<u, v>>}

\* Fault: the upsert revives a blocked row.
UpsertRevives(u, v, s) == IF status[u][v] = "accepted" THEN "accepted" ELSE s

\* Fault: the upsert asks a friend again.
UpsertDowngrades(u, v, s) == IF status[u][v] = "blocked" THEN "blocked" ELSE s

\* ON CONFLICT DO UPDATE SET status = CASE ... END
Upsert(u, v, s) == IF status[u][v] \in {"accepted", "blocked"} THEN status[u][v] ELSE s

Ask(q) ==
    /\ pc[q] = "ask"
    /\ \/ /\ SetStatus(caller[q], other[q], Upsert(caller[q], other[q], "sent"))
          /\ Goto(q, "tell")
          /\ UNCHANGED <<chat, direct, found>>
          /\ Works
       \/ Fails(q) /\ Ends(q)

Tell(q) ==
    /\ pc[q] = "tell"
    /\ \/ /\ SetStatus(other[q], caller[q], Upsert(other[q], caller[q], "pending"))
          /\ UNCHANGED <<chat, direct>>
          /\ Works
       \/ Fails(q)
    /\ Ends(q)

-----------------------------------------------------------------------------
(* handleAcceptContactRequest and handleCreateDirectConversation.          *)

\* Fault: any open request will do, the caller's own too.
MayAcceptAny(u, v) == status[u][v] \in {"pending", "sent"}

MayAccept(u, v) == status[u][v] = "pending"

StartAccept(q, u, v) ==
    /\ MayAccept(u, v)
    /\ Starts(q, "accept", "find", u, v)
    /\ willing' = willing \cup {<<u, v>>}

StartDirect(q, u, v) ==
    /\ status[u][v] = "accepted"
    /\ Starts(q, "direct", "find", u, v)
    /\ UNCHANGED willing

\* SELECT ... LIMIT 1: any conversation both take part in.
FindChat(q) ==
    /\ pc[q] = "find"
    /\ LET shared == {c \in created : Pair(q) \subseteq participants[c]}
       IN  IF shared = {}
           THEN Goto(q, "create") /\ UNCHANGED found
           ELSE IF op[q] = "direct"
           THEN Ends(q)
           ELSE /\ \E c \in shared : found' = [found EXCEPT ![q] = c]
                /\ Goto(q, "mine")
    /\ UNCHANGED <<contacts, direct>>
    /\ Works

\* An accept goes on without a conversation, the other handler gives up.
CreateChat(q) ==
    /\ pc[q] = "create"
    /\ \/ \E c \in Conversations \ created :
             /\ created' = created \cup {c}
             /\ found' = [found EXCEPT ![q] = c]
             /\ Goto(q, "join")
             /\ UNCHANGED <<contacts, participants>>
             /\ Works
       \/ /\ Fails(q)
          /\ IF op[q] = "direct" THEN Ends(q) ELSE Goto(q, "mine") /\ UNCHANGED found

JoinChat(q) ==
    /\ pc[q] = "join"
    /\ \/ /\ participants' = [participants EXCEPT ![found[q]] = Pair(q)]
          /\ UNCHANGED <<contacts, created>>
          /\ Works
       \/ Fails(q)
    /\ IF op[q] = "direct" THEN Ends(q) ELSE Goto(q, "mine") /\ UNCHANGED found

\* Fault: only the accepting user's row gets the conversation.
AcceptRowBare(q, u, v) ==
    /\ SetStatus(u, v, IF status[u][v] = "none" THEN "none" ELSE "accepted")
    /\ chat' = IF u = caller[q] THEN [chat EXCEPT ![u][v] = found[q]] ELSE chat

\* UPDATE contacts SET status = 'accepted', conversation_id = COALESCE($3, conversation_id)
\* on one row, whatever its status.
AcceptRow(q, u, v) ==
    IF status[u][v] = "none" THEN UNCHANGED contacts
    ELSE /\ SetStatus(u, v, "accepted")
         /\ chat' = [chat EXCEPT ![u][v] = found[q]]

\* Without a conversation $3 is no UUID and both updates fail.
AcceptMine(q) ==
    /\ pc[q] = "mine"
    /\ \/ /\ found[q] # NoChat
          /\ AcceptRow(q, caller[q], other[q])
          /\ UNCHANGED direct
          /\ Works
       \/ Fails(q)
    /\ Goto(q, "theirs")
    /\ UNCHANGED found

AcceptTheirs(q) ==
    /\ pc[q] = "theirs"
    /\ \/ /\ found[q] # NoChat
          /\ AcceptRow(q, other[q], caller[q])
          /\ UNCHANGED direct
          /\ Works
       \/ Fails(q)
    /\ Ends(q)

-----------------------------------------------------------------------------
(* handleRejectContactRequest: one statement for both rows; either user    *)
(* may make it.                                                            *)

Rejected(s) == IF s \in {"none", "accepted", "blocked"} THEN s ELSE "rejected"

Reject(q, u, v) ==
    /\ pc[q] = "idle"
    /\ u # v
    /\ \/ /\ status' = [status EXCEPT ![u][v] = Rejected(@), ![v][u] = Rejected(@)]
          /\ Works
       \/ failed' = failed \cup {{u, v}} /\ UNCHANGED status
    /\ pc' = [pc EXCEPT ![q] = "done"]
    /\ UNCHANGED <<chat, direct, request, found, willing, outrun, doubled>>

-----------------------------------------------------------------------------
(* handleBlockUser: both rows, whatever they were.                         *)

StartBlock(q, u, v) ==
    /\ Starts(q, "block", "block", u, v)
    /\ UNCHANGED willing

BlockMine(q) ==
    /\ pc[q] = "block"
    /\ \/ /\ SetStatus(caller[q], other[q], "blocked")
          /\ UNCHANGED <<chat, direct>>
          /\ Works
       \/ Fails(q)
    /\ Goto(q, "blockTheirs")
    /\ UNCHANGED found

BlockTheirs(q) ==
    /\ pc[q] = "blockTheirs"
    /\ \/ /\ SetStatus(other[q], caller[q], "blocked")
          /\ UNCHANGED <<chat, direct>>
          /\ Works
       \/ Fails(q)
    /\ Ends(q)

-----------------------------------------------------------------------------
RequestStep(q) ==
    \/ \E u, v \in Users :
          \/ StartSend(q, u, v) \/ StartAccept(q, u, v) \/ StartDirect(q, u, v)
          \/ StartBlock(q, u, v) \/ Reject(q, u, v)
    \/ Ask(q) \/ Tell(q)
    \/ FindChat(q) \/ CreateChat(q) \/ JoinChat(q) \/ AcceptMine(q) \/ AcceptTheirs(q)
    \/ BlockMine(q) \/ BlockTheirs(q)

Next == \E q \in Requests : RequestStep(q)

Spec == Init /\ [][Next]_vars

-----------------------------------------------------------------------------
(* Properties.                                                             *)

\* Types, and: a request has a pair of users exactly while it runs.
TypeOK ==
    /\ status \in [Users -> [Users -> Statuses]]
    /\ chat \in [Users -> [Users -> Conversations \cup {NoChat}]]
    /\ created \subseteq Conversations
    /\ participants \in [Conversations -> SUBSET Users]
    /\ \A c \in Conversations \ created : participants[c] = {}
    /\ pc \in [Requests -> Labels]
    /\ op \in [Requests -> Handlers]
    /\ caller \in [Requests -> Users \cup {NoUser}]
    /\ other \in [Requests -> Users \cup {NoUser}]
    /\ found \in [Requests -> Conversations \cup {NoChat}]
    /\ \A q \in Requests : (op[q] # "none") = (caller[q] # other[q])
    /\ \A q \in Requests : (op[q] # "none") = (pc[q] \notin {"idle", "done"})
    /\ willing \subseteq Users \X Users
    /\ outrun \subseteq SUBSET Users /\ doubled \subseteq SUBSET Users
    /\ failed \subseteq SUBSET Users

Quiet(u, v) == ~On(u, v, Handlers \ {"none"})

\* Nobody has a friend who did not ask or accept: in whatever order two users' requests,
\* rejections and acceptances interleave, a row becomes accepted only when both meant it.
FriendsByConsent ==
    \A u, v \in Users : status[u][v] = "accepted" => {<<u, v>>, <<v, u>>} \subseteq willing

\* Once the requests about two users are over, their rows agree: a request one of them sees
\* as sent is one the other can accept, also when both asked at the same time or after a
\* rejection, unless a statement failed; and either both are friends or neither, unless,
\* besides, a block ran beside an accept.
RowsAgree ==
    \A u, v \in Users :
        Quiet(u, v) /\ {u, v} \notin failed =>
            /\ status[u][v] = "sent" => status[v][u] = "pending"
            /\ {u, v} \notin outrun => (status[u][v] = "accepted" <=> status[v][u] = "accepted")

\* Friends have one conversation in mind: both rows name the same one and both take part
\* in it, unless two requests looked for it at the same time or a statement failed.
FriendsShareChat ==
    \A u, v \in Users :
        Quiet(u, v) /\ {u, v} \notin doubled \cup failed
        /\ status[u][v] = "accepted" /\ status[v][u] = "accepted"
            => chat[u][v] = chat[v][u] /\ {u, v} \subseteq participants[chat[u][v]]

\* Two users agree on what they are to each other and on where they talk.
FriendsAgree == RowsAgree /\ FriendsShareChat

\* A block holds against requests, rejections and later acceptances, those that had
\* checked before it came included; only an accept already under way undoes it, or one
\* that finds a block of which a statement failed.
BlockHolds ==
    [][\A u, v \in Users :
          status[u][v] = "blocked" /\ {u, v} \notin outrun \cup failed => status'[u][v] = "blocked"]_vars

\* The rows accepted and blocked are the friends and the blocks of Friendship.
RowsThatAre(s) == {row \in Users \X Users : status[row[1]][row[2]] = s}

Promise ==
    INSTANCE Friendship WITH
        friends  <- RowsThatAre("accepted"),
        blocked  <- RowsThatAre("blocked"),
        disputed <- outrun \cup failed

\* The handlers implement Friendship: nobody becomes a friend without both agreeing, no
\* request, rejection or failure ends a friendship but a block, and nothing ends a block but
\* an accept that was under way.
KeepsPromise == Promise!Spec
=============================================================================
