------------------------------- MODULE Groups -------------------------------
(***************************************************************************)
(* Membership of one group: the handlers of cmd/auth-service/groups.go     *)
(* that change group_members, conversation_participants, group_blocks and  *)
(* groups.member_limit, run concurrently on PostgreSQL at its default      *)
(* isolation, READ COMMITTED.                                              *)
(*                                                                         *)
(* Most handlers check a role or a count with one statement and change     *)
(* rows in a later transaction.  A statement sees what is committed, and   *)
(* its own transaction's writes; it waits for a row another transaction    *)
(* has changed and not committed.  One statement is one step; a statement  *)
(* whose effect nobody can see before the commit is one step with it.      *)
(* joined_at is not modelled: any member may turn out to be the oldest.    *)
(***************************************************************************)
EXTENDS Naturals, FiniteSets

CONSTANTS
    Users,
    Creator,    \* the user who creates the group
    Requests,   \* HTTP requests; an element is used once
    Limits,     \* values of member_limit
    NoUser, NoRequest

ASSUME GroupsAssumption ==
    /\ Creator \in Users
    /\ IsFiniteSet(Users)
    /\ Limits \subseteq Nat
    /\ NoUser \notin Users
    /\ NoRequest \notin Requests

VARIABLES
    role,         \* group_members, committed: "none" for a user without a row
    writer,       \* the request whose transaction has changed the row and not ended
    written,      \* the role it has written
    participants, \* conversation_participants of the group's conversation
    blocked,      \* group_blocks
    limit,        \* groups.member_limit
    keyShare,     \* requests whose INSERT holds FOR KEY SHARE on the groups row (foreign key)
    forUpdate,    \* the request that holds it FOR UPDATE, or NoRequest
    pc, op,       \* the statement a request executes next, and for which handler
    user,         \* the member row the statement is about, or NoUser
    todo,         \* handleAddMembers: users still to add
    promotes,     \* the request read role 'admin' for its leaving caller
    joins, leaves,\* rows of participants its transaction has inserted and deleted
    about,        \* (auxiliary) the users whose membership the request can change
    raced,        \* (auxiliary) users two requests were about at the same time
    excused       \* (auxiliary) the code does not keep an admin: see AdminKept

rows     == <<role, writer, written>>
groupRow == <<limit, keyShare, forUpdate>>
request  == <<op, user, todo, promotes, joins, leaves, about>>
ghosts   == <<raced, excused>>
vars     == <<role, writer, written, participants, blocked, limit, keyShare, forUpdate,
              pc, op, user, todo, promotes, joins, leaves, about, raced, excused>>

Handlers == {"none", "join", "add", "remove", "leave", "block", "setRole", "settings"}
Labels   == {"idle", "blocks", "members", "insert", "key", "participant", "lock", "next",
             "target", "delete", "participants", "oldest", "promote", "commit",
             "role", "limit", "done"}
Roles    == {"none", "member", "admin"}

Members == {u \in Users : role[u] # "none"}
Admins  == {u \in Users : role[u] = "admin"}
Running == {q \in Requests : pc[q] \notin {"idle", "done"}}

\* handleCreateGroup, one transaction: the creator is admin, the invited ones members.
Init ==
    /\ \E invited \in SUBSET (Users \ {Creator}) :
          /\ role = [u \in Users |-> IF u = Creator THEN "admin"
                                     ELSE IF u \in invited THEN "member" ELSE "none"]
          /\ participants = invited \cup {Creator}
    /\ writer = [u \in Users |-> NoRequest]
    /\ written = [u \in Users |-> "none"]
    /\ blocked = {}
    /\ limit \in Limits
    /\ keyShare = {}
    /\ forUpdate = NoRequest
    /\ pc = [q \in Requests |-> "idle"]
    /\ op = [q \in Requests |-> "none"]
    /\ user = [q \in Requests |-> NoUser]
    /\ todo = [q \in Requests |-> {}]
    /\ promotes = [q \in Requests |-> FALSE]
    /\ joins = [q \in Requests |-> {}]
    /\ leaves = [q \in Requests |-> {}]
    /\ about = [q \in Requests |-> {}]
    /\ raced = {}
    /\ excused = FALSE

-----------------------------------------------------------------------------
(* Rows, locks and transactions.                                           *)

\* The member row a statement of q sees: its own write, else what is committed.
Sees(q, u) == IF writer[u] = q THEN written[u] ELSE role[u]
Count(q)   == Cardinality({u \in Users : Sees(q, u) # "none"})

\* The requests whose locks the next statement of q waits for.  An INSERT waits for any
\* uncommitted change of the row; a DELETE or UPDATE passes over a row it does not see.
WaitsFor(q) ==
    {p \in Requests \ {q} :
        \/ /\ pc[q] \in {"insert", "delete", "promote", "role"}
           /\ writer[user[q]] = p
           /\ pc[q] = "insert" \/ role[user[q]] # "none"
        \/ pc[q] \in {"participant", "participants"} /\ user[q] \in leaves[p]
        \/ pc[q] \in {"key", "lock", "limit"} /\ forUpdate = p
        \/ pc[q] = "lock" /\ p \in keyShare}

At(q, label) == pc[q] = label /\ WaitsFor(q) = {}

Goto(q, label) == pc' = [pc EXCEPT ![q] = label]

Write(q, r) ==
    /\ writer' = [writer EXCEPT ![user[q]] = q]
    /\ written' = [written EXCEPT ![user[q]] = r]
    /\ UNCHANGED role

\* DELETE or UPDATE of the row of user[q]: no row, no effect.
Change(q, r) ==
    IF Sees(q, user[q]) = "none" THEN UNCHANGED rows ELSE Write(q, r)

\* Fault: the lock on the groups row outlives the transaction.
ReleaseKeepsLock(q) ==
    /\ writer' = [u \in Users |-> IF writer[u] = q THEN NoRequest ELSE writer[u]]
    /\ UNCHANGED <<keyShare, forUpdate>>

Release(q) ==
    /\ writer' = [u \in Users |-> IF writer[u] = q THEN NoRequest ELSE writer[u]]
    /\ keyShare' = keyShare \ {q}
    /\ forUpdate' = IF forUpdate = q THEN NoRequest ELSE forUpdate

\* The request is over, its locks are released and its variables forgotten.
Ends(q) ==
    /\ Release(q)
    /\ Goto(q, "done")
    /\ written' = [u \in Users |-> IF writer[u] = q THEN "none" ELSE written[u]]
    /\ op' = [op EXCEPT ![q] = "none"]
    /\ user' = [user EXCEPT ![q] = NoUser]
    /\ todo' = [todo EXCEPT ![q] = {}]
    /\ promotes' = [promotes EXCEPT ![q] = FALSE]
    /\ joins' = [joins EXCEPT ![q] = {}]
    /\ leaves' = [leaves EXCEPT ![q] = {}]
    /\ about' = [about EXCEPT ![q] = {}]
    /\ UNCHANGED <<limit, raced>>

\* COMMIT of a transaction that inserted the participants `in` and deleted `out`.
Commit(q, in, out) ==
    /\ role' = [u \in Users |-> Sees(q, u)]
    /\ participants' = (participants \cup in) \ out
    /\ blocked' = IF op[q] = "block" THEN blocked \cup about[q] ELSE blocked
    /\ UNCHANGED excused
    /\ Ends(q)

Rollback(q) ==
    /\ Ends(q)
    /\ UNCHANGED <<role, participants, blocked, excused>>

\* PostgreSQL aborts a transaction of a circle of waiting ones.
DeadlockAborts(q) ==
    /\ \E S \in SUBSET Requests :
          /\ q \in S
          /\ \A p \in S : WaitsFor(p) \cap S # {}
          /\ \A p \in S : \E w \in S : p \in WaitsFor(w)
    /\ Rollback(q)

-----------------------------------------------------------------------------
(* The first statement of each handler.  A refused request changes nothing *)
(* and is left out.                                                        *)

\* A handler starts at `label`; it can change the membership of the users in S.
Starts(q, handler, label, u, S) ==
    /\ pc[q] = "idle"
    /\ Goto(q, label)
    /\ op' = [op EXCEPT ![q] = handler]
    /\ user' = [user EXCEPT ![q] = u]
    /\ about' = [about EXCEPT ![q] = S]
    /\ raced' = raced \cup (S \cap UNION {about[p] : p \in Running})
    /\ UNCHANGED <<rows, participants, blocked, groupRow, joins, leaves>>

Removing == {"leave", "block", "remove"}

\* Two requests that can take an admin away overlap, or one takes itself away.
Excuses(q, alone) ==
    excused' = (excused \/ alone \/ \E p \in Running : op[p] \in Removing)

\* Fault: the limit itself still lets one in.
JoinCountTooLate(q) == Cardinality(Members) <= limit

JoinCount(q) == Cardinality(Members) < limit

StartJoin(q, u) ==
    /\ JoinCount(q)
    /\ Starts(q, "join", "blocks", u, {u})
    /\ UNCHANGED <<todo, promotes, excused>>

StartAdd(q, S) ==
    /\ Admins # {}
    /\ Starts(q, "add", "lock", NoUser, S)
    /\ todo' = [todo EXCEPT ![q] = S]
    /\ UNCHANGED <<promotes, excused>>

\* The caller's role is read, then the target's, unless they are the same user.
StartRemove(q, caller, u) ==
    /\ role[caller] = "admin"
    /\ Starts(q, "remove", IF caller = u THEN "delete" ELSE "target", u, {u})
    /\ Excuses(q, caller = u)
    /\ UNCHANGED <<todo, promotes>>

StartLeave(q, u) ==
    /\ Starts(q, "leave", "delete", u, {u})
    /\ promotes' = [promotes EXCEPT ![q] = role[u] = "admin"]
    /\ Excuses(q, FALSE)
    /\ UNCHANGED todo

\* A caller who is no member just gets the row of group_blocks.
StartBlock(q, u) ==
    /\ Starts(q, "block", IF role[u] = "none" THEN "commit" ELSE "delete", u, {u})
    /\ promotes' = [promotes EXCEPT ![q] = role[u] = "admin"]
    /\ Excuses(q, FALSE)
    /\ UNCHANGED todo

StartSetRole(q, u) ==
    /\ Admins # {}
    /\ Starts(q, "setRole", "role", u, {})
    /\ UNCHANGED <<todo, promotes, excused>>

StartSettings(q) ==
    /\ Admins # {}
    /\ Starts(q, "settings", "limit", NoUser, {})
    /\ UNCHANGED <<todo, promotes, excused>>

-----------------------------------------------------------------------------
(* handleJoinGroup.                                                        *)

JoinReadsBlocks(q) ==
    /\ At(q, "blocks")
    /\ IF user[q] \in blocked
       THEN Rollback(q)
       ELSE Goto(q, "members")
            /\ UNCHANGED <<rows, participants, blocked, groupRow, request, ghosts>>

JoinReadsMembers(q) ==
    /\ At(q, "members")
    /\ IF role[user[q]] # "none"
       THEN Rollback(q)
       ELSE Goto(q, "insert")
            /\ UNCHANGED <<rows, participants, blocked, groupRow, request, ghosts>>

\* A plain INSERT: a row that is there by now is an error.
JoinInserts(q) ==
    /\ op[q] = "join"
    /\ At(q, "insert")
    /\ IF Sees(q, user[q]) # "none"
       THEN Rollback(q)
       ELSE /\ Write(q, "member")
            /\ Goto(q, "key")
            /\ UNCHANGED <<participants, blocked, groupRow, request, ghosts>>

\* The foreign key check of the INSERT locks the groups row against FOR UPDATE.
JoinLocksKey(q) ==
    /\ At(q, "key")
    /\ keyShare' = keyShare \cup {q}
    /\ Goto(q, "participant")
    /\ UNCHANGED <<rows, participants, blocked, limit, forUpdate, request, ghosts>>

JoinCommits(q) ==
    /\ op[q] = "join"
    /\ At(q, "participant")
    /\ Commit(q, {user[q]}, {})

-----------------------------------------------------------------------------
(* handleAddMembers.                                                       *)

\* Fault: SELECT member_limit without FOR UPDATE.
AddReadsLimit(q) ==
    /\ pc[q] = "lock"
    /\ Goto(q, "next")
    /\ UNCHANGED <<rows, participants, blocked, groupRow, request, ghosts>>

\* SELECT member_limit ... FOR UPDATE
AddLocks(q) ==
    /\ At(q, "lock")
    /\ forUpdate' = q
    /\ Goto(q, "next")
    /\ UNCHANGED <<rows, participants, blocked, limit, keyShare, request, ghosts>>

\* The count before each insert; a user for whom there is no room is skipped.
AddNext(q) ==
    /\ At(q, "next")
    /\ \E u \in todo[q] :
          /\ todo' = [todo EXCEPT ![q] = @ \ {u}]
          /\ IF Count(q) >= limit
             THEN UNCHANGED <<pc, user>>
             ELSE user' = [user EXCEPT ![q] = u] /\ Goto(q, "insert")
    /\ UNCHANGED <<rows, participants, blocked, groupRow, op, promotes, joins, leaves, about, ghosts>>

\* ON CONFLICT DO NOTHING
AddInserts(q) ==
    /\ op[q] = "add"
    /\ At(q, "insert")
    /\ IF Sees(q, user[q]) = "none" THEN Write(q, "member") ELSE UNCHANGED rows
    /\ Goto(q, "participant")
    /\ UNCHANGED <<participants, blocked, groupRow, request, ghosts>>

AddParticipant(q) ==
    /\ op[q] = "add"
    /\ At(q, "participant")
    /\ joins' = [joins EXCEPT ![q] = @ \cup {user[q]}]
    /\ user' = [user EXCEPT ![q] = NoUser]
    /\ Goto(q, "next")
    /\ UNCHANGED <<rows, participants, blocked, groupRow, op, todo, promotes, leaves, about, ghosts>>

AddCommits(q) ==
    /\ At(q, "next")
    /\ todo[q] = {}
    /\ Commit(q, joins[q], {})

-----------------------------------------------------------------------------
(* handleRemoveMember, handleLeaveGroup, handleBlockGroup: the same two    *)
(* DELETEs; the last two then promote somebody if their caller was admin.  *)

RemoveReadsTarget(q) ==
    /\ At(q, "target")
    /\ IF role[user[q]] = "admin"
       THEN Rollback(q)
       ELSE Goto(q, "delete")
            /\ UNCHANGED <<rows, participants, blocked, groupRow, request, ghosts>>

DeleteMember(q) ==
    /\ At(q, "delete")
    /\ Change(q, "none")
    /\ Goto(q, "participants")
    /\ UNCHANGED <<participants, blocked, groupRow, request, ghosts>>

\* Fault: the user stays a participant of the conversation.
KeepParticipant(q) ==
    /\ At(q, "participants")
    /\ Goto(q, IF promotes[q] THEN "oldest" ELSE "commit")
    /\ UNCHANGED <<rows, participants, blocked, groupRow, request, ghosts>>

DeleteParticipant(q) ==
    /\ At(q, "participants")
    /\ leaves' = [leaves EXCEPT ![q] = {user[q]} \cap participants]
    /\ Goto(q, IF promotes[q] THEN "oldest" ELSE "commit")
    /\ UNCHANGED <<rows, participants, blocked, groupRow, op, user, todo, promotes, joins, about,
                   ghosts>>

\* Fault: the transaction ends before somebody is promoted.
PromoteNobody(q) ==
    /\ At(q, "oldest")
    /\ Goto(q, "commit")
    /\ UNCHANGED <<rows, participants, blocked, groupRow, request, ghosts>>

\* SELECT user_id ... ORDER BY joined_at LIMIT 1; nobody left is nobody to promote.
PickOldest(q) ==
    /\ At(q, "oldest")
    /\ IF Count(q) = 0
       THEN Goto(q, "commit") /\ excused' = TRUE /\ UNCHANGED user
       ELSE \E u \in Users :
               /\ Sees(q, u) # "none"
               /\ user' = [user EXCEPT ![q] = u]
               /\ Goto(q, "promote")
               /\ UNCHANGED excused
    /\ UNCHANGED <<rows, participants, blocked, groupRow, op, todo, promotes, joins, leaves, about,
                   raced>>

PromoteOldest(q) ==
    /\ At(q, "promote")
    /\ Change(q, "admin")
    /\ Goto(q, "commit")
    /\ UNCHANGED <<participants, blocked, groupRow, request, ghosts>>

Commits(q) ==
    /\ At(q, "commit")
    /\ Commit(q, {}, leaves[q])

-----------------------------------------------------------------------------
(* handleUpdateRole, handleUpdateGroupSettings: one autocommitted UPDATE   *)
(* after the check of the caller's role.                                   *)

UpdateRole(q) ==
    /\ At(q, "role")
    /\ \E r \in {"admin", "member"} :
          /\ role' = [role EXCEPT ![user[q]] = IF @ = "none" THEN @ ELSE r]
          /\ excused' = (excused \/ (r = "member" /\ role[user[q]] = "admin"))
    /\ Ends(q)
    /\ UNCHANGED <<participants, blocked>>

UpdateSettings(q) ==
    /\ At(q, "limit")
    /\ limit' \in Limits
    /\ Goto(q, "done")
    /\ op' = [op EXCEPT ![q] = "none"]
    /\ UNCHANGED <<rows, participants, blocked, keyShare, forUpdate, user, todo, promotes, joins,
                   leaves, about, ghosts>>

-----------------------------------------------------------------------------
Start(q) ==
    \/ \E u \in Users :
          \/ StartJoin(q, u)
          \/ StartLeave(q, u)
          \/ StartBlock(q, u)
          \/ StartSetRole(q, u)
          \/ \E caller \in Users : StartRemove(q, caller, u)
    \/ \E S \in SUBSET Users : S # {} /\ StartAdd(q, S)
    \/ StartSettings(q)

Join(q) ==
    \/ JoinReadsBlocks(q) \/ JoinReadsMembers(q) \/ JoinInserts(q)
    \/ JoinLocksKey(q) \/ JoinCommits(q)

AddMembers(q) ==
    \/ AddLocks(q) \/ AddNext(q) \/ AddInserts(q) \/ AddParticipant(q) \/ AddCommits(q)

Remove(q) ==
    \/ RemoveReadsTarget(q) \/ DeleteMember(q) \/ DeleteParticipant(q)
    \/ PickOldest(q) \/ PromoteOldest(q) \/ Commits(q)

Update(q) == UpdateRole(q) \/ UpdateSettings(q)

AllDone == Running = {} /\ UNCHANGED vars

Next ==
    \/ \E q \in Requests :
          Start(q) \/ Join(q) \/ AddMembers(q) \/ Remove(q) \/ Update(q) \/ DeadlockAborts(q)
    \/ AllDone

Spec == Init /\ [][Next]_vars

-----------------------------------------------------------------------------
(* Properties.                                                             *)

\* Types, and: locks belong to running transactions, and FOR UPDATE excludes the
\* FOR KEY SHARE of the others.
TypeOK ==
    /\ role \in [Users -> Roles] /\ written \in [Users -> Roles]
    /\ writer \in [Users -> Running \cup {NoRequest}]
    /\ participants \subseteq Users /\ blocked \subseteq Users
    /\ limit \in Limits
    /\ keyShare \subseteq Running
    /\ forUpdate \in Running \cup {NoRequest}
    /\ forUpdate = NoRequest \/ keyShare = {}
    /\ pc \in [Requests -> Labels]
    /\ op \in [Requests -> Handlers]
    /\ user \in [Requests -> Users \cup {NoUser}]
    /\ todo \in [Requests -> SUBSET Users]
    /\ promotes \in [Requests -> BOOLEAN]
    /\ joins \in [Requests -> SUBSET Users] /\ leaves \in [Requests -> SUBSET Users]
    /\ about \in [Requests -> SUBSET Users]
    /\ raced \subseteq Users
    /\ excused \in BOOLEAN

\* A handleAddMembers that adds somebody leaves the group within member_limit, whatever
\* joins and settings run beside it: FOR UPDATE keeps out the settings and, through the
\* foreign key's lock, every join that has not yet been counted.
AddStaysInLimit ==
    [][\A q \in Requests :
          op[q] = "add" /\ op'[q] = "none" /\ ~(Members' \subseteq Members)
             => Cardinality(Members') <= limit']_vars

\* The rows of group_members and of conversation_participants, written by different
\* statements of seven handlers, name the same users, except for one whom two requests
\* were about at the same time.
PairedUnlessRaced ==
    \A u \in Users \ raced : u \in Members <=> u \in participants

\* A group with members has an admin, unless a leaving admin once found nobody to promote, an
\* admin was demoted or removed itself, or two requests that take members out overlapped.
AdminKept ==
    Members # {} /\ ~excused => Admins # {}
=============================================================================
