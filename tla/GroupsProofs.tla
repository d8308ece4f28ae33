---------------------------- MODULE GroupsProofs ----------------------------
(***************************************************************************)
(* Proofs about Groups, for any users, limits and number of requests, in   *)
(* any interleaving of their statements and with any transaction aborted   *)
(* to resolve a deadlock.                                                  *)
(***************************************************************************)
EXTENDS Groups, FiniteSetTheorems, TLAPS

RowsTyped ==
    /\ role \in [Users -> Roles] /\ written \in [Users -> Roles]
    /\ writer \in [Users -> Requests \cup {NoRequest}]

TablesTyped ==
    /\ participants \subseteq Users /\ blocked \subseteq Users
    /\ limit \in Limits
    /\ keyShare \subseteq Requests /\ forUpdate \in Requests \cup {NoRequest}
    /\ raced \subseteq Users /\ excused \in BOOLEAN

RequestsTyped ==
    /\ pc \in [Requests -> Labels]
    /\ op \in [Requests -> Handlers]
    /\ user \in [Requests -> Users \cup {NoUser}]
    /\ todo \in [Requests -> SUBSET Users]
    /\ promotes \in [Requests -> BOOLEAN]
    /\ joins \in [Requests -> SUBSET Users] /\ leaves \in [Requests -> SUBSET Users]
    /\ about \in [Requests -> SUBSET Users]

Typed == RowsTyped /\ TablesTyped /\ RequestsTyped

RemovingPath == {"target", "delete", "participants", "oldest", "promote", "commit"}

\* The statements of the handler a request runs.
OnPath(q) ==
    \/ op[q] = "none" /\ pc[q] \in {"idle", "done"}
    \/ op[q] = "join" /\ pc[q] \in {"blocks", "members", "insert", "key", "participant"}
    \/ op[q] = "add" /\ pc[q] \in {"lock", "next", "insert", "participant"}
    \/ op[q] \in Removing /\ pc[q] \in RemovingPath
    \/ op[q] = "setRole" /\ pc[q] = "role"
    \/ op[q] = "settings" /\ pc[q] = "limit"

\* ... the user an insert is about, and the locks on the groups row the request then holds.
Holding(q) ==
    /\ OnPath(q)
    /\ op[q] = "join" \/ (op[q] = "add" /\ pc[q] \in {"insert", "participant"}) => user[q] \in Users
    /\ q \in keyShare <=> (op[q] = "join" /\ pc[q] = "participant")
    /\ forUpdate = q <=> (op[q] = "add" /\ pc[q] # "lock")

\* A row that an insert has written was not there, one that another statement has written was.
Written(q, u) ==
    writer[u] = q =>
        \/ /\ op[q] = "join" /\ pc[q] \in {"key", "participant"}
           /\ role[u] = "none" /\ written[u] = "member"
        \/ op[q] = "add" /\ pc[q] # "lock" /\ role[u] = "none" /\ written[u] = "member"
        \/ /\ op[q] \in Removing /\ pc[q] \in RemovingPath \ {"target", "delete"}
           /\ role[u] # "none"

\* The members a statement of q sees.
Seen(q) == {u \in Users : Sees(q, u) # "none"}

\* What an add has counted is still so: there is room for the row it inserts next, and
\* with those it has inserted the group is within its limit.
RoomFor(q) ==
    op[q] = "add" =>
        /\ pc[q] = "insert" => Cardinality(Seen(q)) < limit
        /\ (\E u \in Users : writer[u] = q) => Cardinality(Seen(q)) <= limit

Exclusive == forUpdate # NoRequest => keyShare = {}

Own(q) == Holding(q) /\ (\A u \in Users : Written(q, u)) /\ RoomFor(q)

Inv == Typed /\ Exclusive /\ \A q \in Requests : Own(q)

-----------------------------------------------------------------------------
(* What a step of q leaves to the other requests.                          *)

KeepsRequests(q) ==
    \A p \in Requests \ {q} :
        /\ pc'[p] = pc[p] /\ op'[p] = op[p] /\ user'[p] = user[p]
        /\ p \in keyShare' <=> p \in keyShare
        /\ forUpdate' = p <=> forUpdate = p

KeepsRows(q) ==
    \A p \in Requests \ {q}, u \in Users :
        /\ writer'[u] = p <=> writer[u] = p
        /\ writer[u] = p => role'[u] = role[u] /\ written'[u] = written[u]

\* Members come and the limit moves only under a lock on the groups row.
UnderLock(q) ==
    /\ \A u \in Users : role'[u] # "none" => role[u] # "none" \/ q \in keyShare \/ forUpdate = q
    /\ limit' = limit \/ forUpdate \in {q, NoRequest}

\* AddStaysInLimit for one request.
Within(q) ==
    op[q] = "add" /\ op'[q] = "none" /\ ~(Members' \subseteq Members)
        => Cardinality(Members') <= limit'

\* What is proved of every step of q.
Good(q) ==
    /\ Typed' /\ Exclusive' /\ Own(q)'
    /\ KeepsRequests(q) /\ KeepsRows(q) /\ UnderLock(q)
    /\ Within(q)

LEMMA SeenFinite ==
    ASSUME NEW q
    PROVE  IsFiniteSet(Seen(q)) /\ Cardinality(Seen(q)) \in Nat
<1>1. Seen(q) \in SUBSET Users
  BY DEF Seen
<1>2. IsFiniteSet(Users)
  BY GroupsAssumption
<1>3. IsFiniteSet(Seen(q))
  BY <1>1, <1>2, FS_Subset
<1> QED BY <1>3, FS_CardinalityType

\* Fewer members seen are no more members.
LEMMA FewerSeen ==
    ASSUME NEW S, NEW T, IsFiniteSet(S), T \subseteq S
    PROVE  Cardinality(T) <= Cardinality(S) /\ Cardinality(T) \in Nat /\ Cardinality(S) \in Nat
BY FS_Subset, FS_CardinalityType

\* A step of q keeps what another request relies on.
LEMMA OthersKeep ==
    ASSUME Inv, NEW q \in Requests, Good(q), NEW p \in Requests \ {q}
    PROVE  Own(p)' /\ Within(p)
<1>1. Own(p) /\ p \in Requests
  BY DEF Inv
<1>2. /\ pc'[p] = pc[p] /\ op'[p] = op[p] /\ user'[p] = user[p]
      /\ p \in keyShare' <=> p \in keyShare
      /\ forUpdate' = p <=> forUpdate = p
  BY DEF Good, KeepsRequests
<1>3. Holding(p)'
  BY <1>1, <1>2 DEF Own, Holding, OnPath
<1>4. ASSUME NEW u \in Users
      PROVE  Written(p, u)'
  <2>1. /\ writer'[u] = p <=> writer[u] = p
        /\ writer[u] = p => role'[u] = role[u] /\ written'[u] = written[u]
    BY DEF Good, KeepsRows
  <2> QED BY <1>1, <1>2, <2>1 DEF Own, Written
<1>5. RoomFor(p)'
  <2> SUFFICES ASSUME op'[p] = "add", pc'[p] = "insert" \/ \E u \in Users : writer'[u] = p
               PROVE  /\ pc'[p] = "insert" => Cardinality(Seen(p)') < limit'
                      /\ (\E u \in Users : writer'[u] = p) => Cardinality(Seen(p)') <= limit'
    BY DEF RoomFor
  <2>1. op[p] = "add" /\ pc[p] # "lock" /\ forUpdate = p
    BY <1>1, <1>2, <1>4 DEF Own, Holding, Written, Removing
  <2>2. p # NoRequest
    BY <1>1, GroupsAssumption
  <2>3. limit' = limit /\ q \notin keyShare /\ forUpdate # q
    BY <2>1, <2>2 DEF Good, UnderLock, Inv, Exclusive
  <2>4. ASSUME NEW u \in Users, u \in Seen(p)'
        PROVE  u \in Seen(p)
    <3>1. /\ writer'[u] = p <=> writer[u] = p
          /\ writer[u] = p => role'[u] = role[u] /\ written'[u] = written[u]
      BY DEF Good, KeepsRows
    <3>2. role'[u] # "none" => role[u] # "none"
      BY <2>3 DEF Good, UnderLock
    <3> QED BY <2>4, <3>1, <3>2 DEF Seen, Sees
  <2>5. Seen(p)' \subseteq Seen(p)
    BY <2>4 DEF Seen
  <2>6. /\ Cardinality(Seen(p)') <= Cardinality(Seen(p))
        /\ Cardinality(Seen(p)') \in Nat /\ Cardinality(Seen(p)) \in Nat
    BY <2>5, SeenFinite, FewerSeen
  <2>7. limit \in Nat
    BY GroupsAssumption DEF Inv, Typed, TablesTyped
  <2>8. (\E u \in Users : writer'[u] = p) => \E u \in Users : writer[u] = p
    BY DEF Good, KeepsRows
  <2>9. /\ pc[p] = "insert" => Cardinality(Seen(p)) < limit
        /\ (\E u \in Users : writer[u] = p) => Cardinality(Seen(p)) <= limit
    BY <1>1, <2>1 DEF Own, RoomFor
  <2> QED BY <1>2, <2>3, <2>6, <2>7, <2>8, <2>9
<1>6. Within(p)
  BY <1>2 DEF Within
<1> QED BY <1>3, <1>4, <1>5, <1>6 DEF Own

LEMMA GoodKeepsInv ==
    ASSUME Inv, NEW q \in Requests, Good(q)
    PROVE  Inv' /\ \A p \in Requests : Within(p)
<1>1. ASSUME NEW p \in Requests
      PROVE  Own(p)' /\ Within(p)
  BY OthersKeep DEF Good
<1> QED BY <1>1 DEF Inv, Good

-----------------------------------------------------------------------------
(* The steps by what they do to rows and locks.                            *)

\* A request that runs no handler has written nothing and holds nothing.
LEMMA StartsGood ==
    ASSUME Inv, NEW q \in Requests, NEW handler, NEW label, NEW u \in Users \cup {NoUser},
           NEW S \in SUBSET Users,
           Starts(q, handler, label, u, S),
           \/ handler = "join" /\ label = "blocks" /\ u \in Users
           \/ handler = "add" /\ label = "lock"
           \/ handler \in Removing /\ label \in {"target", "delete", "commit"}
           \/ handler = "setRole" /\ label = "role"
           \/ handler = "settings" /\ label = "limit",
           todo' \in [Requests -> SUBSET Users], promotes' \in [Requests -> BOOLEAN],
           excused' \in BOOLEAN
    PROVE  Good(q)
<1> USE DEF Starts, Goto, rows, groupRow
<1>1. Own(q) /\ Typed /\ Exclusive /\ pc[q] = "idle"
  BY DEF Inv
<1>2. op[q] = "none" /\ q \notin keyShare /\ forUpdate # q /\ \A x \in Users : writer[x] # q
  BY <1>1 DEF Own, Holding, OnPath, Written, Removing, RemovingPath
<1>3. /\ pc' = [pc EXCEPT ![q] = label] /\ op' = [op EXCEPT ![q] = handler]
      /\ pc'[q] = label /\ op'[q] = handler /\ user'[q] = u
      /\ \A p \in Requests \ {q} : pc'[p] = pc[p] /\ op'[p] = op[p] /\ user'[p] = user[p]
  BY <1>1 DEF Typed, RequestsTyped
<1>4. raced' \subseteq Users
  <2>1. raced' = raced \cup (S \cap UNION {about[p] : p \in Running})
    OBVIOUS
  <2> QED BY <1>1, <2>1 DEF Typed, TablesTyped
<1>5. Typed'
  <2>1. label \in Labels /\ handler \in Handlers
    BY DEF Labels, Handlers, Removing
  <2>2. RequestsTyped'
    BY <1>1, <2>1 DEF Typed, RequestsTyped
  <2> QED BY <1>1, <1>4, <2>2 DEF Typed, RowsTyped, TablesTyped
<1>6. Own(q)'
  BY <1>2, <1>3 DEF Own, Holding, OnPath, Written, RoomFor, Removing, RemovingPath
<1>7. KeepsRequests(q) /\ KeepsRows(q) /\ UnderLock(q)
  BY <1>3 DEF KeepsRequests, KeepsRows, UnderLock
<1> QED BY <1>1, <1>2, <1>5, <1>6, <1>7 DEF Good, Exclusive, Within

\* The end of a transaction releases its rows and locks.
LEMMA EndsGood ==
    ASSUME Inv, NEW q \in Requests, Ends(q), Within(q),
           role' \in [Users -> Roles],
           \A p \in Requests \ {q}, u \in Users : writer[u] = p => role'[u] = role[u],
           \A u \in Users :
              role'[u] # "none" => role[u] # "none" \/ q \in keyShare \/ forUpdate = q,
           participants' \subseteq Users, blocked' \subseteq Users, excused' \in BOOLEAN
    PROVE  Good(q)
<1> USE DEF Ends, Release, Goto
<1>1. Typed /\ Exclusive /\ q # NoRequest
  BY GroupsAssumption DEF Inv
<1>2. /\ pc' = [pc EXCEPT ![q] = "done"] /\ op' = [op EXCEPT ![q] = "none"]
      /\ pc'[q] = "done" /\ op'[q] = "none"
      /\ \A p \in Requests \ {q} : pc'[p] = pc[p] /\ op'[p] = op[p] /\ user'[p] = user[p]
  BY <1>1 DEF Typed, RequestsTyped
<1>3. ASSUME NEW u \in Users
      PROVE  /\ writer'[u] = IF writer[u] = q THEN NoRequest ELSE writer[u]
             /\ written'[u] = IF writer[u] = q THEN "none" ELSE written[u]
  OBVIOUS
<1>4. Typed'
  <2>1. RequestsTyped'
    BY <1>1 DEF Typed, RequestsTyped, Labels, Handlers
  <2>2. RowsTyped'
    BY <1>1 DEF Typed, RowsTyped, Roles
  <2> QED BY <1>1, <2>1, <2>2 DEF Typed, TablesTyped
<1>5. Own(q)'
  BY <1>1, <1>2, <1>3 DEF Own, Holding, OnPath, Written, RoomFor, Removing, RemovingPath
<1>6. KeepsRequests(q)
  BY <1>1, <1>2, GroupsAssumption DEF KeepsRequests
<1>7. KeepsRows(q)
  BY <1>1, <1>3, GroupsAssumption DEF KeepsRows
<1>8. UnderLock(q)
  BY DEF UnderLock
<1>9. Exclusive'
  BY <1>1 DEF Exclusive
<1> QED BY <1>4, <1>5, <1>6, <1>7, <1>8, <1>9 DEF Good

LEMMA RollbackGood ==
    ASSUME Inv, NEW q \in Requests, Rollback(q)
    PROVE  Good(q)
<1>1. Ends(q) /\ UNCHANGED <<role, participants, blocked, excused>>
  BY DEF Rollback
<1>2. Within(q)
  BY <1>1 DEF Within, Members
<1> QED BY <1>1, <1>2, EndsGood DEF Inv, Typed, RowsTyped, TablesTyped

\* A commit makes the rows public that its transaction has written; one that has inserted
\* holds a lock on the groups row.
LEMMA CommitGood ==
    ASSUME Inv, NEW q \in Requests, NEW in \in SUBSET Users, NEW out, Commit(q, in, out),
           op[q] = "join" => pc[q] = "participant"
    PROVE  Good(q)
<1> USE DEF Commit
<1>1. Own(q) /\ Typed
  BY DEF Inv
<1>2. \A u \in Users : role'[u] = Sees(q, u)
  OBVIOUS
<1>3. role' \in [Users -> Roles]
  BY <1>1 DEF Typed, RowsTyped, Sees
<1>4. \A p \in Requests \ {q}, u \in Users : writer[u] = p => role'[u] = role[u]
  BY <1>2 DEF Sees
<1>5. ASSUME NEW u \in Users, role'[u] # "none", role[u] = "none"
      PROVE  q \in keyShare \/ forUpdate = q
  BY <1>1, <1>2, <1>5 DEF Sees, Own, Written, Holding
<1>6. participants' \subseteq Users /\ blocked' \subseteq Users /\ excused' \in BOOLEAN
  <2>1. blocked' = IF op[q] = "block" THEN blocked \cup about[q] ELSE blocked
    OBVIOUS
  <2>2. participants' = (participants \cup in) \ out /\ excused' = excused
    OBVIOUS
  <2> QED BY <1>1, <2>1, <2>2 DEF Typed, TablesTyped, RequestsTyped
<1>7. Within(q)
  <2> SUFFICES ASSUME op[q] = "add", ~(Members' \subseteq Members)
               PROVE  Cardinality(Members') <= limit'
    BY DEF Within
  <2>1. Members' = Seen(q)
    BY <1>2 DEF Members, Seen
  <2>2. \E u \in Users : writer[u] = q
    BY <2>1 DEF Seen, Sees, Members
  <2> QED BY <1>1, <2>1, <2>2 DEF Own, RoomFor, Ends
<1> QED BY <1>3, <1>4, <1>5, <1>6, <1>7, EndsGood

\* A statement that changes no row, no lock and no request but its own.
LEMMA MovesGood ==
    ASSUME Inv, NEW q \in Requests, NEW label, Goto(q, label), UNCHANGED <<rows, groupRow, op>>,
           label \in Labels \ {"insert"},
           op[q] = "add" /\ pc[q] \in {"next", "insert", "participant"}
               => label \in {"next", "participant"},
           op[q] = "join" => pc[q] = "blocks" /\ label = "members",
           op[q] \in Removing => \/ label \in RemovingPath \ {"target", "delete"}
                                 \/ label = "delete" /\ pc[q] = "target",
           op[q] \in Removing \cup {"join"} \/ (op[q] = "add" /\ pc[q] # "lock"),
           op[q] = "join" \/ label = "participant" => user'[q] = user[q],
           op[q] = "add" /\ label = "participant" => pc[q] = "insert",
           \A p \in Requests \ {q} : user'[p] = user[p],
           user' \in [Requests -> Users \cup {NoUser}], todo' \in [Requests -> SUBSET Users],
           joins' \in [Requests -> SUBSET Users], leaves' \in [Requests -> SUBSET Users],
           UNCHANGED <<participants, blocked, promotes, about, raced>>,
           excused' \in BOOLEAN
    PROVE  Good(q)
<1> USE DEF Goto, rows, groupRow
<1>1. Own(q) /\ Typed /\ Exclusive
  BY DEF Inv
<1>2. /\ pc' = [pc EXCEPT ![q] = label] /\ pc'[q] = label /\ op' = op
      /\ \A p \in Requests \ {q} : pc'[p] = pc[p]
  BY <1>1 DEF Typed, RequestsTyped
<1>3. Typed'
  <2>1. RequestsTyped'
    BY <1>1, <1>2 DEF Typed, RequestsTyped
  <2> QED BY <1>1, <2>1 DEF Typed, RowsTyped, TablesTyped
<1>4. Holding(q)'
  BY <1>1, <1>2 DEF Own, Holding, OnPath, Removing, RemovingPath
<1>5. \A u \in Users : Written(q, u)'
  BY <1>1, <1>2 DEF Own, Holding, OnPath, Written, Removing, RemovingPath
<1>6. RoomFor(q)'
  BY <1>1, <1>2 DEF Own, RoomFor, Seen, Sees
<1>7. KeepsRequests(q) /\ KeepsRows(q) /\ UnderLock(q) /\ Within(q) /\ Exclusive'
  BY <1>1, <1>2 DEF KeepsRequests, KeepsRows, UnderLock, Within, Exclusive
<1> QED BY <1>3, <1>4, <1>5, <1>6, <1>7 DEF Good, Own

\* A write of a row no other transaction has written.
LEMMA WritesGood ==
    ASSUME Inv, NEW q \in Requests, NEW label \in Labels, NEW r \in Roles,
           Write(q, r), Goto(q, label),
           user[q] \in Users => writer[user[q]] \notin Requests \ {q},
           UNCHANGED <<participants, blocked, groupRow, request, ghosts>>,
           Own(q)'
    PROVE  Good(q)
<1> USE DEF Write, Goto, groupRow, request, ghosts
<1>1. Own(q) /\ Typed /\ Exclusive
  BY DEF Inv
<1>2. /\ pc' = [pc EXCEPT ![q] = label] /\ op' = op
      /\ \A p \in Requests \ {q} : pc'[p] = pc[p]
  BY <1>1 DEF Typed, RequestsTyped
<1>3. Typed'
  <2>1. RequestsTyped'
    BY <1>1, <1>2 DEF Typed, RequestsTyped
  <2>2. RowsTyped'
    BY <1>1 DEF Typed, RowsTyped
  <2> QED BY <1>1, <2>1, <2>2 DEF Typed, TablesTyped
<1>4. KeepsRows(q)
  BY <1>1 DEF KeepsRows, Typed, RowsTyped
<1>5. KeepsRequests(q) /\ UnderLock(q) /\ Within(q) /\ Exclusive'
  BY <1>1, <1>2 DEF KeepsRequests, UnderLock, Within, Exclusive
<1> QED BY <1>3, <1>4, <1>5 DEF Good

-----------------------------------------------------------------------------
(* Every step is one of these.                                             *)

LEMMA StartGood ==
    ASSUME Inv, NEW q \in Requests, Start(q)
    PROVE  Good(q)
<1> USE DEF Removing
<1>1. Typed
  BY DEF Inv
<1>2. todo \in [Requests -> SUBSET Users]
  BY <1>1 DEF Typed, RequestsTyped
<1>3. promotes \in [Requests -> BOOLEAN] /\ excused \in BOOLEAN
  BY <1>1 DEF Typed, RequestsTyped, TablesTyped
<1>4. ASSUME NEW u \in Users, StartJoin(q, u) PROVE Good(q)
  BY <1>1, <1>2, <1>3, <1>4, StartsGood DEF StartJoin
<1>5. ASSUME NEW u \in Users, StartLeave(q, u) PROVE Good(q)
  <2>1. Starts(q, "leave", "delete", u, {u}) /\ UNCHANGED todo
    BY <1>5 DEF StartLeave
  <2>2. promotes' \in [Requests -> BOOLEAN]
    BY <1>3, <1>5 DEF StartLeave
  <2>3. excused' \in BOOLEAN
    BY <1>3, <1>5 DEF StartLeave, Excuses
  <2> QED BY <1>2, <2>1, <2>2, <2>3, StartsGood
<1>6. ASSUME NEW u \in Users, StartBlock(q, u) PROVE Good(q)
  <2>1. PICK label \in {"commit", "delete"} : Starts(q, "block", label, u, {u}) /\ UNCHANGED todo
    BY <1>6 DEF StartBlock
  <2>2. promotes' \in [Requests -> BOOLEAN]
    BY <1>3, <1>6 DEF StartBlock
  <2>3. excused' \in BOOLEAN
    BY <1>3, <1>6 DEF StartBlock, Excuses
  <2> QED BY <1>2, <2>1, <2>2, <2>3, StartsGood
<1>7. ASSUME NEW u \in Users, NEW caller \in Users, StartRemove(q, caller, u) PROVE Good(q)
  <2>1. PICK label \in {"target", "delete"} :
           Starts(q, "remove", label, u, {u}) /\ UNCHANGED <<todo, promotes>>
    BY <1>7 DEF StartRemove
  <2>2. excused' \in BOOLEAN
    BY <1>3, <1>7 DEF StartRemove, Excuses
  <2> QED BY <1>2, <1>3, <2>1, <2>2, StartsGood
<1>8. ASSUME NEW u \in Users, StartSetRole(q, u) PROVE Good(q)
  BY <1>1, <1>2, <1>3, <1>8, StartsGood DEF StartSetRole
<1>9. ASSUME NEW S \in SUBSET Users, StartAdd(q, S) PROVE Good(q)
  <2>1. Starts(q, "add", "lock", NoUser, S) /\ UNCHANGED <<promotes, excused>>
    BY <1>9 DEF StartAdd
  <2>2. todo' \in [Requests -> SUBSET Users]
    BY <1>1, <1>9 DEF StartAdd, Typed, RequestsTyped
  <2> QED BY <1>3, <2>1, <2>2, StartsGood
<1>10. ASSUME StartSettings(q) PROVE Good(q)
  BY <1>1, <1>2, <1>3, <1>10, StartsGood DEF StartSettings
<1> QED BY <1>4, <1>5, <1>6, <1>7, <1>8, <1>9, <1>10 DEF Start

\* The row an INSERT of q is about is no other transaction's, nor is one that a DELETE or
\* UPDATE of q finds.
LEMMA RowIsFree ==
    ASSUME NEW q \in Requests,
           \/ At(q, "insert")
           \/ (At(q, "delete") \/ At(q, "promote") \/ At(q, "role")) /\ role[user[q]] # "none"
    PROVE  writer[user[q]] \notin Requests \ {q}
<1> SUFFICES ASSUME NEW p \in Requests \ {q}, writer[user[q]] = p PROVE FALSE
  OBVIOUS
<1>1. p \in WaitsFor(q)
  BY DEF WaitsFor, At
<1> QED BY <1>1 DEF At

LEMMA JoinGood ==
    ASSUME Inv, NEW q \in Requests, Join(q)
    PROVE  Good(q)
<1>1. Own(q) /\ Typed /\ Exclusive
  BY DEF Inv
<1>2. /\ user \in [Requests -> Users \cup {NoUser}] /\ todo \in [Requests -> SUBSET Users]
      /\ joins \in [Requests -> SUBSET Users] /\ leaves \in [Requests -> SUBSET Users]
      /\ excused \in BOOLEAN
  BY <1>1 DEF Typed, RequestsTyped, TablesTyped
<1>3. CASE JoinReadsBlocks(q)
  <2>1. op[q] = "join" /\ pc[q] = "blocks"
    BY <1>1, <1>3 DEF JoinReadsBlocks, At, Own, Holding, OnPath, RemovingPath
  <2>2. \/ Rollback(q)
        \/ /\ Goto(q, "members")
           /\ UNCHANGED <<rows, participants, blocked, groupRow, request, ghosts>>
    BY <1>3 DEF JoinReadsBlocks
  <2> QED BY <1>2, <2>1, <2>2, RollbackGood, MovesGood DEF request, ghosts, Labels, Removing
<1>4. CASE JoinReadsMembers(q)
  <2>1. op[q] = "join" /\ pc[q] = "members"
    BY <1>1, <1>4 DEF JoinReadsMembers, At, Own, Holding, OnPath, RemovingPath
  <2>2. CASE Rollback(q)
    BY <2>2, RollbackGood
  <2>3. CASE /\ Goto(q, "insert")
             /\ UNCHANGED <<rows, participants, blocked, groupRow, request, ghosts>>
    <3> USE <2>1, <2>3 DEF Goto, rows, groupRow, request, ghosts
    <3>1. /\ pc' = [pc EXCEPT ![q] = "insert"] /\ pc'[q] = "insert" /\ op' = op
          /\ \A p \in Requests \ {q} : pc'[p] = pc[p]
      BY <1>1 DEF Typed, RequestsTyped
    <3>2. Typed'
      <4>1. RequestsTyped'
        BY <1>1, <3>1 DEF Typed, RequestsTyped, Labels
      <4> QED BY <1>1, <4>1 DEF Typed, RowsTyped, TablesTyped
    <3>3. Own(q)'
      BY <1>1, <3>1 DEF Own, Holding, OnPath, Written, RoomFor, Removing, RemovingPath
    <3> QED BY <1>1, <3>1, <3>2, <3>3
            DEF Good, KeepsRequests, KeepsRows, UnderLock, Within, Exclusive
  <2> QED BY <1>4, <2>2, <2>3 DEF JoinReadsMembers
<1>5. CASE JoinInserts(q)
  <2>1. op[q] = "join" /\ At(q, "insert") /\ pc[q] = "insert"
    BY <1>5 DEF JoinInserts, At
  <2>2. CASE Rollback(q)
    BY <2>2, RollbackGood
  <2>3. CASE /\ Sees(q, user[q]) = "none" /\ Write(q, "member") /\ Goto(q, "key")
             /\ UNCHANGED <<participants, blocked, groupRow, request, ghosts>>
    <3>1. /\ pc'[q] = "key" /\ op' = op /\ user' = user /\ role' = role
          /\ keyShare' = keyShare /\ forUpdate' = forUpdate
          /\ writer' = [writer EXCEPT ![user[q]] = q]
          /\ written' = [written EXCEPT ![user[q]] = "member"]
      BY <1>1, <2>3 DEF Goto, Write, groupRow, request, Typed, RequestsTyped
    <3>2. ASSUME NEW u \in Users, writer'[u] = q
          PROVE  role[u] = "none" /\ written'[u] = "member"
      <4>1. writer[u] # q
        BY <1>1, <2>1 DEF Own, Written, Removing
      <4>2. u = user[q]
        BY <1>1, <3>1, <3>2, <4>1 DEF Typed, RowsTyped
      <4> QED BY <1>1, <2>3, <3>1, <4>1, <4>2 DEF Sees, Typed, RowsTyped
    <3>3. Own(q)'
      BY <1>1, <2>1, <3>1, <3>2 DEF Own, Holding, OnPath, Written, RoomFor, Removing
    <3> QED BY <2>1, <2>3, <3>3, RowIsFree, WritesGood DEF Labels, Roles
  <2> QED BY <1>5, <2>2, <2>3 DEF JoinInserts
<1>6. CASE JoinLocksKey(q)
  <2> USE <1>6 DEF JoinLocksKey, Goto, rows, request, ghosts
  <2>1. op[q] = "join" /\ pc[q] = "key"
    BY <1>1 DEF At, Own, Holding, OnPath, RemovingPath
  <2>2. forUpdate = NoRequest
    <3>1. forUpdate \notin Requests \ {q}
      BY <2>1 DEF At, WaitsFor
    <3>2. forUpdate # q
      BY <1>1, <2>1 DEF Own, Holding
    <3> QED BY <1>1, <3>1, <3>2 DEF Typed, TablesTyped
  <2>3. /\ pc' = [pc EXCEPT ![q] = "participant"] /\ pc'[q] = "participant" /\ op' = op
        /\ \A p \in Requests \ {q} : pc'[p] = pc[p]
        /\ keyShare' = keyShare \cup {q} /\ forUpdate' = forUpdate
    BY <1>1 DEF Typed, RequestsTyped
  <2>4. Typed'
    <3>1. RequestsTyped'
      BY <1>1, <2>3 DEF Typed, RequestsTyped, Labels
    <3> QED BY <1>1, <2>3, <3>1 DEF Typed, RowsTyped, TablesTyped
  <2>5. Own(q)'
    BY <1>1, <2>1, <2>3 DEF Own, Holding, OnPath, Written, RoomFor, Removing, RemovingPath
  <2> QED BY <2>1, <2>2, <2>3, <2>4, <2>5
          DEF Good, KeepsRequests, KeepsRows, UnderLock, Within, Exclusive
<1>7. CASE JoinCommits(q)
  <2>1. pc[q] = "participant" /\ Commit(q, {user[q]}, {}) /\ op[q] = "join"
    BY <1>7 DEF JoinCommits, At
  <2>2. user[q] \in Users
    BY <1>1, <2>1 DEF Own, Holding
  <2> QED BY <2>1, <2>2, CommitGood
<1> QED BY <1>3, <1>4, <1>5, <1>6, <1>7 DEF Join

LEMMA AddGood ==
    ASSUME Inv, NEW q \in Requests, AddMembers(q)
    PROVE  Good(q)
<1>1. Own(q) /\ Typed /\ Exclusive
  BY DEF Inv
<1>2. /\ user \in [Requests -> Users \cup {NoUser}] /\ todo \in [Requests -> SUBSET Users]
      /\ joins \in [Requests -> SUBSET Users] /\ leaves \in [Requests -> SUBSET Users]
      /\ excused \in BOOLEAN
  BY <1>1 DEF Typed, RequestsTyped, TablesTyped
<1>3. CASE AddLocks(q)
  <2> USE <1>3 DEF AddLocks, Goto, rows, request, ghosts
  <2>1. op[q] = "add" /\ pc[q] = "lock"
    BY <1>1 DEF At, Own, Holding, OnPath, RemovingPath
  <2>2. forUpdate = NoRequest
    <3>1. forUpdate \notin Requests \ {q}
      BY <2>1 DEF At, WaitsFor
    <3>2. forUpdate # q
      BY <1>1, <2>1 DEF Own, Holding
    <3> QED BY <1>1, <3>1, <3>2 DEF Typed, TablesTyped
  <2>3. keyShare = {}
    <3>1. ASSUME NEW p \in Requests \ {q} PROVE p \notin keyShare
      BY <2>1 DEF At, WaitsFor
    <3>2. q \notin keyShare
      BY <1>1, <2>1 DEF Own, Holding
    <3> QED BY <1>1, <3>1, <3>2 DEF Typed, TablesTyped
  <2>4. /\ pc' = [pc EXCEPT ![q] = "next"] /\ pc'[q] = "next" /\ op' = op
        /\ \A p \in Requests \ {q} : pc'[p] = pc[p]
        /\ keyShare' = keyShare /\ forUpdate' = q
    BY <1>1 DEF Typed, RequestsTyped
  <2>5. Typed'
    <3>1. RequestsTyped'
      BY <1>1, <2>4 DEF Typed, RequestsTyped, Labels
    <3> QED BY <1>1, <2>4, <3>1 DEF Typed, RowsTyped, TablesTyped
  <2>6. Own(q)'
    BY <1>1, <2>1, <2>3, <2>4 DEF Own, Holding, OnPath, Written, RoomFor, Removing, RemovingPath
  <2>7. KeepsRequests(q)
    BY <2>2, <2>4, GroupsAssumption DEF KeepsRequests
  <2> QED BY <2>1, <2>3, <2>4, <2>5, <2>6, <2>7 DEF Good, KeepsRows, UnderLock, Within, Exclusive
<1>4. CASE AddNext(q)
  <2>1. op[q] = "add" /\ pc[q] = "next"
    BY <1>1, <1>4 DEF AddNext, At, Own, Holding, OnPath, RemovingPath
  <2>2. /\ UNCHANGED <<rows, groupRow, op>>
        /\ UNCHANGED <<participants, blocked, promotes, about, raced>>
        /\ UNCHANGED <<joins, leaves, excused>>
    BY <1>4 DEF AddNext, ghosts
  <2>3. todo' \in [Requests -> SUBSET Users]
    BY <1>2, <1>4 DEF AddNext
  <2>4. CASE UNCHANGED <<pc, user>>
    <3>1. Goto(q, "next")
      BY <1>1, <2>1, <2>4 DEF Goto, Typed, RequestsTyped
    <3>2. /\ user' \in [Requests -> Users \cup {NoUser}] /\ user' = user
          /\ joins' \in [Requests -> SUBSET Users] /\ leaves' \in [Requests -> SUBSET Users]
          /\ excused' \in BOOLEAN
      BY <1>2, <2>2, <2>4
    <3> QED BY <2>1, <2>2, <2>3, <3>1, <3>2, MovesGood DEF Labels, Removing
  <2>5. ASSUME NEW u \in Users, ~(Count(q) >= limit),
               user' = [user EXCEPT ![q] = u], Goto(q, "insert")
        PROVE  Good(q)
    <3> USE <2>1, <2>2, <2>5 DEF Goto, rows, groupRow
    <3>1. /\ pc' = [pc EXCEPT ![q] = "insert"] /\ pc'[q] = "insert" /\ op' = op /\ user'[q] = u
          /\ \A p \in Requests \ {q} : pc'[p] = pc[p] /\ user'[p] = user[p]
      BY <1>1 DEF Typed, RequestsTyped
    <3>2. Typed'
      <4>1. RequestsTyped'
        BY <1>1, <2>3, <3>1 DEF Typed, RequestsTyped, Labels
      <4> QED BY <1>1, <4>1 DEF Typed, RowsTyped, TablesTyped
    <3>3. Seen(q)' = Seen(q) /\ Cardinality(Seen(q)) < limit
      <4>1. Count(q) = Cardinality(Seen(q))
        BY DEF Count, Seen
      <4>2. limit \in Nat
        BY <1>1, GroupsAssumption DEF Typed, TablesTyped
      <4> QED BY <4>1, <4>2, SeenFinite DEF Seen, Sees
    <3>4. Own(q)'
      BY <1>1, <3>1, <3>3 DEF Own, Holding, OnPath, Written, RoomFor, Removing, RemovingPath
    <3> QED BY <1>1, <3>1, <3>2, <3>4
            DEF Good, KeepsRequests, KeepsRows, UnderLock, Within, Exclusive
  <2> QED BY <1>2, <1>4, <2>4, <2>5 DEF AddNext
<1>5. CASE AddInserts(q)
  <2>1. op[q] = "add" /\ At(q, "insert") /\ pc[q] = "insert" /\ Goto(q, "participant")
        /\ UNCHANGED <<participants, blocked, groupRow, request, ghosts>>
    BY <1>5 DEF AddInserts, At
  <2>2. CASE UNCHANGED rows
    BY <1>2, <2>1, <2>2, MovesGood DEF request, ghosts, Labels, Removing
  <2>3. CASE Sees(q, user[q]) = "none" /\ Write(q, "member")
    <3>1. /\ pc'[q] = "participant" /\ op' = op /\ user' = user /\ role' = role /\ limit' = limit
          /\ keyShare' = keyShare /\ forUpdate' = forUpdate
          /\ writer' = [writer EXCEPT ![user[q]] = q]
          /\ written' = [written EXCEPT ![user[q]] = "member"]
      BY <1>1, <2>1, <2>3 DEF Goto, Write, groupRow, request, Typed, RequestsTyped
    <3>2. user[q] \in Users /\ writer[user[q]] # q /\ role[user[q]] = "none"
      BY <1>1, <2>1, <2>3 DEF Own, Holding, Written, Sees, Removing
    <3>3. ASSUME NEW u \in Users
          PROVE  /\ writer'[u] = IF u = user[q] THEN q ELSE writer[u]
                 /\ written'[u] = IF u = user[q] THEN "member" ELSE written[u]
      BY <1>1, <3>1 DEF Typed, RowsTyped
    <3>4. \A u \in Users : Written(q, u)'
      BY <1>1, <2>1, <3>1, <3>2, <3>3 DEF Own, Written, Removing
    <3>5. Cardinality(Seen(q)') <= limit'
      <4>1. Seen(q)' = Seen(q) \cup {user[q]} /\ user[q] \notin Seen(q)
        BY <2>3, <3>1, <3>2, <3>3 DEF Seen, Sees
      <4>2. Cardinality(Seen(q)') = Cardinality(Seen(q)) + 1
        BY <4>1, SeenFinite, FS_AddElement
      <4>3. limit \in Nat
        BY <1>1, GroupsAssumption DEF Typed, TablesTyped
      <4>4. Cardinality(Seen(q)) < limit
        BY <1>1, <2>1 DEF Own, RoomFor
      <4> QED BY <3>1, <4>2, <4>3, <4>4, SeenFinite
    <3>6. Own(q)'
      BY <1>1, <2>1, <3>1, <3>4, <3>5 DEF Own, Holding, OnPath, RoomFor, Removing
    <3> QED BY <2>1, <2>3, <3>6, RowIsFree, WritesGood DEF Labels, Roles
  <2> QED BY <1>5, <2>2, <2>3 DEF AddInserts
<1>6. CASE AddParticipant(q)
  <2>1. op[q] = "add" /\ pc[q] = "participant" /\ Goto(q, "next")
        /\ UNCHANGED <<rows, groupRow, op>>
        /\ UNCHANGED <<participants, blocked, promotes, about, raced>>
        /\ UNCHANGED <<todo, leaves, excused>>
    BY <1>6 DEF AddParticipant, At, ghosts
  <2>2. user[q] \in Users
    BY <1>1, <2>1 DEF Own, Holding
  <2>3. /\ joins' \in [Requests -> SUBSET Users]
        /\ user' \in [Requests -> Users \cup {NoUser}]
        /\ \A p \in Requests \ {q} : user'[p] = user[p]
    BY <1>2, <1>6, <2>2 DEF AddParticipant
  <2> QED BY <1>2, <2>1, <2>3, MovesGood DEF Labels, Removing
<1>7. CASE AddCommits(q)
  <2>1. op[q] = "add" /\ Commit(q, joins[q], {})
    BY <1>1, <1>7 DEF AddCommits, At, Own, Holding, OnPath, RemovingPath
  <2> QED BY <1>2, <2>1, CommitGood
<1> QED BY <1>3, <1>4, <1>5, <1>6, <1>7 DEF AddMembers

\* A DELETE or UPDATE in a transaction that takes somebody out.
LEMMA ChangeGood ==
    ASSUME Inv, NEW q \in Requests, NEW r \in Roles, Change(q, r),
           NEW label, Goto(q, label),
           \/ At(q, "delete") /\ label = "participants"
           \/ At(q, "promote") /\ label = "commit",
           UNCHANGED <<participants, blocked, groupRow, request, ghosts>>
    PROVE  Good(q)
<1>1. Own(q) /\ Typed /\ Exclusive
  BY DEF Inv
<1>2. /\ op[q] \in Removing /\ pc[q] \in {"delete", "promote"}
      /\ label = IF pc[q] = "delete" THEN "participants" ELSE "commit"
  BY <1>1 DEF At, Own, Holding, OnPath, RemovingPath, Removing
<1>3. CASE UNCHANGED rows
  <2>1. /\ user' = user /\ todo' = todo /\ joins' = joins /\ leaves' = leaves /\ excused' = excused
        /\ UNCHANGED <<rows, groupRow, op>>
        /\ UNCHANGED <<participants, blocked, promotes, about, raced>>
    BY <1>3 DEF request, ghosts
  <2>2. label \in Labels \ {"insert"} /\ label \in RemovingPath \ {"target", "delete"}
    BY <1>2 DEF Labels, RemovingPath
  <2> QED BY <1>1, <1>2, <2>1, <2>2, MovesGood
          DEF Removing, Typed, RequestsTyped, TablesTyped
<1>4. CASE Sees(q, user[q]) # "none" /\ Write(q, r)
  <2>1. /\ pc'[q] = label /\ op' = op /\ user' = user /\ role' = role
        /\ keyShare' = keyShare /\ forUpdate' = forUpdate
        /\ writer' = [writer EXCEPT ![user[q]] = q]
        /\ written' = [written EXCEPT ![user[q]] = r]
    BY <1>1, <1>4 DEF Goto, Write, groupRow, request, Typed, RequestsTyped
  <2>2. ASSUME NEW u \in Users, writer'[u] = q
        PROVE  role[u] # "none"
    <3>1. CASE writer[u] = q
      BY <1>1, <1>2, <3>1 DEF Own, Written, Removing
    <3>2. CASE writer[u] # q
      <4>1. u = user[q]
        BY <1>1, <2>1, <2>2, <3>2 DEF Typed, RowsTyped
      <4> QED BY <1>4, <3>2, <4>1 DEF Sees
    <3> QED BY <3>1, <3>2
  <2>3. Own(q)'
    BY <1>1, <1>2, <2>1, <2>2 DEF Own, Holding, OnPath, Written, RoomFor, Removing, RemovingPath
  <2>4. writer[user[q]] \notin Requests \ {q}
    <3>1. CASE writer[user[q]] = q
      BY <3>1
    <3>2. CASE writer[user[q]] # q
      <4>1. role[user[q]] # "none"
        BY <1>4, <3>2 DEF Sees
      <4> QED BY <4>1, RowIsFree
    <3> QED BY <3>1, <3>2
  <2>5. label \in Labels
    BY <1>2 DEF Labels
  <2> QED BY <1>4, <2>3, <2>4, <2>5, WritesGood
<1> QED BY <1>3, <1>4 DEF Change

LEMMA RemoveGood ==
    ASSUME Inv, NEW q \in Requests, Remove(q)
    PROVE  Good(q)
<1>1. Own(q) /\ Typed /\ Exclusive
  BY DEF Inv
<1>2. /\ user \in [Requests -> Users \cup {NoUser}] /\ todo \in [Requests -> SUBSET Users]
      /\ joins \in [Requests -> SUBSET Users] /\ leaves \in [Requests -> SUBSET Users]
      /\ excused \in BOOLEAN /\ participants \subseteq Users
  BY <1>1 DEF Typed, RequestsTyped, TablesTyped
<1>3. CASE RemoveReadsTarget(q)
  <2>1. op[q] \in Removing /\ pc[q] = "target"
    BY <1>1, <1>3 DEF RemoveReadsTarget, At, Own, Holding, OnPath, Removing
  <2>2. \/ Rollback(q)
        \/ /\ Goto(q, "delete")
           /\ UNCHANGED <<rows, participants, blocked, groupRow, request, ghosts>>
    BY <1>3 DEF RemoveReadsTarget
  <2> QED BY <1>2, <2>1, <2>2, RollbackGood, MovesGood DEF request, ghosts, Labels, Removing
<1>4. CASE DeleteMember(q)
  BY <1>4, ChangeGood DEF DeleteMember, Roles
<1>5. CASE DeleteParticipant(q)
  <2>1. op[q] \in Removing /\ pc[q] = "participants"
    BY <1>1, <1>5 DEF DeleteParticipant, At, Own, Holding, OnPath, Removing
  <2>2. PICK label \in {"oldest", "commit"} : Goto(q, label)
    BY <1>5 DEF DeleteParticipant
  <2>3. /\ UNCHANGED <<rows, groupRow, op>>
        /\ UNCHANGED <<participants, blocked, promotes, about, raced>>
        /\ UNCHANGED <<user, todo, joins, excused>>
    BY <1>5 DEF DeleteParticipant, ghosts
  <2>4. leaves' \in [Requests -> SUBSET Users]
    BY <1>2, <1>5 DEF DeleteParticipant
  <2> QED BY <1>2, <2>1, <2>2, <2>3, <2>4, MovesGood DEF Labels, Removing, RemovingPath
<1>6. CASE PickOldest(q)
  <2>1. op[q] \in Removing /\ pc[q] = "oldest"
    BY <1>1, <1>6 DEF PickOldest, At, Own, Holding, OnPath, Removing
  <2>2. /\ UNCHANGED <<rows, groupRow, op>>
        /\ UNCHANGED <<participants, blocked, promotes, about, raced>>
        /\ UNCHANGED <<todo, joins, leaves>>
    BY <1>6 DEF PickOldest
  <2>3. PICK label \in {"promote", "commit"} : Goto(q, label)
    BY <1>6 DEF PickOldest
  <2>4. excused' \in BOOLEAN
    BY <1>2, <1>6 DEF PickOldest
  <2>5. /\ user' \in [Requests -> Users \cup {NoUser}]
        /\ \A p \in Requests \ {q} : user'[p] = user[p]
    BY <1>2, <1>6 DEF PickOldest
  <2> QED BY <1>2, <2>1, <2>2, <2>3, <2>4, <2>5, MovesGood DEF Labels, Removing, RemovingPath
<1>7. CASE PromoteOldest(q)
  BY <1>7, ChangeGood DEF PromoteOldest, Roles
<1>8. CASE Commits(q)
  <2>1. op[q] \in Removing /\ Commit(q, {}, leaves[q])
    BY <1>1, <1>8 DEF Commits, At, Own, Holding, OnPath, Removing
  <2> QED BY <2>1, CommitGood DEF Removing
<1> QED BY <1>3, <1>4, <1>5, <1>6, <1>7, <1>8 DEF Remove

LEMMA UpdateGood ==
    ASSUME Inv, NEW q \in Requests, Update(q)
    PROVE  Good(q)
<1>1. Own(q) /\ Typed /\ Exclusive
  BY DEF Inv
<1>2. CASE UpdateRole(q)
  <2>1. op[q] = "setRole"
    BY <1>1, <1>2 DEF UpdateRole, At, Own, Holding, OnPath, RemovingPath
  <2>2. Ends(q) /\ UNCHANGED <<participants, blocked>>
    BY <1>2 DEF UpdateRole
  <2>3. PICK r \in {"admin", "member"} :
           /\ role' = [role EXCEPT ![user[q]] = IF @ = "none" THEN @ ELSE r]
           /\ excused' = (excused \/ (r = "member" /\ role[user[q]] = "admin"))
    BY <1>2 DEF UpdateRole
  <2>4. excused' \in BOOLEAN
    BY <1>1, <2>3 DEF Typed, TablesTyped
  <2>5. /\ role' \in [Users -> Roles]
        /\ \A u \in Users : role'[u] # "none" => role[u] # "none"
    BY <1>1, <2>3 DEF Typed, RowsTyped, Roles
  <2>6. ASSUME NEW p \in Requests \ {q}, NEW u \in Users, writer[u] = p
        PROVE  role'[u] = role[u]
    <3>1. u # user[q] \/ role[u] = "none"
      BY <1>2, <2>6, RowIsFree DEF UpdateRole
    <3> QED BY <1>1, <2>3, <3>1 DEF Typed, RowsTyped
  <2> QED BY <1>1, <2>1, <2>2, <2>4, <2>5, <2>6, EndsGood DEF Within, Typed, TablesTyped
<1>3. CASE UpdateSettings(q)
  <2> USE <1>3 DEF UpdateSettings, Goto, rows, ghosts
  <2>1. op[q] = "settings" /\ pc[q] = "limit"
    BY <1>1 DEF At, Own, Holding, OnPath, RemovingPath
  <2>2. forUpdate \in {q, NoRequest}
    <3>1. forUpdate \notin Requests \ {q}
      BY <2>1 DEF At, WaitsFor
    <3> QED BY <1>1, <3>1 DEF Typed, TablesTyped
  <2>3. /\ pc' = [pc EXCEPT ![q] = "done"] /\ op' = [op EXCEPT ![q] = "none"]
        /\ pc'[q] = "done" /\ op'[q] = "none"
        /\ \A p \in Requests \ {q} : pc'[p] = pc[p] /\ op'[p] = op[p]
    BY <1>1 DEF Typed, RequestsTyped
  <2>4. Typed'
    <3>1. RequestsTyped'
      BY <1>1, <2>3 DEF Typed, RequestsTyped, Labels, Handlers
    <3> QED BY <1>1, <3>1 DEF Typed, RowsTyped, TablesTyped
  <2>5. Own(q)'
    BY <1>1, <2>1, <2>3 DEF Own, Holding, OnPath, Written, RoomFor, Removing, RemovingPath
  <2> QED BY <1>1, <2>1, <2>2, <2>3, <2>4, <2>5
          DEF Good, KeepsRequests, KeepsRows, UnderLock, Within, Exclusive
<1> QED BY <1>2, <1>3 DEF Update

LEMMA StepGood ==
    ASSUME Inv, NEW q \in Requests,
           Start(q) \/ Join(q) \/ AddMembers(q) \/ Remove(q) \/ Update(q) \/ DeadlockAborts(q)
    PROVE  Good(q)
BY StartGood, JoinGood, AddGood, RemoveGood, UpdateGood, RollbackGood DEF DeadlockAborts

-----------------------------------------------------------------------------
(* The theorems.                                                           *)

LEMMA InitInv == Init => Inv
<1> SUFFICES ASSUME Init PROVE Inv
  OBVIOUS
<1> USE DEF Init
<1>1. PICK invited \in SUBSET (Users \ {Creator}) :
         /\ role = [u \in Users |-> IF u = Creator THEN "admin"
                                    ELSE IF u \in invited THEN "member" ELSE "none"]
         /\ participants = invited \cup {Creator}
  OBVIOUS
<1>2. RowsTyped
  BY <1>1 DEF RowsTyped, Roles
<1>3. TablesTyped
  BY <1>1, GroupsAssumption DEF TablesTyped
<1>4. RequestsTyped
  BY DEF RequestsTyped, Labels, Handlers
<1>5. ASSUME NEW q \in Requests PROVE Own(q)
  BY GroupsAssumption DEF Own, Holding, OnPath, Written, RoomFor, Removing
<1> QED BY <1>2, <1>3, <1>4, <1>5 DEF Inv, Typed, Exclusive

LEMMA StepKeepsInv ==
    ASSUME Inv, [Next]_vars
    PROVE  Inv' /\ \A q \in Requests : Within(q)
<1>1. CASE UNCHANGED vars
  <2> USE <1>1 DEF vars
  <2>1. Typed' /\ Exclusive'
    BY DEF Inv, Typed, RowsTyped, TablesTyped, RequestsTyped, Exclusive
  <2>2. ASSUME NEW q \in Requests
        PROVE  Own(q)'
    <3>1. Own(q)
      BY DEF Inv
    <3>2. Holding(q)' /\ RoomFor(q)'
      BY <3>1 DEF Own, Holding, OnPath, RoomFor, Seen, Sees
    <3>3. ASSUME NEW u \in Users
          PROVE  Written(q, u)'
      BY <3>1 DEF Own, Written
    <3> QED BY <3>2, <3>3 DEF Own
  <2> QED BY <2>1, <2>2 DEF Inv, Within
<1>2. ASSUME NEW q \in Requests,
             Start(q) \/ Join(q) \/ AddMembers(q) \/ Remove(q) \/ Update(q) \/ DeadlockAborts(q)
      PROVE  Inv' /\ \A p \in Requests : Within(p)
  BY <1>2, StepGood, GoodKeepsInv
<1> QED BY <1>1, <1>2 DEF Next, AllDone

LEMMA InvImpliesTypeOK == Inv => TypeOK
<1> SUFFICES ASSUME Inv PROVE TypeOK
  OBVIOUS
<1>1. Typed /\ Exclusive
  BY DEF Inv
<1>2. writer \in [Users -> Running \cup {NoRequest}]
  <2>1. ASSUME NEW u \in Users, writer[u] \in Requests
        PROVE  writer[u] \in Running
    <3>1. PICK q \in Requests : q = writer[u]
      BY <2>1
    <3>2. Written(q, u)
      BY DEF Inv, Own
    <3>3. pc[q] \notin {"idle", "done"}
      <4>1. CASE op[q] = "add"
        BY <4>1 DEF Inv, Own, Holding, OnPath, Removing
      <4>2. CASE op[q] # "add"
        BY <3>1, <3>2, <4>2 DEF Written, RemovingPath
      <4> QED BY <4>1, <4>2
    <3> QED BY <3>1, <3>3 DEF Running
  <2> QED BY <1>1, <2>1 DEF Typed, RowsTyped
<1>3. keyShare \subseteq Running
  BY <1>1 DEF Inv, Typed, TablesTyped, Own, Holding, Running
<1>4. forUpdate \in Running \cup {NoRequest}
  BY <1>1 DEF Inv, Typed, TablesTyped, Own, Holding, OnPath, Running, Removing
<1> QED BY <1>1, <1>2, <1>3, <1>4
        DEF TypeOK, Typed, RowsTyped, TablesTyped, RequestsTyped, Exclusive

\* Rows and requests keep their types, only a running transaction holds a row or a lock on
\* the groups row, and FOR UPDATE excludes the FOR KEY SHARE of the others.
THEOREM TypeCorrect == Spec => []TypeOK
<1>1. Init => Inv
  BY InitInv
<1>2. Inv /\ [Next]_vars => Inv'
  BY StepKeepsInv
<1> QED BY <1>1, <1>2, InvImpliesTypeOK, PTL DEF Spec

\* A handleAddMembers that adds somebody leaves the group within member_limit, whatever
\* other handlers do between its count and its commit.
THEOREM AddsStayInLimit == Spec => AddStaysInLimit
<1>1. Init => Inv
  BY InitInv
<1>2. Inv /\ [Next]_vars => Inv'
  BY StepKeepsInv
<1>3. Inv /\ [Next]_vars =>
         [\A q \in Requests :
             op[q] = "add" /\ op'[q] = "none" /\ ~(Members' \subseteq Members)
                => Cardinality(Members') <= limit']_vars
  BY StepKeepsInv DEF Within
<1> QED BY <1>1, <1>2, <1>3, PTL DEF Spec, AddStaysInLimit

-----------------------------------------------------------------------------
(* The two tables name the same users.  A request changes the membership   *)
(* of the users it is about only, and a user outside raced has one such    *)
(* request at a time: what that request has seen and written of the user   *)
(* is then what its commit finds.                                          *)

Solo == \A p, q \in Requests : p # q => about[p] \cap about[q] \subseteq raced

\* The users a request is about are those whose rows it goes on to insert or delete.
AboutIts(q) ==
    /\ op[q] \in {"none", "setRole", "settings"} => about[q] = {} /\ joins[q] = {} /\ leaves[q] = {}
    /\ op[q] = "join" => about[q] = {user[q]}
    /\ op[q] = "add" =>
          /\ todo[q] \cup joins[q] \subseteq about[q]
          /\ pc[q] \in {"insert", "participant"} => user[q] \in about[q]
    /\ op[q] \in Removing =>
          /\ leaves[q] \subseteq about[q]
          /\ pc[q] \in {"target", "delete", "participants"} => about[q] = {user[q]} /\ leaves[q] = {}

\* The users an add has inserted into group_members.
Inserted(q) == joins[q] \cup (IF pc[q] = "participant" THEN {user[q]} ELSE {})

JoinPairs(q) ==
    op[q] = "join" =>
        /\ pc[q] \in {"key", "participant"} => writer[user[q]] = q
        /\ \A u \in Users : writer[u] = q => u = user[q]

AddPairs(q) ==
    op[q] = "add" => \A u \in Users :
        /\ writer[u] = q => u \in Inserted(q)
        /\ u \in Inserted(q) \ raced => Sees(q, u) # "none"

RemovePairs(q) ==
    op[q] \in Removing => \A u \in Users :
        /\ u \notin about[q] /\ writer[u] = q => written[u] # "none"
        /\ u \in about[q] \ raced =>
              /\ pc[q] = "participants" => Sees(q, u) = "none"
              /\ pc[q] \in {"oldest", "promote", "commit"}
                    => (Sees(q, u) # "none" <=> u \in participants \ leaves[q])

Pairs(q) == AboutIts(q) /\ JoinPairs(q) /\ AddPairs(q) /\ RemovePairs(q)

PairInv == PairedUnlessRaced /\ Solo /\ \A q \in Requests : Pairs(q)

\* A step of q leaves the variables of the other requests alone.
Frame(q) ==
    \A p \in Requests \ {q} :
        /\ pc'[p] = pc[p] /\ op'[p] = op[p] /\ user'[p] = user[p] /\ todo'[p] = todo[p]
        /\ promotes'[p] = promotes[p] /\ joins'[p] = joins[p] /\ leaves'[p] = leaves[p]
        /\ about'[p] = about[p]

OnlyAbout(q) ==
    \A u \in Users \ about[q] :
        /\ role'[u] = "none" <=> role[u] = "none"
        /\ u \in participants' <=> u \in participants

\* What is proved of every step of q.
PairGood(q) ==
    /\ Frame(q) /\ OnlyAbout(q)
    /\ Pairs(q)' /\ Solo' /\ raced \subseteq raced'
    /\ \A u \in about[q] \ raced' : role'[u] # "none" <=> u \in participants'

LEMMA RollbackFrame ==
    ASSUME Inv, NEW q \in Requests, Ends(q)
    PROVE  Frame(q)
BY DEF Inv, Typed, RequestsTyped, Ends, Goto, Frame

LEMMA StepFrame ==
    ASSUME Inv, NEW q \in Requests,
           Start(q) \/ Join(q) \/ AddMembers(q) \/ Remove(q) \/ Update(q) \/ DeadlockAborts(q)
    PROVE  Frame(q)
<1>1. Typed
  BY DEF Inv
<1> USE DEF Frame, Goto, request
<1>2. ASSUME NEW handler, NEW label, NEW u, NEW S, Starts(q, handler, label, u, S),
             todo' = todo \/ todo' = [todo EXCEPT ![q] = S],
             promotes' = promotes \/ \E b : promotes' = [promotes EXCEPT ![q] = b]
      PROVE  Frame(q)
  BY <1>1, <1>2 DEF Typed, RequestsTyped, Starts
<1>3. CASE Start(q)
  BY <1>2, <1>3 DEF Start, StartJoin, StartAdd, StartRemove, StartLeave, StartBlock, StartSetRole,
                    StartSettings
<1>4. CASE Join(q)
  BY <1>1, <1>4, RollbackFrame
     DEF Join, JoinReadsBlocks, JoinReadsMembers, JoinInserts, JoinLocksKey, JoinCommits, Rollback,
         Commit, Typed, RequestsTyped
<1>5. CASE AddMembers(q)
  BY <1>1, <1>5, RollbackFrame
     DEF AddMembers, AddLocks, AddNext, AddInserts, AddParticipant, AddCommits, Commit, Typed,
         RequestsTyped
<1>6. CASE Remove(q)
  BY <1>1, <1>6, RollbackFrame
     DEF Remove, RemoveReadsTarget, DeleteMember, DeleteParticipant, PickOldest, PromoteOldest,
         Commits, Rollback, Commit, Typed, RequestsTyped
<1>7. CASE Update(q)
  BY <1>1, <1>7, RollbackFrame DEF Update, UpdateRole, UpdateSettings, Typed, RequestsTyped
<1> QED BY <1>3, <1>4, <1>5, <1>6, <1>7, RollbackFrame DEF DeadlockAborts, Rollback

\* What another request has seen and written of the users it is about stays true.
LEMMA PairsKept ==
    ASSUME Inv, PairInv, NEW q \in Requests, Good(q), PairGood(q)
    PROVE  PairInv'
<1>1. ASSUME NEW p \in Requests \ {q}
      PROVE  Pairs(p)'
  <2>1. /\ pc'[p] = pc[p] /\ op'[p] = op[p] /\ user'[p] = user[p] /\ todo'[p] = todo[p]
        /\ joins'[p] = joins[p] /\ leaves'[p] = leaves[p] /\ about'[p] = about[p]
    BY DEF PairGood, Frame
  <2>2. Pairs(p) /\ raced \subseteq raced'
    BY DEF PairInv, PairGood
  <2>3. ASSUME NEW u \in Users
        PROVE  /\ writer'[u] = p <=> writer[u] = p
               /\ writer[u] = p => role'[u] = role[u] /\ written'[u] = written[u]
    BY DEF Good, KeepsRows
  <2>4. ASSUME NEW u \in Users, u \in about[p] \ raced
        PROVE  /\ Sees(p, u)' = "none" <=> Sees(p, u) = "none"
               /\ u \in participants' <=> u \in participants
    <3>1. u \notin about[q]
      BY <2>4 DEF PairInv, Solo
    <3> QED BY <2>3, <3>1 DEF PairGood, OnlyAbout, Sees
  <2>5. AboutIts(p)'
    BY <2>1, <2>2 DEF Pairs, AboutIts
  <2>6. JoinPairs(p)'
    <3>1. op[p] = "join" => user[p] \in Users
      BY DEF Inv, Own, Holding
    <3> QED BY <2>1, <2>2, <2>3, <3>1 DEF Pairs, JoinPairs
  <2>7. AddPairs(p)'
    <3>1. op[p] = "add" => Inserted(p) \subseteq about[p]
      BY <2>2 DEF Pairs, AboutIts, Inserted
    <3>2. Inserted(p)' = Inserted(p)
      BY <2>1 DEF Inserted
    <3> QED BY <2>1, <2>2, <2>3, <2>4, <3>1, <3>2 DEF Pairs, AddPairs
  <2>8. RemovePairs(p)'
    BY <2>1, <2>2, <2>3, <2>4 DEF Pairs, RemovePairs
  <2> QED BY <2>5, <2>6, <2>7, <2>8 DEF Pairs
<1>2. ASSUME NEW u \in Users \ raced'
      PROVE  role'[u] # "none" <=> u \in participants'
  <2>1. u \notin raced
    BY DEF PairGood
  <2>2. role[u] # "none" <=> u \in participants
    BY <2>1 DEF PairInv, PairedUnlessRaced, Members
  <2> QED BY <2>2 DEF PairGood, OnlyAbout
<1> QED BY <1>1, <1>2 DEF PairInv, PairGood, PairedUnlessRaced, Members

-----------------------------------------------------------------------------
(* The steps by what they do to members and participants.                  *)

\* A statement before the commit.
LEMMA StatementPairs ==
    ASSUME Inv, PairInv, NEW q \in Requests, Frame(q), Pairs(q)',
           UNCHANGED <<role, participants, about, raced>>
    PROVE  PairGood(q)
<1>1. about[q] \subseteq Users
  BY DEF Inv, Typed, RequestsTyped
<1>2. \A u \in about[q] \ raced : role[u] # "none" <=> u \in participants
  BY <1>1 DEF PairInv, PairedUnlessRaced, Members
<1>3. Solo'
  BY DEF PairInv, Solo
<1> QED BY <1>2, <1>3 DEF PairGood, OnlyAbout

\* The end of a transaction that has changed the members it is about at most.
LEMMA EndPairs ==
    ASSUME Inv, PairInv, NEW q \in Requests, Ends(q), OnlyAbout(q),
           \A u \in about[q] \ raced : role'[u] # "none" <=> u \in participants'
    PROVE  PairGood(q)
<1>1. /\ about' = [about EXCEPT ![q] = {}] /\ op' = [op EXCEPT ![q] = "none"] /\ raced' = raced
      /\ joins' = [joins EXCEPT ![q] = {}] /\ leaves' = [leaves EXCEPT ![q] = {}]
  BY DEF Ends
<1>2. /\ about \in [Requests -> SUBSET Users] /\ op \in [Requests -> Handlers]
      /\ joins \in [Requests -> SUBSET Users] /\ leaves \in [Requests -> SUBSET Users]
  BY DEF Inv, Typed, RequestsTyped
<1>3. Solo'
  BY <1>1, <1>2 DEF PairInv, Solo
<1>4. Pairs(q)'
  BY <1>1, <1>2 DEF Pairs, AboutIts, JoinPairs, AddPairs, RemovePairs, Removing
<1> QED BY <1>1, <1>3, <1>4, RollbackFrame DEF PairGood

LEMMA RollbackPairs ==
    ASSUME Inv, PairInv, NEW q \in Requests, Rollback(q)
    PROVE  PairGood(q)
<1>1. Ends(q) /\ UNCHANGED <<role, participants>>
  BY DEF Rollback
<1>2. about[q] \subseteq Users
  BY DEF Inv, Typed, RequestsTyped
<1>3. \A u \in about[q] \ raced : role[u] # "none" <=> u \in participants
  BY <1>2 DEF PairInv, PairedUnlessRaced, Members
<1> QED BY <1>1, <1>3, EndPairs DEF OnlyAbout

\* A commit makes both tables say the same of the users it is about.
LEMMA CommitPairs ==
    ASSUME Inv, PairInv, NEW q \in Requests, NEW in, NEW out, Commit(q, in, out),
           in \cup out \subseteq about[q],
           \A u \in Users \ about[q] : Sees(q, u) = "none" <=> role[u] = "none",
           \A u \in about[q] \ raced : Sees(q, u) # "none" <=> u \in (participants \cup in) \ out
    PROVE  PairGood(q)
<1>1. Ends(q) /\ participants' = (participants \cup in) \ out /\ \A u \in Users : role'[u] = Sees(q, u)
  BY DEF Commit
<1>2. about[q] \subseteq Users
  BY DEF Inv, Typed, RequestsTyped
<1> QED BY <1>1, <1>2, EndPairs DEF OnlyAbout

\* A handler that starts has written nothing.
LEMMA StartsPairs ==
    ASSUME Inv, PairInv, NEW q \in Requests, NEW handler, NEW label, NEW u, NEW S \in SUBSET Users,
           Starts(q, handler, label, u, S), Frame(q),
           \/ handler = "join" /\ S = {u} /\ label = "blocks"
           \/ handler = "add" /\ label = "lock" /\ todo'[q] = S
           \/ handler \in {"setRole", "settings"} /\ S = {}
           \/ handler \in Removing /\ S = {u} /\ label \in {"target", "delete"}
           \/ handler \in Removing /\ S = {u} /\ label = "commit" /\ role[u] = "none"
    PROVE  PairGood(q)
<1> USE DEF Starts, Goto, rows
<1>1. /\ about \in [Requests -> SUBSET Users] /\ pc \in [Requests -> Labels]
      /\ op \in [Requests -> Handlers] /\ user \in [Requests -> Users \cup {NoUser}]
  BY DEF Inv, Typed, RequestsTyped
<1>2. op[q] = "none"
  BY DEF Inv, Own, Holding, OnPath, RemovingPath
<1>3. /\ about[q] = {} /\ joins[q] = {} /\ leaves[q] = {}
      /\ \A v \in Users : writer[v] # q
  BY <1>2 DEF Inv, Own, Written, PairInv, Pairs, AboutIts, Removing
<1>4. /\ about'[q] = S /\ pc'[q] = label /\ op'[q] = handler /\ user'[q] = u
      /\ joins' = joins /\ leaves' = leaves /\ writer' = writer /\ role' = role
      /\ participants' = participants
  BY <1>1
<1>5. \A p \in Requests \ {q} : about'[p] = about[p]
  BY DEF Frame
<1>6. raced \subseteq raced' /\ \A p \in Requests \ {q} : about[p] \cap S \subseteq raced'
  <2>1. ASSUME NEW p \in Requests \ {q}, about[p] # {}
        PROVE  p \in Running
    <3>1. op[p] # "none"
      BY <2>1 DEF PairInv, Pairs, AboutIts
    <3> QED BY <3>1 DEF Running, Inv, Own, Holding, OnPath, RemovingPath
  <2> QED BY <2>1
<1>7. Solo'
  BY <1>4, <1>5, <1>6 DEF Solo, PairInv
<1>8. Pairs(q)'
  <2>1. ASSUME u \in Users \ raced', role[u] = "none"
        PROVE  u \notin participants
    BY <1>6, <2>1 DEF PairInv, PairedUnlessRaced, Members
  <2> QED BY <1>3, <1>4, <2>1
          DEF Pairs, AboutIts, JoinPairs, AddPairs, RemovePairs, Inserted, Sees, Removing
<1> QED BY <1>3, <1>4, <1>6, <1>7, <1>8 DEF PairGood, OnlyAbout

LEMMA StartPairs ==
    ASSUME Inv, PairInv, NEW q \in Requests, Start(q)
    PROVE  PairGood(q)
<1> USE DEF Removing
<1>1. Frame(q) /\ todo \in [Requests -> SUBSET Users]
  BY StepFrame DEF Inv, Typed, RequestsTyped
<1>2. ASSUME NEW u \in Users, StartJoin(q, u) PROVE PairGood(q)
  BY <1>1, <1>2, StartsPairs DEF StartJoin
<1>3. ASSUME NEW u \in Users, StartLeave(q, u) PROVE PairGood(q)
  BY <1>1, <1>3, StartsPairs DEF StartLeave
<1>4. ASSUME NEW u \in Users, StartBlock(q, u) PROVE PairGood(q)
  <2>1. CASE role[u] = "none"
    BY <1>1, <1>4, <2>1, StartsPairs DEF StartBlock
  <2>2. CASE role[u] # "none"
    BY <1>1, <1>4, <2>2, StartsPairs DEF StartBlock
  <2> QED BY <2>1, <2>2
<1>5. ASSUME NEW u \in Users, NEW caller \in Users, StartRemove(q, caller, u) PROVE PairGood(q)
  <2>1. CASE caller = u
    BY <1>1, <1>5, <2>1, StartsPairs DEF StartRemove
  <2>2. CASE caller # u
    BY <1>1, <1>5, <2>2, StartsPairs DEF StartRemove
  <2> QED BY <2>1, <2>2
<1>6. ASSUME NEW u \in Users, StartSetRole(q, u) PROVE PairGood(q)
  BY <1>1, <1>6, StartsPairs DEF StartSetRole
<1>7. ASSUME NEW S \in SUBSET Users, StartAdd(q, S) PROVE PairGood(q)
  BY <1>1, <1>7, StartsPairs DEF StartAdd
<1>8. ASSUME StartSettings(q) PROVE PairGood(q)
  BY <1>1, <1>8, StartsPairs DEF StartSettings
<1> QED BY <1>2, <1>3, <1>4, <1>5, <1>6, <1>7, <1>8 DEF Start

LEMMA JoinPairsGood ==
    ASSUME Inv, PairInv, NEW q \in Requests, Join(q)
    PROVE  PairGood(q)
<1>1. Frame(q) /\ Own(q) /\ Typed /\ Pairs(q)
  BY StepFrame DEF Inv, PairInv
<1>2. pc \in [Requests -> Labels] /\ writer \in [Users -> Requests \cup {NoRequest}]
  BY <1>1 DEF Typed, RequestsTyped, RowsTyped
<1>3. ASSUME NEW label, Goto(q, label), label # "insert" => label \in {"members", "participant"},
             UNCHANGED <<rows, participants, request, ghosts>>, op[q] = "join",
             label = "participant" => pc[q] = "key"
      PROVE  PairGood(q)
  <2> USE <1>3 DEF Goto, rows, request, ghosts
  <2>1. pc'[q] = label
    BY <1>2
  <2>2. Pairs(q)'
    BY <1>1, <2>1 DEF Pairs, AboutIts, JoinPairs, AddPairs, RemovePairs, Removing
  <2> QED BY <1>1, <2>2, StatementPairs
<1>4. CASE JoinReadsBlocks(q)
  <2>1. op[q] = "join"
    BY <1>1, <1>4 DEF JoinReadsBlocks, At, Own, Holding, OnPath, RemovingPath
  <2> QED BY <1>3, <1>4, <2>1, RollbackPairs DEF JoinReadsBlocks
<1>5. CASE JoinReadsMembers(q)
  <2>1. op[q] = "join"
    BY <1>1, <1>5 DEF JoinReadsMembers, At, Own, Holding, OnPath, RemovingPath
  <2> QED BY <1>3, <1>5, <2>1, RollbackPairs DEF JoinReadsMembers
<1>6. CASE JoinInserts(q)
  <2>1. CASE Rollback(q)
    BY <2>1, RollbackPairs
  <2>2. CASE /\ Write(q, "member") /\ Goto(q, "key")
             /\ UNCHANGED <<participants, blocked, groupRow, request, ghosts>>
    <3> USE <2>2 DEF Write, Goto, request, ghosts
    <3>1. pc'[q] = "key" /\ op[q] = "join" /\ user[q] \in Users
      BY <1>1, <1>2, <1>6 DEF JoinInserts, Own, Holding
    <3>2. \A u \in Users : writer'[u] = IF u = user[q] THEN q ELSE writer[u]
      BY <1>2
    <3>3. Pairs(q)'
      BY <1>1, <3>1, <3>2 DEF Pairs, AboutIts, JoinPairs, AddPairs, RemovePairs, Removing
    <3> QED BY <1>1, <3>3, StatementPairs
  <2> QED BY <1>6, <2>1, <2>2 DEF JoinInserts
<1>7. CASE JoinLocksKey(q)
  <2>1. op[q] = "join" /\ pc[q] = "key"
    BY <1>1, <1>7 DEF JoinLocksKey, At, Own, Holding, OnPath, RemovingPath
  <2> QED BY <1>3, <1>7, <2>1 DEF JoinLocksKey
<1>8. CASE JoinCommits(q)
  <2>1. /\ op[q] = "join" /\ pc[q] = "participant" /\ user[q] \in Users
        /\ Commit(q, {user[q]}, {}) /\ about[q] = {user[q]}
    BY <1>1, <1>8 DEF JoinCommits, At, Own, Holding, Pairs, AboutIts
  <2>2. writer[user[q]] = q /\ \A u \in Users : writer[u] = q => u = user[q]
    BY <1>1, <2>1 DEF Pairs, JoinPairs
  <2>3. written[user[q]] = "member"
    BY <1>1, <2>1, <2>2 DEF Own, Written, Removing
  <2> QED BY <2>1, <2>2, <2>3, CommitPairs DEF Sees
<1> QED BY <1>4, <1>5, <1>6, <1>7, <1>8 DEF Join

LEMMA AddPairsGood ==
    ASSUME Inv, PairInv, NEW q \in Requests, AddMembers(q)
    PROVE  PairGood(q)
<1>1. Frame(q) /\ Own(q) /\ Typed /\ Pairs(q)
  BY StepFrame DEF Inv, PairInv
<1>2. /\ pc \in [Requests -> Labels] /\ user \in [Requests -> Users \cup {NoUser}]
      /\ todo \in [Requests -> SUBSET Users] /\ joins \in [Requests -> SUBSET Users]
      /\ about \in [Requests -> SUBSET Users]
      /\ writer \in [Users -> Requests \cup {NoRequest}] /\ written \in [Users -> Roles]
  BY <1>1 DEF Typed, RequestsTyped, RowsTyped
<1>3. op[q] = "add"
  BY <1>1 DEF AddMembers, AddLocks, AddNext, AddInserts, AddParticipant, AddCommits, At, Own, Holding,
              OnPath, RemovingPath
<1>4. ASSUME UNCHANGED <<role, participants, about, raced, op>>, AboutIts(q)', AddPairs(q)'
      PROVE  PairGood(q)
  BY <1>1, <1>3, <1>4, StatementPairs DEF Pairs, JoinPairs, RemovePairs, Removing
<1>5. CASE AddLocks(q)
  <2> USE <1>5 DEF AddLocks, Goto, rows, request, ghosts
  <2>1. pc[q] = "lock" /\ pc'[q] = "next"
    BY <1>2 DEF At
  <2> QED BY <1>1, <1>3, <1>4, <2>1 DEF Pairs, AboutIts, AddPairs, Inserted, Sees, Removing
<1>6. CASE AddNext(q)
  <2> USE <1>6 DEF AddNext, Goto, rows, ghosts
  <2>1. PICK u \in todo[q] :
           /\ todo' = [todo EXCEPT ![q] = @ \ {u}]
           /\ \/ UNCHANGED <<pc, user>>
              \/ user' = [user EXCEPT ![q] = u] /\ pc' = [pc EXCEPT ![q] = "insert"]
    OBVIOUS
  <2>2. /\ todo'[q] \subseteq todo[q] /\ u \in about[q]
        /\ pc[q] = "next" /\ (pc'[q] = "next" \/ (pc'[q] = "insert" /\ user'[q] = u))
    BY <1>1, <1>2, <1>3, <2>1 DEF At, Pairs, AboutIts
  <2>3. AboutIts(q)'
    BY <1>1, <1>3, <2>2 DEF Pairs, AboutIts, Removing
  <2>4. AddPairs(q)'
    BY <1>1, <1>3, <2>2 DEF Pairs, AddPairs, Inserted, Sees
  <2> QED BY <1>4, <2>3, <2>4
<1>7. CASE AddInserts(q)
  <2> USE <1>7 DEF AddInserts, Goto, request, ghosts
  <2>1. pc[q] = "insert" /\ pc'[q] = "participant" /\ user[q] \in about[q] /\ user[q] \in Users
    BY <1>1, <1>2, <1>3 DEF At, Pairs, AboutIts
  <2>2. AboutIts(q)'
    BY <1>1, <1>3, <2>1 DEF Pairs, AboutIts, Removing
  <2>3. Inserted(q)' = Inserted(q) \cup {user[q]}
    BY <2>1 DEF Inserted
  <2>4. CASE Sees(q, user[q]) = "none" /\ Write(q, "member")
    <3>1. ASSUME NEW u \in Users
          PROVE  /\ writer'[u] = IF u = user[q] THEN q ELSE writer[u]
                 /\ written'[u] = IF u = user[q] THEN "member" ELSE written[u]
                 /\ role'[u] = role[u]
      BY <1>2, <2>4 DEF Write
    <3>2. AddPairs(q)'
      BY <1>1, <1>3, <2>3, <3>1 DEF Pairs, AddPairs, Sees
    <3> QED BY <1>4, <2>2, <2>4, <3>2 DEF Write
  <2>5. CASE Sees(q, user[q]) # "none" /\ UNCHANGED rows
    <3>1. AddPairs(q)'
      BY <1>1, <1>3, <2>3, <2>5 DEF Pairs, AddPairs, Sees, rows
    <3> QED BY <1>4, <2>2, <2>5, <3>1 DEF rows
  <2> QED BY <2>4, <2>5
<1>8. CASE AddParticipant(q)
  <2> USE <1>8 DEF AddParticipant, Goto, rows, ghosts
  <2>1. /\ pc[q] = "participant" /\ pc'[q] = "next" /\ user[q] \in about[q]
        /\ joins'[q] = joins[q] \cup {user[q]}
    BY <1>1, <1>2, <1>3 DEF At, Pairs, AboutIts
  <2>2. AboutIts(q)'
    BY <1>1, <1>3, <2>1 DEF Pairs, AboutIts, Removing
  <2>3. Inserted(q)' = Inserted(q)
    BY <2>1 DEF Inserted
  <2>4. AddPairs(q)'
    BY <1>1, <1>3, <2>3 DEF Pairs, AddPairs, Sees
  <2> QED BY <1>4, <2>2, <2>4
<1>9. CASE AddCommits(q)
  <2>1. pc[q] = "next" /\ Commit(q, joins[q], {}) /\ joins[q] \subseteq about[q] /\ about[q] \subseteq Users
    BY <1>1, <1>2, <1>3, <1>9 DEF AddCommits, At, Pairs, AboutIts
  <2>2. \A u \in Users : writer[u] = q => u \in joins[q]
    BY <1>1, <1>3, <2>1 DEF Pairs, AddPairs, Inserted
  <2>3. \A u \in joins[q] \ raced : Sees(q, u) # "none"
    BY <1>1, <1>3, <2>1 DEF Pairs, AddPairs, Inserted
  <2>4. \A u \in Users \ joins[q] : Sees(q, u) = role[u]
    BY <2>2 DEF Sees
  <2>5. \A u \in about[q] \ raced : role[u] # "none" <=> u \in participants
    BY <2>1 DEF PairInv, PairedUnlessRaced, Members
  <2> QED BY <2>1, <2>3, <2>4, <2>5, CommitPairs
<1> QED BY <1>5, <1>6, <1>7, <1>8, <1>9 DEF AddMembers

LEMMA RemovePairsGood ==
    ASSUME Inv, PairInv, NEW q \in Requests, Remove(q)
    PROVE  PairGood(q)
<1>1. Frame(q) /\ Own(q) /\ Typed /\ Pairs(q)
  BY StepFrame DEF Inv, PairInv
<1>2. /\ pc \in [Requests -> Labels] /\ user \in [Requests -> Users \cup {NoUser}]
      /\ leaves \in [Requests -> SUBSET Users] /\ about \in [Requests -> SUBSET Users]
      /\ writer \in [Users -> Requests \cup {NoRequest}] /\ written \in [Users -> Roles]
  BY <1>1 DEF Typed, RequestsTyped, RowsTyped
<1>3. op[q] \in Removing
  BY <1>1 DEF Remove, RemoveReadsTarget, DeleteMember, DeleteParticipant, PickOldest, PromoteOldest,
              Commits, At, Own, Holding, OnPath, Removing
<1>4. ASSUME UNCHANGED <<role, participants, about, raced, op>>, AboutIts(q)', RemovePairs(q)'
      PROVE  PairGood(q)
  BY <1>1, <1>3, <1>4, StatementPairs DEF Pairs, JoinPairs, AddPairs, Removing
<1>5. CASE RemoveReadsTarget(q)
  <2>1. CASE Rollback(q)
    BY <2>1, RollbackPairs
  <2>2. CASE /\ Goto(q, "delete")
             /\ UNCHANGED <<rows, participants, blocked, groupRow, request, ghosts>>
    <3> USE <2>2 DEF Goto, rows, request, ghosts
    <3>1. pc[q] = "target" /\ pc'[q] = "delete"
      BY <1>2, <1>5 DEF RemoveReadsTarget, At
    <3> QED BY <1>1, <1>3, <1>4, <3>1 DEF Pairs, AboutIts, RemovePairs, Removing
  <2> QED BY <1>5, <2>1, <2>2 DEF RemoveReadsTarget
<1>6. CASE DeleteMember(q)
  <2> USE <1>6 DEF DeleteMember, Goto, request, ghosts
  <2>1. /\ pc[q] = "delete" /\ pc'[q] = "participants" /\ about[q] = {user[q]} /\ user[q] \in Users
        /\ leaves[q] = {}
    BY <1>1, <1>2, <1>3 DEF At, Pairs, AboutIts
  <2>2. \A u \in Users : writer[u] # q
    BY <1>1, <1>3, <2>1 DEF Own, Written, Removing
  <2>3. AboutIts(q)'
    BY <1>3, <2>1 DEF AboutIts, Removing
  <2>4. CASE Sees(q, user[q]) = "none" /\ UNCHANGED rows
    <3>1. RemovePairs(q)'
      BY <2>1, <2>2, <2>4 DEF RemovePairs, Sees, rows
    <3> QED BY <1>4, <2>3, <2>4, <3>1 DEF rows
  <2>5. CASE Write(q, "none")
    <3>1. ASSUME NEW u \in Users
          PROVE  /\ writer'[u] = IF u = user[q] THEN q ELSE writer[u]
                 /\ written'[u] = IF u = user[q] THEN "none" ELSE written[u]
                 /\ role'[u] = role[u]
      BY <1>2, <2>5 DEF Write
    <3>2. RemovePairs(q)'
      BY <2>1, <2>2, <3>1 DEF RemovePairs, Sees
    <3> QED BY <1>4, <2>3, <2>5, <3>2 DEF Write
  <2> QED BY <2>4, <2>5 DEF Change
<1>7. CASE DeleteParticipant(q)
  <2> USE <1>7 DEF DeleteParticipant, Goto, rows, ghosts
  <2>1. /\ pc[q] = "participants" /\ pc'[q] \in {"oldest", "commit"} /\ about[q] = {user[q]}
        /\ leaves'[q] = {user[q]} \cap participants
    BY <1>1, <1>2, <1>3 DEF At, Pairs, AboutIts
  <2>2. AboutIts(q)'
    BY <1>3, <2>1 DEF AboutIts, Removing
  <2>3. RemovePairs(q)'
    BY <1>1, <1>3, <2>1 DEF Pairs, RemovePairs, Sees
  <2> QED BY <1>4, <2>2, <2>3
<1>8. CASE PickOldest(q)
  <2> USE <1>8 DEF PickOldest, Goto, rows
  <2>1. pc[q] = "oldest" /\ pc'[q] \in {"promote", "commit"}
    BY <1>2 DEF At
  <2>2. AboutIts(q)'
    BY <1>1, <1>3, <2>1 DEF Pairs, AboutIts, Removing
  <2>3. RemovePairs(q)'
    BY <1>1, <1>3, <2>1 DEF Pairs, RemovePairs, Sees
  <2> QED BY <1>4, <2>2, <2>3
<1>9. CASE PromoteOldest(q)
  <2> USE <1>9 DEF PromoteOldest, Goto, request, ghosts
  <2>1. pc[q] = "promote" /\ pc'[q] = "commit"
    BY <1>2 DEF At
  <2>2. AboutIts(q)'
    BY <1>1, <1>3, <2>1 DEF Pairs, AboutIts, Removing
  <2>3. CASE UNCHANGED rows
    <3>1. RemovePairs(q)'
      BY <1>1, <1>3, <2>1, <2>3 DEF Pairs, RemovePairs, Sees, rows
    <3> QED BY <1>4, <2>2, <2>3, <3>1 DEF rows
  <2>4. CASE Sees(q, user[q]) # "none" /\ Write(q, "admin")
    <3>1. ASSUME NEW u \in Users
          PROVE  /\ writer'[u] = IF u = user[q] THEN q ELSE writer[u]
                 /\ written'[u] = IF u = user[q] THEN "admin" ELSE written[u]
                 /\ role'[u] = role[u]
      BY <1>2, <2>4 DEF Write
    <3>2. RemovePairs(q)'
      BY <1>1, <1>3, <2>1, <2>4, <3>1 DEF Pairs, RemovePairs, Sees
    <3> QED BY <1>4, <2>2, <2>4, <3>2 DEF Write
  <2> QED BY <2>3, <2>4 DEF Change
<1>10. CASE Commits(q)
  <2>1. pc[q] = "commit" /\ Commit(q, {}, leaves[q]) /\ leaves[q] \subseteq about[q] /\ about[q] \subseteq Users
    BY <1>1, <1>2, <1>3, <1>10 DEF Commits, At, Pairs, AboutIts
  <2>2. \A u \in Users \ about[q] : Sees(q, u) = "none" <=> role[u] = "none"
    BY <1>1, <1>3, <2>1 DEF Pairs, RemovePairs, Sees, Own, Written, Removing
  <2>3. \A u \in about[q] \ raced : Sees(q, u) # "none" <=> u \in participants \ leaves[q]
    BY <1>1, <1>3, <2>1 DEF Pairs, RemovePairs
  <2> QED BY <2>1, <2>2, <2>3, CommitPairs
<1> QED BY <1>5, <1>6, <1>7, <1>8, <1>9, <1>10 DEF Remove

LEMMA UpdatePairsGood ==
    ASSUME Inv, PairInv, NEW q \in Requests, Update(q)
    PROVE  PairGood(q)
<1>1. Frame(q) /\ Own(q) /\ Typed /\ Pairs(q)
  BY StepFrame DEF Inv, PairInv
<1>2. CASE UpdateRole(q)
  <2>1. Ends(q) /\ UNCHANGED participants
    BY <1>2 DEF UpdateRole
  <2>2. about[q] = {}
    BY <1>1, <1>2 DEF UpdateRole, At, Own, Holding, OnPath, RemovingPath, Pairs, AboutIts
  <2>3. OnlyAbout(q)
    BY <1>1, <1>2 DEF UpdateRole, OnlyAbout, Typed, RowsTyped
  <2> QED BY <2>1, <2>2, <2>3, EndPairs
<1>3. CASE UpdateSettings(q)
  <2> USE <1>3 DEF UpdateSettings, rows, ghosts
  <2>1. about[q] = {} /\ joins[q] = {} /\ leaves[q] = {} /\ op'[q] = "none"
    BY <1>1 DEF At, Own, Holding, OnPath, RemovingPath, Pairs, AboutIts, Typed, RequestsTyped
  <2>2. Pairs(q)'
    BY <2>1 DEF Pairs, AboutIts, JoinPairs, AddPairs, RemovePairs, Removing
  <2> QED BY <1>1, <2>2, StatementPairs
<1> QED BY <1>2, <1>3 DEF Update

LEMMA InitPairInv == Init => PairInv
<1> SUFFICES ASSUME Init PROVE PairInv
  OBVIOUS
<1>1. PairedUnlessRaced
  <2>1. PICK invited \in SUBSET (Users \ {Creator}) :
           /\ role = [u \in Users |-> IF u = Creator THEN "admin"
                                      ELSE IF u \in invited THEN "member" ELSE "none"]
           /\ participants = invited \cup {Creator}
    BY DEF Init
  <2> QED BY <2>1 DEF PairedUnlessRaced, Members
<1>2. Solo /\ \A q \in Requests : Pairs(q)
  BY DEF Init, Solo, Pairs, AboutIts, JoinPairs, AddPairs, RemovePairs, Removing
<1> QED BY <1>1, <1>2 DEF PairInv

LEMMA StepKeepsPairs == Inv /\ PairInv /\ [Next]_vars => PairInv'
<1> SUFFICES ASSUME Inv, PairInv, [Next]_vars PROVE PairInv'
  OBVIOUS
<1>1. CASE UNCHANGED vars
  <2> USE <1>1 DEF vars
  <2>1. PairedUnlessRaced' /\ Solo'
    BY DEF PairInv, PairedUnlessRaced, Members, Solo
  <2>2. ASSUME NEW q \in Requests
        PROVE  Pairs(q)'
    <3>1. Pairs(q)
      BY DEF PairInv
    <3> QED BY <3>1 DEF Pairs, AboutIts, JoinPairs, AddPairs, RemovePairs, Inserted, Sees
  <2> QED BY <2>1, <2>2 DEF PairInv
<1>2. ASSUME NEW q \in Requests,
             Start(q) \/ Join(q) \/ AddMembers(q) \/ Remove(q) \/ Update(q) \/ DeadlockAborts(q)
      PROVE  PairInv'
  BY <1>2, StepGood, StartPairs, JoinPairsGood, AddPairsGood, RemovePairsGood, UpdatePairsGood,
     RollbackPairs, PairsKept DEF DeadlockAborts
<1> QED BY <1>1, <1>2 DEF Next, AllDone

\* For any users and requests, whatever is interleaved or aborted: group_members and
\* conversation_participants name the same users, but for one whom two requests were
\* about at the same time.
THEOREM TablesPaired == Spec => []PairedUnlessRaced
<1>1. Init => Inv /\ PairInv
  BY InitInv, InitPairInv
<1>2. Inv /\ PairInv /\ [Next]_vars => Inv' /\ PairInv'
  BY StepKeepsInv, StepKeepsPairs
<1>3. PairInv => PairedUnlessRaced
  BY DEF PairInv
<1> QED BY <1>1, <1>2, <1>3, PTL DEF Spec

-----------------------------------------------------------------------------
(* An admin stays.  Until two requests that take members out have          *)
(* overlapped there is one such request at a time, and it leaves an admin: *)
(* one it is not about, or the member it promotes.                         *)

Alone == \A p, q \in Requests : p # q /\ op[p] \in Removing /\ op[q] \in Removing => excused

LeavesAdmin(q) ==
    IF op[q] \in Removing
    THEN /\ pc[q] \in {"oldest", "promote"} => promotes[q]
         /\ ~promotes[q] =>
               /\ \A u \in Users : writer[u] = q => u \in about[q]
               /\ Admins \ about[q] # {} \/ excused
         /\ promotes[q] =>
               /\ pc[q] = "promote" => user[q] \in Users /\ (Sees(q, user[q]) # "none" \/ excused)
               /\ pc[q] = "commit" => (\E u \in Users : writer[u] = q /\ written[u] = "admin") \/ excused
    ELSE ~promotes[q]

AdminInv == (Admins # {} \/ excused) /\ Alone /\ \A q \in Requests : LeavesAdmin(q)

\* A step of a handler that takes nobody out takes no admin and no member away, or is excused.
Spares(q) ==
    excused' \/ op[q] \in Removing
    \/ \A u \in Users : (role[u] # "none" => role'[u] # "none") /\ (u \in Admins => role'[u] = "admin")

\* What is proved of every step of q.
AdminGood(q) ==
    /\ excused => excused'
    /\ Admins' # {} \/ excused'
    /\ Spares(q)
    /\ Alone' /\ LeavesAdmin(q)'

LEMMA AdminsKept ==
    ASSUME Inv, AdminInv, NEW q \in Requests, Good(q), Frame(q), AdminGood(q)
    PROVE  AdminInv'
<1>1. ASSUME NEW p \in Requests \ {q}
      PROVE  LeavesAdmin(p)'
  <2>1. /\ pc'[p] = pc[p] /\ op'[p] = op[p] /\ user'[p] = user[p] /\ promotes'[p] = promotes[p]
        /\ about'[p] = about[p]
    BY DEF Frame
  <2>2. LeavesAdmin(p) /\ (excused => excused')
    BY DEF AdminInv, AdminGood
  <2>3. ASSUME NEW u \in Users
        PROVE  /\ writer'[u] = p <=> writer[u] = p
               /\ writer[u] = p => role'[u] = role[u] /\ written'[u] = written[u]
    BY DEF Good, KeepsRows
  <2>4. ASSUME op[p] \in Removing, ~excused'
        PROVE  \A u \in Users : (role[u] # "none" => role'[u] # "none")
                                /\ (u \in Admins => role'[u] = "admin")
    <3>1. op[q] \notin Removing
      BY <2>2, <2>4 DEF AdminInv, Alone
    <3> QED BY <2>4, <3>1 DEF AdminGood, Spares
  <2>5. ASSUME op[p] \in Removing, Admins \ about[p] # {}
        PROVE  Admins' \ about[p] # {} \/ excused'
    BY <2>4, <2>5 DEF Admins
  <2>6. ASSUME op[p] \in Removing, NEW u \in Users, Sees(p, u) # "none"
        PROVE  Sees(p, u)' # "none" \/ excused'
    BY <2>3, <2>4, <2>6 DEF Sees
  <2> QED BY <2>1, <2>2, <2>3, <2>5, <2>6 DEF LeavesAdmin
<1> QED BY <1>1 DEF AdminInv, AdminGood

\* A request that takes nobody out keeps the admins there are.
LEMMA SparingAdmin ==
    ASSUME Inv, AdminInv, NEW q \in Requests, op[q] \notin Removing, op'[q] \notin Removing,
           \A p \in Requests \ {q} : op'[p] = op[p],
           ~promotes'[q], excused => excused', Spares(q)
    PROVE  AdminGood(q)
<1>1. Alone'
  BY DEF AdminInv, Alone
<1>2. Admins' # {} \/ excused'
  BY DEF AdminInv, Spares, Admins
<1> QED BY <1>1, <1>2 DEF AdminGood, LeavesAdmin

\* A commit of an insert changes no row that was there.
LEMMA EndAdmin ==
    ASSUME Inv, AdminInv, NEW q \in Requests, Ends(q), excused => excused', Spares(q),
           Admins' # {} \/ excused'
    PROVE  AdminGood(q)
<1>1. Frame(q) /\ op'[q] = "none" /\ ~promotes'[q]
  BY RollbackFrame DEF Ends, Inv, Typed, RequestsTyped
<1>2. Alone'
  BY <1>1 DEF AdminInv, Alone, Frame, Removing
<1> QED BY <1>1, <1>2 DEF AdminGood, LeavesAdmin, Removing

LEMMA RollbackAdmin ==
    ASSUME Inv, AdminInv, NEW q \in Requests, Rollback(q)
    PROVE  AdminGood(q)
BY EndAdmin DEF Rollback, Spares, Admins, AdminInv

LEMMA InsertCommitAdmin ==
    ASSUME Inv, AdminInv, NEW q \in Requests, NEW in, NEW out, Commit(q, in, out),
           op[q] \in {"join", "add"}
    PROVE  AdminGood(q)
<1>1. \A u \in Users : writer[u] = q => role[u] = "none"
  BY DEF Inv, Own, Written, Removing
<1>2. Spares(q)
  BY <1>1 DEF Commit, Spares, Sees, Admins
<1>3. Admins' # {} \/ excused'
  BY <1>1 DEF Commit, Sees, Admins, AdminInv
<1> QED BY <1>2, <1>3, EndAdmin DEF Commit

\* A handler that starts to take out u: another admin stays, or one will be promoted.
LEMMA TakerStarts ==
    ASSUME Inv, AdminInv, NEW q \in Requests, NEW handler \in Removing, NEW label, NEW u \in Users,
           NEW alone, Starts(q, handler, label, u, {u}), Excuses(q, alone),
           \/ ~promotes'[q] /\ (Admins \ {u} # {} \/ excused')
           \/ promotes'[q] /\ label = "delete",
           label \in {"target", "delete", "commit"}
    PROVE  AdminGood(q)
<1> USE DEF Starts, Goto, rows
<1>1. op[q] = "none" /\ \A v \in Users : writer[v] # q
  BY DEF Inv, Own, Holding, OnPath, Written, Removing, RemovingPath
<1>2. /\ about'[q] = {u} /\ pc'[q] = label /\ op'[q] = handler
      /\ writer' = writer /\ role' = role
      /\ \A p \in Requests \ {q} : op'[p] = op[p]
  BY DEF Inv, Typed, RequestsTyped
<1>3. (excused => excused') /\ (\A p \in Running : op[p] \in Removing => excused')
  BY DEF Excuses
<1>4. \A p \in Requests : op[p] \in Removing => p \in Running
  BY DEF Running, Inv, Own, Holding, OnPath, Removing, RemovingPath
<1>5. Alone'
  BY <1>1, <1>2, <1>3, <1>4 DEF AdminInv, Alone
<1>6. Admins' = Admins
  BY <1>2 DEF Admins
<1>7. LeavesAdmin(q)'
  BY <1>1, <1>2, <1>6 DEF LeavesAdmin
<1> QED BY <1>2, <1>3, <1>5, <1>6, <1>7 DEF AdminGood, Spares, AdminInv, Admins

LEMMA StartAdmin ==
    ASSUME Inv, AdminInv, NEW q \in Requests, Start(q)
    PROVE  AdminGood(q)
<1>1. promotes \in [Requests -> BOOLEAN]
  BY DEF Inv, Typed, RequestsTyped
<1>2. ASSUME NEW handler, NEW label, NEW u, NEW S, Starts(q, handler, label, u, S),
             handler \notin Removing, UNCHANGED <<promotes, excused>>
      PROVE  AdminGood(q)
  <2> USE <1>2 DEF Starts, rows
  <2>1. op[q] = "none"
    BY DEF Inv, Own, Holding, OnPath, RemovingPath
  <2>2. op'[q] = handler /\ \A p \in Requests \ {q} : op'[p] = op[p]
    BY DEF Inv, Typed, RequestsTyped
  <2>3. ~promotes[q]
    BY <2>1 DEF AdminInv, LeavesAdmin, Removing
  <2> QED BY <2>1, <2>2, <2>3, SparingAdmin DEF Spares, Admins, Removing
<1>3. ASSUME pc[q] = "idle"
      PROVE  ~promotes[q]
  BY <1>3 DEF Inv, Own, Holding, OnPath, RemovingPath, AdminInv, LeavesAdmin, Removing
<1>4. ASSUME NEW u \in Users, StartLeave(q, u) PROVE AdminGood(q)
  <2>1. Starts(q, "leave", "delete", u, {u}) /\ Excuses(q, FALSE) /\ promotes'[q] = (role[u] = "admin")
    BY <1>1, <1>4 DEF StartLeave
  <2>2. promotes'[q] \/ (~promotes'[q] /\ (Admins \ {u} # {} \/ excused'))
    BY <2>1 DEF Admins, AdminInv, Excuses
  <2> QED BY <2>1, <2>2, TakerStarts DEF Removing
<1>5. ASSUME NEW u \in Users, StartBlock(q, u) PROVE AdminGood(q)
  <2>1. PICK label \in {"commit", "delete"} :
           /\ Starts(q, "block", label, u, {u}) /\ Excuses(q, FALSE)
           /\ promotes'[q] = (role[u] = "admin") /\ (role[u] = "none" \/ label = "delete")
    BY <1>1, <1>5 DEF StartBlock
  <2>2. (promotes'[q] /\ label = "delete") \/ (~promotes'[q] /\ (Admins \ {u} # {} \/ excused'))
    BY <2>1 DEF Admins, AdminInv, Excuses
  <2> QED BY <2>1, <2>2, TakerStarts DEF Removing
<1>6. ASSUME NEW u \in Users, NEW caller \in Users, StartRemove(q, caller, u) PROVE AdminGood(q)
  <2>1. PICK label \in {"target", "delete"} : Starts(q, "remove", label, u, {u})
    BY <1>6 DEF StartRemove
  <2>2. Excuses(q, caller = u) /\ promotes' = promotes /\ caller \in Admins
    BY <1>6 DEF StartRemove, Admins
  <2>3. ~promotes'[q] /\ (Admins \ {u} # {} \/ excused')
    BY <1>3, <2>1, <2>2 DEF Excuses, Starts
  <2> QED BY <2>1, <2>2, <2>3, TakerStarts DEF Removing
<1>7. ASSUME NEW u \in Users, StartJoin(q, u) \/ StartSetRole(q, u) PROVE AdminGood(q)
  BY <1>2, <1>7 DEF StartJoin, StartSetRole, Removing
<1>8. ASSUME NEW S, StartAdd(q, S) \/ StartSettings(q) PROVE AdminGood(q)
  BY <1>2, <1>8 DEF StartAdd, StartSettings, Removing
<1> QED BY <1>4, <1>5, <1>6, <1>7, <1>8 DEF Start

LEMMA InsertAdmin ==
    ASSUME Inv, AdminInv, NEW q \in Requests, Join(q) \/ AddMembers(q)
    PROVE  AdminGood(q)
<1>1. Frame(q) /\ Own(q)
  BY StepFrame DEF Inv
<1>2. op[q] \in {"join", "add"} /\ op[q] \notin Removing
  BY <1>1 DEF Join, JoinReadsBlocks, JoinReadsMembers, JoinInserts, JoinLocksKey, JoinCommits,
              AddMembers, AddLocks, AddNext, AddInserts, AddParticipant, AddCommits, At, Own, Holding,
              OnPath, Removing, RemovingPath
<1>3. ASSUME UNCHANGED <<role, op, promotes, excused>>
      PROVE  AdminGood(q)
  <2>1. Spares(q)
    BY <1>3 DEF Spares, Admins
  <2>2. ~promotes[q]
    BY <1>2 DEF AdminInv, LeavesAdmin
  <2> QED BY <1>2, <1>3, <2>1, <2>2, SparingAdmin
<1>4. CASE Join(q)
  BY <1>2, <1>3, <1>4, RollbackAdmin, InsertCommitAdmin
     DEF Join, JoinReadsBlocks, JoinReadsMembers, JoinInserts, JoinLocksKey, JoinCommits, Write, rows,
         request, ghosts
<1>5. CASE AddMembers(q)
  BY <1>2, <1>3, <1>5, InsertCommitAdmin
     DEF AddMembers, AddLocks, AddNext, AddInserts, AddParticipant, AddCommits, Write, rows, request,
         ghosts
<1> QED BY <1>4, <1>5

\* A statement of a handler that takes somebody out changes no role yet.
LEMMA TakerStatement ==
    ASSUME AdminInv, NEW q \in Requests, op[q] \in Removing, UNCHANGED <<role, op>>,
           excused => excused', LeavesAdmin(q)'
    PROVE  AdminGood(q)
BY DEF AdminGood, AdminInv, Alone, Spares, Admins

LEMMA RemoveAdmin ==
    ASSUME Inv, PairInv, AdminInv, NEW q \in Requests, Remove(q)
    PROVE  AdminGood(q)
<1>1. Own(q) /\ Typed /\ AboutIts(q) /\ LeavesAdmin(q)
  BY DEF Inv, PairInv, Pairs, AdminInv
<1>2. /\ pc \in [Requests -> Labels] /\ user \in [Requests -> Users \cup {NoUser}]
      /\ about \in [Requests -> SUBSET Users]
      /\ writer \in [Users -> Requests \cup {NoRequest}] /\ written \in [Users -> Roles]
  BY <1>1 DEF Typed, RequestsTyped, RowsTyped
<1>3. op[q] \in Removing
  BY <1>1 DEF Remove, RemoveReadsTarget, DeleteMember, DeleteParticipant, PickOldest, PromoteOldest,
              Commits, At, Own, Holding, OnPath, Removing
<1>4. CASE RemoveReadsTarget(q)
  <2>1. CASE Rollback(q)
    BY <2>1, RollbackAdmin
  <2>2. CASE /\ Goto(q, "delete")
             /\ UNCHANGED <<rows, participants, blocked, groupRow, request, ghosts>>
    <3> USE <2>2 DEF Goto, rows, request, ghosts
    <3>1. pc'[q] = "delete"
      BY <1>2
    <3>2. LeavesAdmin(q)'
      BY <1>1, <1>3, <3>1 DEF LeavesAdmin, Admins
    <3> QED BY <1>3, <3>2, TakerStatement
  <2> QED BY <1>4, <2>1, <2>2 DEF RemoveReadsTarget
<1>5. CASE DeleteMember(q)
  <2> USE <1>5 DEF DeleteMember, Goto, request, ghosts
  <2>1. pc[q] = "delete" /\ pc'[q] = "participants" /\ about[q] = {user[q]} /\ role' = role
    BY <1>1, <1>2, <1>3 DEF At, AboutIts, Change, Write, rows
  <2>2. \A u \in Users : writer'[u] = q => writer[u] = q \/ u = user[q]
    BY <1>2 DEF Change, Write, rows
  <2>3. LeavesAdmin(q)'
    BY <1>1, <1>3, <2>1, <2>2 DEF LeavesAdmin, Admins
  <2> QED BY <1>3, <2>1, <2>3, TakerStatement
<1>6. CASE DeleteParticipant(q)
  <2> USE <1>6 DEF DeleteParticipant, Goto, rows, ghosts
  <2>1. pc'[q] = IF promotes[q] THEN "oldest" ELSE "commit"
    BY <1>2
  <2>2. LeavesAdmin(q)'
    BY <1>1, <1>3, <2>1 DEF LeavesAdmin, Admins
  <2> QED BY <1>3, <2>2, TakerStatement
<1>7. CASE PickOldest(q)
  <2> USE <1>7 DEF PickOldest, Goto, rows
  <2>1. pc[q] = "oldest" /\ promotes[q]
    BY <1>1, <1>3 DEF At, LeavesAdmin
  <2>2. CASE Count(q) = 0
    <3>1. pc'[q] = "commit" /\ excused'
      BY <1>2, <2>2
    <3>2. LeavesAdmin(q)'
      BY <1>3, <2>1, <3>1 DEF LeavesAdmin
    <3> QED BY <1>3, <3>1, <3>2, TakerStatement
  <2>3. CASE Count(q) # 0
    <3>1. PICK u \in Users : Sees(q, u) # "none" /\ user' = [user EXCEPT ![q] = u]
      BY <2>3
    <3>2. pc'[q] = "promote" /\ user'[q] = u /\ excused' = excused
      BY <1>2, <2>3, <3>1
    <3>3. LeavesAdmin(q)'
      BY <1>3, <2>1, <3>1, <3>2 DEF LeavesAdmin, Sees
    <3> QED BY <1>3, <3>2, <3>3, TakerStatement
  <2> QED BY <2>2, <2>3
<1>8. CASE PromoteOldest(q)
  <2> USE <1>8 DEF PromoteOldest, Goto, request, ghosts
  <2>1. /\ pc[q] = "promote" /\ pc'[q] = "commit" /\ promotes[q] /\ user[q] \in Users
        /\ Sees(q, user[q]) # "none" \/ excused
    BY <1>1, <1>2, <1>3 DEF At, LeavesAdmin
  <2>2. role' = role
    BY DEF Change, Write, rows
  <2>3. (writer'[user[q]] = q /\ written'[user[q]] = "admin") \/ excused
    BY <1>2, <2>1 DEF Change, Write
  <2>4. LeavesAdmin(q)'
    BY <1>3, <2>1, <2>3 DEF LeavesAdmin
  <2> QED BY <1>3, <2>2, <2>4, TakerStatement
<1>9. CASE Commits(q)
  <2>1. pc[q] = "commit" /\ Commit(q, {}, leaves[q])
    BY <1>9 DEF Commits, At
  <2>2. Ends(q) /\ excused' = excused /\ \A u \in Users : role'[u] = Sees(q, u)
    BY <2>1 DEF Commit
  <2>3. Admins' # {} \/ excused
    <3>1. CASE promotes[q]
      BY <1>1, <1>3, <2>1, <2>2, <3>1 DEF LeavesAdmin, Admins, Sees
    <3>2. CASE ~promotes[q]
      BY <1>1, <1>3, <2>2, <3>2 DEF LeavesAdmin, Admins, Sees
    <3> QED BY <3>1, <3>2
  <2> QED BY <1>3, <2>2, <2>3, EndAdmin DEF Spares
<1> QED BY <1>4, <1>5, <1>6, <1>7, <1>8, <1>9 DEF Remove

LEMMA UpdateAdmin ==
    ASSUME Inv, AdminInv, NEW q \in Requests, Update(q)
    PROVE  AdminGood(q)
<1>1. Frame(q) /\ Own(q) /\ Typed
  BY StepFrame DEF Inv
<1>2. CASE UpdateRole(q)
  <2>1. PICK r \in {"admin", "member"} :
           /\ role' = [role EXCEPT ![user[q]] = IF @ = "none" THEN @ ELSE r]
           /\ excused' = (excused \/ (r = "member" /\ role[user[q]] = "admin"))
    BY <1>2 DEF UpdateRole
  <2>2. \A u \in Users : role'[u] = IF u = user[q] /\ role[u] # "none" THEN r ELSE role[u]
    BY <1>1, <2>1 DEF Typed, RowsTyped
  <2>3. Spares(q)
    BY <2>1, <2>2 DEF Spares, Admins
  <2>4. Admins' # {} \/ excused'
    BY <2>1, <2>2 DEF AdminInv, Admins
  <2> QED BY <1>2, <2>1, <2>3, <2>4, EndAdmin DEF UpdateRole
<1>3. CASE UpdateSettings(q)
  <2>1. op[q] = "settings" /\ op'[q] = "none" /\ UNCHANGED <<role, promotes, excused>>
    BY <1>1, <1>3 DEF UpdateSettings, At, Own, Holding, OnPath, RemovingPath, Typed, RequestsTyped,
                      rows, ghosts
  <2> QED BY <1>1, <2>1, SparingAdmin DEF Frame, Spares, Admins, AdminInv, LeavesAdmin, Removing
<1> QED BY <1>2, <1>3 DEF Update

LEMMA InitAdminInv == Init => AdminInv
<1> SUFFICES ASSUME Init PROVE AdminInv
  OBVIOUS
<1>1. role[Creator] = "admin" /\ Creator \in Users
  BY GroupsAssumption DEF Init
<1> QED BY <1>1 DEF Init, AdminInv, Admins, Alone, LeavesAdmin, Removing

LEMMA StepKeepsAdmins == Inv /\ PairInv /\ AdminInv /\ [Next]_vars => AdminInv'
<1> SUFFICES ASSUME Inv, PairInv, AdminInv, [Next]_vars PROVE AdminInv'
  OBVIOUS
<1>1. CASE UNCHANGED vars
  BY <1>1 DEF vars, AdminInv, Admins, Alone, LeavesAdmin, Sees
<1>2. ASSUME NEW q \in Requests,
             Start(q) \/ Join(q) \/ AddMembers(q) \/ Remove(q) \/ Update(q) \/ DeadlockAborts(q)
      PROVE  AdminInv'
  BY <1>2, StepGood, StepFrame, StartAdmin, InsertAdmin, RemoveAdmin, UpdateAdmin, RollbackAdmin,
     AdminsKept DEF DeadlockAborts
<1> QED BY <1>1, <1>2 DEF Next, AllDone

\* For any users and requests: a group has an admin, unless a leaving admin found nobody to
\* promote, an admin was demoted or removed itself, or two requests that take members out
\* overlapped.
THEOREM AdminStays == Spec => []AdminKept
<1>1. Init => Inv /\ PairInv /\ AdminInv
  BY InitInv, InitPairInv, InitAdminInv
<1>2. Inv /\ PairInv /\ AdminInv /\ [Next]_vars => Inv' /\ PairInv' /\ AdminInv'
  BY StepKeepsInv, StepKeepsPairs, StepKeepsAdmins
<1>3. AdminInv => AdminKept
  BY DEF AdminInv, AdminKept
<1> QED BY <1>1, <1>2, <1>3, PTL DEF Spec
=============================================================================
