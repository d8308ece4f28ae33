---------------------------- MODULE MessagesProofs ----------------------------
(***************************************************************************)
(* Proofs about Messages, for any users, messages and requests, with an    *)
(* index that lags as it likes and stale copies written back at any time.  *)
(***************************************************************************)
EXTENDS Messages, TLAPS

\* What is in the index has been in the table; a request with a copy has the message it is
\* about; only a sender edits.
Typed ==
    /\ TypeOK
    /\ \A m \in Messages : index[m] # Absent => table[m] # Absent
    /\ \A r \in Requests : seen[r] # Absent =>
          target[r] \in Messages /\ table[target[r]] # Absent
    /\ \A r \in Requests : pc[r] = "receipt" => target[r] \in Messages
    /\ \A r \in Requests : pc[r] = "edit" => UserOf[r] = SenderOf[target[r]]

LEMMA AbsentIsNoItem == Absent \notin Item
BY MessagesAssumption DEF Item, Contents, Statuses, Reviews

\* How the table may change: one message, to an item, and to absent never.
Writes(m) ==
    /\ table' \in [Messages -> Item \cup {Absent}]
    /\ \A n \in Messages : n # m => table'[n] = table[n]
    /\ table'[m] \in Item

LEMMA InsertWrites ==
    ASSUME TypeOK, NEW m \in Messages, NEW content \in Contents, InsertMessage(m, content)
    PROVE  Writes(m) /\ table'[m] = NewItem(content)
<1>1. NewItem(content) \in Item
  BY DEF NewItem, Item, Statuses, Reviews
<1> QED BY <1>1 DEF InsertMessage, Writes, TypeOK

LEMMA UpdateWrites ==
    ASSUME TypeOK, NEW m \in Messages, table[m] # Absent, NEW copy \in Item,
           UpdateMessage(m, copy)
    PROVE  /\ Writes(m)
           /\ table'[m].content = copy.content /\ table'[m].history = copy.history
           /\ table'[m].deleted = table[m].deleted
<1>1. table[m] \in Item
  BY DEF TypeOK
<1>2. [copy EXCEPT !.deleted = table[m].deleted] \in Item
  BY <1>1 DEF Item
<1>3. table'[m] = [copy EXCEPT !.deleted = table[m].deleted]
  BY DEF UpdateMessage, TypeOK
<1> QED BY <1>2, <1>3 DEF UpdateMessage, Writes, TypeOK, Item

LEMMA FlagWrites ==
    ASSUME TypeOK, NEW m \in Messages, table[m] # Absent,
           \/ SetDeleted(m)
           \/ table' = [table EXCEPT ![m].status = "delivered"]
    PROVE  /\ Writes(m)
           /\ table'[m].content = table[m].content /\ table'[m].history = table[m].history
           /\ table[m].deleted => table'[m].deleted
<1>1. table[m] \in Item
  BY DEF TypeOK
<1>2. \/ table'[m] = [table[m] EXCEPT !.deleted = TRUE]
      \/ table'[m] = [table[m] EXCEPT !.status = "delivered"]
  BY DEF SetDeleted, TypeOK
<1>3. \A n \in Messages : n # m => table'[n] = table[n]
  BY DEF SetDeleted, TypeOK
<1>4. table'[m] \in Item
  BY <1>1, <1>2 DEF Item, Statuses
<1>5. table' \in [Messages -> Item \cup {Absent}]
  <2>1. /\ DOMAIN table' = Messages
        /\ table' = [n \in DOMAIN table' |-> table'[n]]
    BY DEF SetDeleted, TypeOK
  <2>2. \A n \in Messages : table'[n] \in Item \cup {Absent}
    BY <1>3, <1>4 DEF TypeOK
  <2> QED BY <2>1, <2>2
<1> QED BY <1>1, <1>2, <1>3, <1>4, <1>5 DEF Writes, Item

-----------------------------------------------------------------------------
(* Types.                                                                  *)

\* A step of request r that writes no message but may move r.
LEMMA TypedMove ==
    ASSUME Typed, NEW r \in Requests, NEW label \in Stages,
           pc' = [pc EXCEPT ![r] = label],
           target' \in [Requests -> Messages \cup {NoMessage}],
           seen' \in [Requests -> Item \cup {Absent}],
           \A q \in Requests \ {r} : target'[q] = target[q] /\ seen'[q] = seen[q],
           (seen'[r] # Absent) = (label \notin {"idle", "receipt", "done"}),
           seen'[r] # Absent => target'[r] \in Messages /\ table[target'[r]] # Absent,
           label = "receipt" => target'[r] \in Messages,
           label = "edit" => UserOf[r] = SenderOf[target'[r]],
           table' = table \/ \E m \in Messages : Writes(m),
           index' = index,
           reads' \in [Messages -> SUBSET Users],
           UNCHANGED <<members, aged>>,
           parent' \in [Requests -> Contents \cup {NoMessage}]
    PROVE  Typed'
<1>1. /\ pc' \in [Requests -> Stages]
      /\ pc'[r] = label
      /\ \A q \in Requests \ {r} : pc'[q] = pc[q]
  BY DEF Typed, TypeOK
<1>2. /\ table' \in [Messages -> Item \cup {Absent}]
      /\ \A m \in Messages : table[m] # Absent => table'[m] # Absent
  BY AbsentIsNoItem DEF Writes, Typed, TypeOK
<1>3. TypeOK'
  BY <1>1, <1>2 DEF Typed, TypeOK
<1>4. \A q \in Requests : seen'[q] # Absent => target'[q] \in Messages /\ table'[target'[q]] # Absent
  BY <1>2 DEF Typed
<1>5. \A q \in Requests : /\ pc'[q] = "receipt" => target'[q] \in Messages
                          /\ pc'[q] = "edit" => UserOf[q] = SenderOf[target'[q]]
  BY <1>1 DEF Typed
<1> QED BY <1>2, <1>3, <1>4, <1>5 DEF Typed

LEMMA TypedFinish ==
    ASSUME Typed, NEW r \in Requests, Finish(r),
           table' = table \/ \E m \in Messages : Writes(m),
           UNCHANGED <<index, reads, members, aged>>,
           parent' \in [Requests -> Contents \cup {NoMessage}]
    PROVE  Typed'
<1>1. /\ pc' = [pc EXCEPT ![r] = "done"]
      /\ target' = target
      /\ seen' \in [Requests -> Item \cup {Absent}]
      /\ seen'[r] = Absent
      /\ \A q \in Requests \ {r} : seen'[q] = seen[q]
      /\ target' \in [Requests -> Messages \cup {NoMessage}]
      /\ reads' \in [Messages -> SUBSET Users]
  BY DEF Finish, Typed, TypeOK
<1> QED BY <1>1, TypedMove DEF Stages

LEMMA TypedLookUp ==
    ASSUME Typed, NEW r \in Requests, NEW m \in Messages,
           NEW label \in {"forward", "edit", "delete", "approved", "rejected"},
           label = "edit" => UserOf[r] = SenderOf[m],
           LookUp(r, m, label), UNCHANGED <<table, index, reads, members, aged, parent>>
    PROVE  Typed'
<1>1. index[m] \in Item /\ index[m] # Absent /\ table[m] # Absent
  BY DEF LookUp, Typed, TypeOK
<1>2. /\ pc' = [pc EXCEPT ![r] = label]
      /\ target' \in [Requests -> Messages \cup {NoMessage}]
      /\ seen' \in [Requests -> Item \cup {Absent}]
      /\ seen'[r] = index[m] /\ target'[r] = m
      /\ \A q \in Requests \ {r} : target'[q] = target[q] /\ seen'[q] = seen[q]
      /\ reads' \in [Messages -> SUBSET Users]
      /\ parent' \in [Requests -> Contents \cup {NoMessage}]
  BY <1>1 DEF LookUp, Typed, TypeOK
<1> QED BY <1>1, <1>2, TypedMove DEF Stages

\* A step that leaves the requests alone.
LEMMA TypedQuiet ==
    ASSUME Typed, UNCHANGED <<requests, parent>>,
           table' = table \/ \E m \in Messages : Writes(m),
           index' \in [Messages -> Item \cup {Absent}],
           \A m \in Messages : index'[m] # Absent => table[m] # Absent,
           reads' = reads, members' \subseteq members, aged' \subseteq Messages
    PROVE  Typed'
<1>1. /\ table' \in [Messages -> Item \cup {Absent}]
      /\ \A m \in Messages : table[m] # Absent => table'[m] # Absent
  BY AbsentIsNoItem DEF Writes, Typed, TypeOK
<1>2. TypeOK'
  BY <1>1 DEF Typed, TypeOK, requests
<1> QED BY <1>1, <1>2 DEF Typed, requests

\* The write of a request that has a copy: its table, its copy and who may have made it.
LEMMA CopyFacts ==
    ASSUME Typed, NEW r \in Requests, pc[r] \notin {"idle", "receipt", "done"}
    PROVE  /\ seen[r] \in Item /\ seen[r] # Absent
           /\ target[r] \in Messages /\ table[target[r]] # Absent
BY DEF Typed, TypeOK

LEMMA EditedFacts ==
    ASSUME NEW r \in Requests, seen[r] \in Item
    PROVE  /\ Edited(r) \in Item
           /\ Edited(r).content = r
           /\ Edited(r).history = Append(seen[r].history, seen[r].content)
<1> DEFINE h == Append(seen[r].history, seen[r].content)
<1>1. r \in Contents /\ h \in Seq(Contents)
  BY DEF Contents, Item
<1>2. Edited(r) = [seen[r] EXCEPT !.history = h, !.content = r]
  BY DEF Edited
<1> HIDE DEF h
<1>3. [seen[r] EXCEPT !.history = h] \in Item
  BY <1>1 DEF Item
<1>4. /\ [seen[r] EXCEPT !.history = h, !.content = r] \in Item
      /\ [seen[r] EXCEPT !.history = h, !.content = r].content = r
      /\ [seen[r] EXCEPT !.history = h, !.content = r].history = h
  BY <1>1, <1>3 DEF Item
<1> QED BY <1>2, <1>4 DEF h

LEMMA TypedRequest ==
    ASSUME Typed, NEW r \in Requests, RequestStep(r)
    PROVE  Typed'
<1>1. ASSUME NEW m \in Messages,
             \/ ForwardLookUp(r, m) \/ EditLookUp(r, m) \/ DeleteLookUp(r, m)
             \/ \E verdict \in {"approved", "rejected"} : ReviewLookUp(r, m, verdict)
      PROVE  Typed'
  BY <1>1, TypedLookUp
     DEF ForwardLookUp, EditLookUp, DeleteLookUp, ReviewLookUp, MayChange
<1>2. ASSUME NEW m \in Messages, ForwardInsert(r, m)
      PROVE  Typed'
  <2>1. seen[r] \in Item
    BY <1>2, CopyFacts DEF ForwardInsert
  <2>2. Writes(m)
    BY <1>2, <2>1, InsertWrites DEF ForwardInsert, Typed, Item
  <2> QED BY <1>2, <2>2, TypedQuiet DEF ForwardInsert, Typed, TypeOK
<1>3. ASSUME NEW m \in Messages, MarkReadReceipt(r, m)
      PROVE  Typed'
  <2>1. /\ pc' = [pc EXCEPT ![r] = "receipt"]
        /\ target' \in [Requests -> Messages \cup {NoMessage}]
        /\ target'[r] = m /\ seen' = seen /\ seen[r] = Absent
        /\ \A q \in Requests \ {r} : target'[q] = target[q]
        /\ UNCHANGED <<table, index, members, aged, parent>>
    BY <1>3 DEF MarkReadReceipt, Typed, TypeOK
  <2>2. reads' \in [Messages -> SUBSET Users]
    <3>1. UserOf[r] \in Users /\ reads \in [Messages -> SUBSET Users]
      BY MessagesAssumption DEF Typed, TypeOK
    <3>2. reads' = [reads EXCEPT ![m] = reads[m] \cup {UserOf[r]}] \/ reads' = reads
      BY <1>3 DEF MarkReadReceipt
    <3> QED BY <3>1, <3>2
  <2>3. /\ seen' \in [Requests -> Item \cup {Absent}]
        /\ parent' \in [Requests -> Contents \cup {NoMessage}]
    BY <2>1 DEF Typed, TypeOK
  <2> QED BY <2>1, <2>2, <2>3, TypedMove DEF Stages
<1>4. ASSUME NEW m \in Messages, MarkDelivered(r, m)
      PROVE  Typed'
  <2>1. table[m] # Absent
    BY <1>4 DEF MarkDelivered, Typed
  <2>2. Writes(m)
    BY <1>4, <2>1, FlagWrites DEF MarkDelivered, Typed
  <2> QED BY <1>4, <2>2, TypedFinish DEF MarkDelivered, Typed, TypeOK
<1>5. CASE ForwardEnds(r)
  BY <1>5, TypedFinish DEF ForwardEnds, Typed, TypeOK
<1>6. CASE EditWrite(r)
  <2>1. /\ seen[r] \in Item /\ target[r] \in Messages /\ table[target[r]] # Absent
    BY <1>6, CopyFacts DEF EditWrite
  <2>2. table' = table \/ Writes(target[r])
    BY <1>6, <2>1, EditedFacts, UpdateWrites DEF EditWrite, Typed
  <2>3. parent' \in [Requests -> Contents \cup {NoMessage}]
    BY <1>6, <2>1 DEF EditWrite, Typed, TypeOK, Item
  <2> QED BY <1>6, <2>1, <2>2, <2>3, TypedFinish DEF EditWrite
<1>7. CASE DeleteWrite(r)
  <2>1. target[r] \in Messages /\ table[target[r]] # Absent
    BY <1>7, CopyFacts DEF DeleteWrite
  <2>2. table' = table \/ Writes(target[r])
    BY <1>7, <2>1, FlagWrites DEF DeleteWrite, Typed
  <2> QED BY <1>7, <2>1, <2>2, TypedFinish DEF DeleteWrite, Typed, TypeOK
<1>8. CASE MarkReadLookUp(r)
  <2>1. target[r] \in Messages /\ UNCHANGED <<table, index, reads, members, aged, parent>>
    BY <1>8 DEF MarkReadLookUp, Typed
  <2>2. CASE Finish(r)
    BY <2>1, <2>2, TypedFinish DEF Typed, TypeOK
  <2>3. CASE /\ index[target[r]] # Absent
             /\ seen' = [seen EXCEPT ![r] = index[target[r]]]
             /\ pc' = [pc EXCEPT ![r] = "status"]
             /\ UNCHANGED target
    <3>1. index[target[r]] \in Item /\ table[target[r]] # Absent
      BY <2>1, <2>3 DEF Typed, TypeOK
    <3>2. /\ seen' \in [Requests -> Item \cup {Absent}]
          /\ seen'[r] = index[target[r]]
          /\ \A q \in Requests \ {r} : target'[q] = target[q] /\ seen'[q] = seen[q]
          /\ target' \in [Requests -> Messages \cup {NoMessage}]
          /\ reads' \in [Messages -> SUBSET Users]
          /\ parent' \in [Requests -> Contents \cup {NoMessage}]
      BY <2>1, <2>3, <3>1 DEF Typed, TypeOK
    <3> QED BY <2>1, <2>3, <3>1, <3>2, TypedMove DEF Stages
  <2> QED BY <1>8, <2>2, <2>3 DEF MarkReadLookUp
<1>9. CASE MarkReadWrite(r) \/ ReviewWrite(r)
  <2>1. seen[r] \in Item /\ target[r] \in Messages /\ table[target[r]] # Absent
    BY <1>9, CopyFacts DEF MarkReadWrite, ReviewWrite
  <2>2. table' = table \/ \E copy \in Item : UpdateMessage(target[r], copy)
    <3>1. /\ [seen[r] EXCEPT !.status = "read"] \in Item
          /\ pc[r] \in {"approved", "rejected"} => [seen[r] EXCEPT !.moderation = pc[r]] \in Item
      BY <2>1 DEF Item, Statuses, Reviews
    <3> QED BY <1>9, <3>1 DEF MarkReadWrite, ReviewWrite
  <2>3. table' = table \/ Writes(target[r])
    BY <2>1, <2>2, UpdateWrites DEF Typed
  <2> QED BY <1>9, <2>1, <2>3, TypedFinish DEF MarkReadWrite, ReviewWrite, Typed, TypeOK
<1> QED BY <1>1, <1>2, <1>3, <1>4, <1>5, <1>6, <1>7, <1>8, <1>9 DEF RequestStep

LEMMA TypedInit == Init => Typed
BY DEF Init, Typed, TypeOK, Stages

LEMMA TypedNext == Typed /\ [Next]_vars => Typed'
<1> SUFFICES ASSUME Typed, [Next]_vars PROVE Typed'
  OBVIOUS
<1>1. ASSUME NEW m \in Messages, SendMessage(m)
      PROVE  Typed'
  <2>1. Writes(m)
    BY <1>1, InsertWrites DEF SendMessage, Typed, Contents
  <2> QED BY <1>1, <2>1, TypedQuiet DEF SendMessage, Typed, TypeOK
<1>2. ASSUME NEW m \in Messages, IndexCatchesUp(m)
      PROVE  Typed'
  <2>1. /\ index' \in [Messages -> Item \cup {Absent}]
        /\ \A n \in Messages : index'[n] # Absent => table[n] # Absent
    BY <1>2 DEF IndexCatchesUp, Typed, TypeOK
  <2> QED BY <1>2, <2>1, TypedQuiet DEF IndexCatchesUp, Typed, TypeOK
<1>3. ASSUME NEW m \in Messages, FifteenMinutesPass(m)
      PROVE  Typed'
  BY <1>3, TypedQuiet DEF FifteenMinutesPass, Typed, TypeOK
<1>4. ASSUME NEW u \in Users, LeavesConversation(u)
      PROVE  Typed'
  BY <1>4, TypedQuiet DEF LeavesConversation, Typed, TypeOK
<1>5. CASE UNCHANGED vars
  BY <1>5, TypedQuiet DEF vars, requests, Typed, TypeOK
<1> QED BY <1>1, <1>2, <1>3, <1>4, <1>5, TypedRequest DEF Next

LEMMA TypedHolds == Spec => []Typed
BY TypedInit, TypedNext, PTL DEF Spec

\* Types, and: a request holds a copy exactly while it needs one.
THEOREM TypeCorrect == Spec => []TypeOK
BY TypedHolds, PTL DEF Typed

-----------------------------------------------------------------------------
(* Texts.  Whatever copy of a message is anywhere, in the table, in the    *)
(* index or with a request, its versions are a line of descent.            *)

\* The items with a history of finished edits, each of the version before it, and with a
\* text that m's sender wrote unless it is the first.
Sound(m) ==
    {item \in Item :
        /\ \A i \in 1 .. Len(Versions(item)) - 1 :
              /\ Versions(item)[i + 1] \in Requests
              /\ parent[Versions(item)[i + 1]] = Versions(item)[i]
        /\ \A i, j \in 1 .. Len(Versions(item)) : i # j => Versions(item)[i] # Versions(item)[j]
        /\ \A i \in 1 .. Len(Versions(item)) :
              Versions(item)[i] \in Requests => pc[Versions(item)[i]] = "done"
        /\ item.history # <<>> =>
              item.content \in Requests /\ UserOf[item.content] = SenderOf[m]}

TextInv ==
    /\ \A m \in Messages : table[m] # Absent => table[m] \in Sound(m)
    /\ \A m \in Messages : index[m] # Absent => index[m] \in Sound(m)
    /\ \A r \in Requests, m \in Messages :
          seen[r] # Absent /\ target[r] = m => seen[r] \in Sound(m)

LEMMA VersionsFacts ==
    ASSUME NEW item \in Item
    PROVE  /\ Versions(item) \in Seq(Contents)
           /\ Len(Versions(item)) = Len(item.history) + 1
           /\ Versions(item)[Len(Versions(item))] = item.content
           /\ \A i \in 1 .. Len(item.history) : Versions(item)[i] = item.history[i]
BY DEF Versions, Item

\* Only the text and the history count.
LEMMA SameText ==
    ASSUME NEW m, NEW a \in Sound(m), NEW b \in Item,
           b.content = a.content, b.history = a.history
    PROVE  b \in Sound(m)
<1>1. Versions(b) = Versions(a)
  BY DEF Versions
<1> QED BY <1>1 DEF Sound

\* What is sound stays so, whatever request is at work: it is in no history yet.
LEMMA SoundKept ==
    ASSUME NEW m, NEW a \in Sound(m), NEW r \in Requests, pc[r] # "done",
           \A q \in Requests \ {r} : pc'[q] = pc[q] /\ parent'[q] = parent[q]
    PROVE  a \in Sound(m)'
<1>1. PICK v : v = Versions(a)
  OBVIOUS
<1>2. a \in Item
  BY DEF Sound
<1>3. Len(v) \in Nat
  <2>1. a.history \in Seq(Contents)
    BY <1>2 DEF Item
  <2> QED BY <1>1, <1>2, <2>1, VersionsFacts
<1>4. /\ \A i \in 1 .. Len(v) - 1 : v[i + 1] \in Requests /\ parent[v[i + 1]] = v[i]
      /\ \A i, j \in 1 .. Len(v) : i # j => v[i] # v[j]
      /\ \A i \in 1 .. Len(v) : v[i] \in Requests => pc[v[i]] = "done"
      /\ a.history # <<>> => a.content \in Requests /\ UserOf[a.content] = SenderOf[m]
  BY <1>1 DEF Sound
<1>5. \A i \in 1 .. Len(v) : v[i] \in Requests => v[i] # r /\ pc'[v[i]] = "done"
  BY <1>4
<1>6. \A i \in 1 .. Len(v) - 1 : v[i + 1] \in Requests /\ parent'[v[i + 1]] = v[i]
  <2> SUFFICES ASSUME NEW i \in 1 .. Len(v) - 1
               PROVE  v[i + 1] \in Requests /\ parent'[v[i + 1]] = v[i]
    OBVIOUS
  <2>1. i + 1 \in 1 .. Len(v)
    BY <1>3
  <2> QED BY <1>4, <1>5, <2>1
<1> QED BY <1>1, <1>2, <1>4, <1>5, <1>6 DEF Sound

LEMMA SoundNew ==
    ASSUME NEW m, NEW c \in Contents, c \in Requests => pc[c] = "done"
    PROVE  NewItem(c) \in Sound(m)
<1>1. NewItem(c) \in Item /\ NewItem(c).content = c /\ NewItem(c).history = <<>>
  BY DEF NewItem, Item, Statuses, Reviews
<1>2. PICK v : v = Versions(NewItem(c))
  OBVIOUS
<1>3. v = Append(<<>>, c)
  BY <1>1, <1>2 DEF Versions
<1>4. Len(v) = 1 /\ v[1] = c
  BY <1>3
<1>5. \A i \in 1 .. Len(v) : i = 1
  BY <1>4
<1>6. \A i \in 1 .. Len(v) - 1 : FALSE
  BY <1>4
<1>7. \A i, j \in 1 .. Len(v) : i # j => v[i] # v[j]
  BY <1>5
<1>8. \A i \in 1 .. Len(v) : v[i] \in Requests => pc[v[i]] = "done"
  BY <1>4, <1>5
<1> QED BY <1>1, <1>2, <1>6, <1>7, <1>8 DEF Sound

\* An edit adds one version to those of the copy it has.
LEMMA SoundEdit ==
    ASSUME Typed, NEW m, NEW r \in Requests, seen[r] \in Sound(m), pc[r] = "edit",
           UserOf[r] = SenderOf[m],
           pc' = [pc EXCEPT ![r] = "done"], parent' = [parent EXCEPT ![r] = seen[r].content]
    PROVE  Edited(r) \in Sound(m)'
<1>1. seen[r] \in Item
  BY DEF Sound
<1>2. PICK old : old = Versions(seen[r])
  OBVIOUS
<1>3. PICK new : new = Versions(Edited(r))
  OBVIOUS
<1>4. /\ Edited(r) \in Item /\ Edited(r).content = r
      /\ Edited(r).history = old
  BY <1>1, <1>2, EditedFacts DEF Versions
<1>5. new = Append(old, r)
  BY <1>3, <1>4 DEF Versions
<1>6. /\ old \in Seq(Contents)
      /\ Len(old) \in Nat \ {0}
      /\ old[Len(old)] = seen[r].content
  <2>1. seen[r].history \in Seq(Contents)
    BY <1>1 DEF Item
  <2> QED BY <1>1, <1>2, <2>1, VersionsFacts
<1>7. /\ \A i \in 1 .. Len(old) - 1 : old[i + 1] \in Requests /\ parent[old[i + 1]] = old[i]
      /\ \A i, j \in 1 .. Len(old) : i # j => old[i] # old[j]
      /\ \A i \in 1 .. Len(old) : old[i] \in Requests => pc[old[i]] = "done"
  BY <1>2 DEF Sound
<1>8. \A i \in 1 .. Len(old) : old[i] # r
  BY <1>7
<1>9. /\ Len(new) = Len(old) + 1 /\ new[Len(old) + 1] = r
      /\ \A i \in 1 .. Len(old) : new[i] = old[i]
  BY <1>5, <1>6
<1>10. /\ pc'[r] = "done" /\ parent'[r] = seen[r].content
       /\ \A q \in Requests \ {r} : pc'[q] = pc[q] /\ parent'[q] = parent[q]
  BY DEF Typed, TypeOK
<1>11. \A i \in 1 .. Len(new) - 1 : new[i + 1] \in Requests /\ parent'[new[i + 1]] = new[i]
  <2> SUFFICES ASSUME NEW i \in 1 .. Len(new) - 1
               PROVE  new[i + 1] \in Requests /\ parent'[new[i + 1]] = new[i]
    OBVIOUS
  <2>1. CASE i = Len(old)
    BY <1>6, <1>9, <1>10, <2>1
  <2>2. CASE i # Len(old)
    <3>1. i \in 1 .. Len(old) - 1 /\ i \in 1 .. Len(old) /\ i + 1 \in 1 .. Len(old)
      BY <1>6, <1>9, <2>2
    <3> QED BY <1>7, <1>8, <1>9, <1>10, <3>1
  <2> QED BY <2>1, <2>2
<1>12. \A i, j \in 1 .. Len(new) : i # j => new[i] # new[j]
  <2> SUFFICES ASSUME NEW i \in 1 .. Len(new), NEW j \in 1 .. Len(new), i # j
               PROVE  new[i] # new[j]
    OBVIOUS
  <2>1. CASE i = Len(old) + 1
    <3>1. j \in 1 .. Len(old)
      BY <1>6, <1>9, <2>1
    <3> QED BY <1>8, <1>9, <2>1, <3>1
  <2>2. CASE j = Len(old) + 1
    <3>1. i \in 1 .. Len(old)
      BY <1>6, <1>9, <2>2
    <3> QED BY <1>8, <1>9, <2>2, <3>1
  <2>3. CASE i # Len(old) + 1 /\ j # Len(old) + 1
    <3>1. i \in 1 .. Len(old) /\ j \in 1 .. Len(old)
      BY <1>6, <1>9, <2>3
    <3> QED BY <1>7, <1>9, <3>1
  <2> QED BY <2>1, <2>2, <2>3
<1>13. \A i \in 1 .. Len(new) : new[i] \in Requests => pc'[new[i]] = "done"
  <2> SUFFICES ASSUME NEW i \in 1 .. Len(new), new[i] \in Requests
               PROVE  pc'[new[i]] = "done"
    OBVIOUS
  <2>1. CASE i = Len(old) + 1
    BY <1>9, <1>10, <2>1
  <2>2. CASE i # Len(old) + 1
    <3>1. i \in 1 .. Len(old)
      BY <1>6, <1>9, <2>2
    <3> QED BY <1>7, <1>8, <1>9, <1>10, <2>2, <3>1
  <2> QED BY <2>1, <2>2
<1> QED BY <1>3, <1>4, <1>11, <1>12, <1>13 DEF Sound

\* Whether an item is sound depends on its content and history alone.
LEMMA SoundAlike ==
    ASSUME NEW m \in Messages, NEW a \in Sound(m)', NEW b \in Item,
           b.content = a.content, b.history = a.history
    PROVE  b \in Sound(m)'
<1>1. PICK v : v = Versions(a)
  OBVIOUS
<1>2. Versions(b) = v
  BY <1>1 DEF Versions
<1>3. (Versions(a))' = v /\ (Versions(b))' = v
  BY <1>1, <1>2 DEF Versions
<1> QED BY <1>3 DEF Sound

\* A step of request r that writes at most one message and may take or drop a copy.
LEMMA TextStep ==
    ASSUME Typed, TextInv, NEW r \in Requests, pc[r] # "done",
           \A q \in Requests \ {r} : /\ pc'[q] = pc[q] /\ parent'[q] = parent[q]
                                    /\ target'[q] = target[q] /\ seen'[q] = seen[q],
           index' = index,
           NEW n \in Messages,
           \A m \in Messages : m # n => table'[m] = table[m],
           table'[n] = table[n] \/ table'[n] \in Sound(n)',
           \A m \in Messages : seen'[r] # Absent /\ target'[r] = m => seen'[r] \in Sound(m)'
    PROVE  TextInv'
<1>1. \A m \in Messages : \A a \in Sound(m) : a \in Sound(m)'
  BY SoundKept
<1>2. \A m \in Messages : table'[m] # Absent => table'[m] \in Sound(m)'
  BY <1>1 DEF TextInv
<1>3. \A m \in Messages : index'[m] # Absent => index'[m] \in Sound(m)'
  BY <1>1 DEF TextInv
<1>4. \A q \in Requests, m \in Messages :
         seen'[q] # Absent /\ target'[q] = m => seen'[q] \in Sound(m)'
  BY <1>1 DEF TextInv
<1> QED BY <1>2, <1>3, <1>4 DEF TextInv

\* A step that leaves the requests alone.
LEMMA TextQuiet ==
    ASSUME TextInv, UNCHANGED <<requests, parent>>,
           \A m \in Messages : index'[m] = index[m] \/ index'[m] = table[m],
           NEW n \in Messages,
           \A m \in Messages : m # n => table'[m] = table[m],
           table'[n] = table[n] \/ table'[n] \in Sound(n)
    PROVE  TextInv'
<1>1. \A m : Sound(m)' = Sound(m)
  BY DEF Sound, requests
<1>2. \A m \in Messages : table'[m] # Absent => table'[m] \in Sound(m)
  BY DEF TextInv
<1>3. \A m \in Messages : index'[m] # Absent => index'[m] \in Sound(m)
  BY DEF TextInv
<1>4. \A q \in Requests, m \in Messages :
         seen'[q] # Absent /\ target'[q] = m => seen'[q] \in Sound(m)
  BY DEF TextInv, requests
<1> QED BY <1>1, <1>2, <1>3, <1>4 DEF TextInv

LEMMA FinishFacts ==
    ASSUME Typed, NEW r \in Requests, Finish(r)
    PROVE  /\ pc' = [pc EXCEPT ![r] = "done"] /\ pc'[r] = "done"
           /\ seen'[r] = Absent
           /\ \A q \in Requests \ {r} : /\ pc'[q] = pc[q]
                                        /\ target'[q] = target[q] /\ seen'[q] = seen[q]
BY DEF Finish, Typed, TypeOK

LEMMA TextRequest ==
    ASSUME Typed, TextInv, NEW r \in Requests, RequestStep(r)
    PROVE  TextInv'
<1>0. TypeOK
  BY DEF Typed
<1>1. ASSUME NEW m \in Messages, NEW label \in Stages \ {"done"}, LookUp(r, m, label),
             UNCHANGED <<table, index, parent>>
      PROVE  TextInv'
  <2>1. /\ pc[r] = "idle"
        /\ \A q \in Requests \ {r} : /\ pc'[q] = pc[q] /\ target'[q] = target[q]
                                     /\ seen'[q] = seen[q]
        /\ index[m] # Absent
        /\ seen'[r] = index[m] /\ target'[r] = m
    BY <1>0, <1>1 DEF LookUp, TypeOK
  <2>2. index[m] \in Sound(m)'
    BY <1>1, <2>1, SoundKept DEF TextInv
  <2> QED BY <1>1, <2>1, <2>2, TextStep
<1>2. ASSUME NEW m \in Messages, ForwardInsert(r, m)
      PROVE  TextInv'
  <2>1. seen[r] \in Item /\ seen[r] # Absent
    BY <1>2, CopyFacts DEF ForwardInsert
  <2>2. target[r] \in Messages
    BY <1>2, CopyFacts DEF ForwardInsert
  <2>3. PICK n \in Messages : n = target[r]
    BY <2>2
  <2>4. seen[r] \in Sound(n)
    BY <2>1, <2>3 DEF TextInv
  <2>5. PICK c \in Contents : c = seen[r].content
    BY <2>1 DEF Item
  <2>6. c \in Requests => pc[c] = "done"
    <3>1. PICK v : v = Versions(seen[r])
      OBVIOUS
    <3>2. seen[r].history \in Seq(Contents)
      BY <2>1 DEF Item
    <3>3. v[Len(v)] = c /\ Len(v) \in 1 .. Len(v)
      BY <2>1, <2>5, <3>1, <3>2, VersionsFacts
    <3> QED BY <2>4, <3>1, <3>3 DEF Sound
  <2>7. NewItem(c) \in Sound(m)
    BY <2>6, SoundNew
  <2>8. Writes(m) /\ table'[m] = NewItem(c)
    BY <1>0, <1>2, <2>5, InsertWrites DEF ForwardInsert
  <2> QED BY <1>2, <2>7, <2>8, TextQuiet DEF ForwardInsert, Writes
<1>3. ASSUME NEW m \in Messages, MarkReadReceipt(r, m)
      PROVE  TextInv'
  <2>1. /\ pc[r] = "idle"
        /\ \A q \in Requests \ {r} : pc'[q] = pc[q] /\ target'[q] = target[q]
        /\ UNCHANGED <<table, index, seen, parent>>
        /\ seen[r] = Absent
    BY <1>0, <1>3 DEF MarkReadReceipt, TypeOK
  <2> QED BY <2>1, TextStep
<1>4. ASSUME NEW m \in Messages, MarkDelivered(r, m)
      PROVE  TextInv'
  <2>1. table[m] # Absent /\ pc[r] = "idle"
    BY <1>4 DEF MarkDelivered, Typed
  <2>2. /\ Writes(m)
        /\ table'[m].content = table[m].content /\ table'[m].history = table[m].history
    BY <1>0, <1>4, <2>1, FlagWrites DEF MarkDelivered
  <2>3. UNCHANGED <<index, parent>> /\ Finish(r)
    BY <1>4 DEF MarkDelivered
  <2>4. table[m] \in Sound(m)'
    BY <2>1, <2>3, FinishFacts, SoundKept DEF TextInv
  <2>5. table'[m] \in Sound(m)'
    <3>1. \A a \in Sound(m)', b \in Item :
             b.content = a.content /\ b.history = a.history => b \in Sound(m)'
      BY SoundAlike
    <3> QED BY <2>2, <2>4, <3>1 DEF Writes
  <2> QED BY <2>1, <2>2, <2>3, <2>5, FinishFacts, TextStep DEF Writes
<1>5. ASSUME pc[r] # "done", Finish(r), UNCHANGED <<table, index, parent>>
      PROVE  TextInv'
  <2>1. CASE \E n \in Messages : TRUE
    BY <1>5, <2>1, FinishFacts, TextStep
  <2>2. CASE ~\E n \in Messages : TRUE
    BY <2>2 DEF TextInv
  <2> QED BY <2>1, <2>2
<1>6. CASE EditWrite(r)
  <2>1. /\ pc[r] = "edit" /\ Finish(r) /\ index' = index
        /\ parent' = [parent EXCEPT ![r] = seen[r].content]
        /\ UpdateMessage(target[r], Edited(r)) \/ table' = table
    BY <1>6 DEF EditWrite
  <2>2. seen[r] \in Item /\ seen[r] # Absent /\ target[r] \in Messages
    BY <2>1, CopyFacts
  <2>3. PICK n \in Messages : n = target[r]
    BY <2>2
  <2>4. table[n] # Absent
    BY <2>1, <2>3, CopyFacts
  <2>5. UserOf[r] = SenderOf[n]
    BY <2>1, <2>3 DEF Typed
  <2>6. seen[r] \in Sound(n)
    BY <2>2, <2>3 DEF TextInv
  <2>7. Edited(r) \in Sound(n)'
    BY <2>1, <2>5, <2>6, FinishFacts, SoundEdit
  <2>8. \A q \in Requests \ {r} : parent'[q] = parent[q]
    BY <1>0, <2>1 DEF TypeOK
  <2>9. CASE table' = table
    BY <2>1, <2>8, <2>9, FinishFacts, TextStep
  <2>10. CASE UpdateMessage(n, Edited(r))
    <3>1. /\ Writes(n)
          /\ table'[n].content = Edited(r).content /\ table'[n].history = Edited(r).history
      BY <1>0, <2>2, <2>4, <2>10, EditedFacts, UpdateWrites
    <3>2. \A a \in Sound(n)', b \in Item :
             b.content = a.content /\ b.history = a.history => b \in Sound(n)'
      BY SoundAlike
    <3>3. table'[n] \in Sound(n)'
      BY <2>7, <3>1, <3>2 DEF Writes
    <3> QED BY <2>1, <2>8, <3>1, <3>3, FinishFacts, TextStep DEF Writes
  <2> QED BY <2>1, <2>3, <2>9, <2>10
<1>7. CASE DeleteWrite(r)
  <2>1. /\ pc[r] = "delete" /\ Finish(r) /\ UNCHANGED <<index, parent>>
        /\ SetDeleted(target[r]) \/ table' = table
    BY <1>7 DEF DeleteWrite
  <2>2. PICK n \in Messages : n = target[r] /\ table[n] # Absent
    BY <2>1, CopyFacts
  <2>3. CASE table' = table
    BY <1>5, <2>1, <2>3
  <2>4. CASE SetDeleted(n)
    <3>1. /\ Writes(n)
          /\ table'[n].content = table[n].content /\ table'[n].history = table[n].history
      BY <1>0, <2>2, <2>4, FlagWrites
    <3>2. table[n] \in Sound(n)'
      BY <2>1, <2>2, FinishFacts, SoundKept DEF TextInv
    <3>3. \A a \in Sound(n)', b \in Item :
             b.content = a.content /\ b.history = a.history => b \in Sound(n)'
      BY SoundAlike
    <3>4. table'[n] \in Sound(n)'
      BY <3>1, <3>2, <3>3 DEF Writes
    <3> QED BY <2>1, <3>1, <3>4, FinishFacts, TextStep DEF Writes
  <2> QED BY <2>1, <2>2, <2>3, <2>4
<1>8. CASE MarkReadLookUp(r)
  <2>1. PICK n \in Messages : n = target[r]
    BY <1>8 DEF MarkReadLookUp, Typed
  <2>2. pc[r] = "receipt" /\ UNCHANGED <<table, index, parent>>
    BY <1>8 DEF MarkReadLookUp
  <2>3. CASE Finish(r)
    BY <1>5, <2>2, <2>3
  <2>4. CASE /\ index[n] # Absent
             /\ seen' = [seen EXCEPT ![r] = index[n]]
             /\ pc' = [pc EXCEPT ![r] = "status"]
             /\ UNCHANGED target
    <3>1. /\ \A q \in Requests \ {r} : /\ pc'[q] = pc[q] /\ seen'[q] = seen[q]
          /\ seen'[r] = index[n] /\ target'[r] = n
      BY <1>0, <2>1, <2>4 DEF TypeOK
    <3>2. index[n] \in Sound(n)'
      BY <2>2, <2>4, <3>1, SoundKept DEF TextInv
    <3> QED BY <2>2, <2>4, <3>1, <3>2, TextStep
  <2> QED BY <1>8, <2>1, <2>3, <2>4 DEF MarkReadLookUp
<1>9. CASE MarkReadWrite(r) \/ ReviewWrite(r)
  <2>1. /\ pc[r] \notin {"idle", "receipt", "done"}
        /\ Finish(r) /\ UNCHANGED <<index, parent>>
    BY <1>9 DEF MarkReadWrite, ReviewWrite
  <2>2. seen[r] \in Item /\ seen[r] # Absent /\ target[r] \in Messages
    BY <2>1, CopyFacts
  <2>3. PICK n \in Messages : n = target[r]
    BY <2>2
  <2>4. table[n] # Absent
    BY <2>1, <2>3, CopyFacts
  <2>5. table' = table \/ \E copy \in Item : /\ copy.content = seen[r].content
                                             /\ copy.history = seen[r].history
                                             /\ UpdateMessage(n, copy)
    <3>1. /\ [seen[r] EXCEPT !.status = "read"] \in Item
          /\ [seen[r] EXCEPT !.status = "read"].content = seen[r].content
          /\ [seen[r] EXCEPT !.status = "read"].history = seen[r].history
      BY <2>2 DEF Item, Statuses
    <3>2. pc[r] \in {"approved", "rejected"} =>
             /\ [seen[r] EXCEPT !.moderation = pc[r]] \in Item
             /\ [seen[r] EXCEPT !.moderation = pc[r]].content = seen[r].content
             /\ [seen[r] EXCEPT !.moderation = pc[r]].history = seen[r].history
      BY <2>2 DEF Item, Reviews
    <3> QED BY <1>9, <2>3, <3>1, <3>2 DEF MarkReadWrite, ReviewWrite
  <2>6. seen[r] \in Sound(n)'
    BY <2>1, <2>2, <2>3, FinishFacts, SoundKept DEF TextInv
  <2>7. CASE table' = table
    BY <1>5, <2>1, <2>7
  <2>8. ASSUME NEW copy \in Item, copy.content = seen[r].content, copy.history = seen[r].history,
               UpdateMessage(n, copy)
        PROVE  TextInv'
    <3>1. /\ Writes(n)
          /\ table'[n].content = copy.content /\ table'[n].history = copy.history
      BY <1>0, <2>4, <2>8, UpdateWrites
    <3>2. \A a \in Sound(n)', b \in Item :
             b.content = a.content /\ b.history = a.history => b \in Sound(n)'
      BY SoundAlike
    <3>3. table'[n] \in Sound(n)'
      BY <2>6, <2>8, <3>1, <3>2 DEF Writes
    <3> QED BY <2>1, <3>1, <3>3, FinishFacts, TextStep DEF Writes
  <2> QED BY <2>5, <2>7, <2>8
<1>10. ASSUME NEW m \in Messages,
              \/ ForwardLookUp(r, m) \/ EditLookUp(r, m) \/ DeleteLookUp(r, m)
              \/ \E verdict \in {"approved", "rejected"} : ReviewLookUp(r, m, verdict)
       PROVE  TextInv'
  BY <1>1, <1>10 DEF ForwardLookUp, EditLookUp, DeleteLookUp, ReviewLookUp, Stages
<1>11. CASE ForwardEnds(r)
  BY <1>5, <1>11 DEF ForwardEnds
<1> QED BY <1>2, <1>3, <1>4, <1>6, <1>7, <1>8, <1>9, <1>10, <1>11 DEF RequestStep

LEMMA TextNext ==
    ASSUME Typed, TextInv, [Next]_vars
    PROVE  TextInv'
<1>1. ASSUME NEW m \in Messages, SendMessage(m)
      PROVE  TextInv'
  <2>1. m \in Contents /\ m \notin Requests
    BY MessagesAssumption DEF Contents
  <2>2. NewItem(m) \in Sound(m)
    BY <2>1, SoundNew
  <2>3. Writes(m) /\ table'[m] = NewItem(m)
    BY <1>1, <2>1, InsertWrites DEF SendMessage, Typed
  <2> QED BY <1>1, <2>2, <2>3, TextQuiet DEF SendMessage, Writes
<1>2. ASSUME NEW m \in Messages, IndexCatchesUp(m)
      PROVE  TextInv'
  <2>1. \A n \in Messages : index'[n] = index[n] \/ index'[n] = table[n]
    BY <1>2 DEF IndexCatchesUp, Typed, TypeOK
  <2> QED BY <1>2, <2>1, TextQuiet DEF IndexCatchesUp
<1>3. ASSUME UNCHANGED <<table, index, requests, parent>>
      PROVE  TextInv'
  <2>1. \A m : Sound(m)' = Sound(m)
    BY <1>3 DEF Sound, requests
  <2> QED BY <1>3, <2>1 DEF TextInv, requests
<1>4. CASE \/ \E m \in Messages : FifteenMinutesPass(m)
           \/ \E u \in Users : LeavesConversation(u)
           \/ UNCHANGED vars
  <2>1. UNCHANGED <<table, index, requests, parent>>
    BY <1>4 DEF FifteenMinutesPass, LeavesConversation, vars, requests
  <2> QED BY <1>3, <2>1
<1> QED BY <1>1, <1>2, <1>4, TextRequest DEF Next

LEMMA TextInit == Init => TextInv
BY DEF Init, TextInv

LEMMA TextHolds == Spec => []TextInv
BY TypedHolds, TextInit, TextNext, PTL DEF Spec

\* The history a reader is shown is a line of descent, however stale the copies are that
\* edits, read receipts and reviews write back.
THEOREM HistoryIsTrue == Spec => []HistoryIsLineage
<1>1. TextInv => HistoryIsLineage
  BY DEF TextInv, Sound, HistoryIsLineage
<1> QED BY <1>1, TextHolds, PTL

\* A text that a message was not created with was brought by a request of its sender.
THEOREM OnlySendersEdit == Spec => []TextIsTheSenders
<1>1. TextInv => TextIsTheSenders
  BY DEF TextInv, Sound, TextIsTheSenders
<1> QED BY <1>1, TextHolds, PTL

-----------------------------------------------------------------------------
(* Deletions.                                                              *)

LEMMA DeletedKept ==
    ASSUME Typed, [Next]_vars
    PROVE  \A m \in Messages :
              table[m] # Absent /\ table[m].deleted => table'[m].deleted
<1> DEFINE Kept(m) == table[m] # Absent /\ table[m].deleted => table'[m].deleted
<1>0. TypeOK
  BY DEF Typed
<1>1. ASSUME NEW n \in Messages, Writes(n), table[n] = Absent \/ Kept(n)
      PROVE  \A m \in Messages : Kept(m)
  BY <1>1 DEF Writes
<1>2. ASSUME NEW n \in Messages, NEW c \in Contents, InsertMessage(n, c)
      PROVE  \A m \in Messages : Kept(m)
  BY <1>0, <1>1, <1>2, InsertWrites DEF InsertMessage
<1>3. ASSUME NEW n \in Messages, NEW copy \in Item, table[n] # Absent, UpdateMessage(n, copy)
      PROVE  \A m \in Messages : Kept(m)
  BY <1>0, <1>1, <1>3, UpdateWrites
<1>4. ASSUME NEW n \in Messages, table[n] # Absent,
             SetDeleted(n) \/ table' = [table EXCEPT ![n].status = "delivered"]
      PROVE  \A m \in Messages : Kept(m)
  BY <1>0, <1>1, <1>4, FlagWrites
<1>5. ASSUME NEW r \in Requests, RequestStep(r)
      PROVE  \A m \in Messages : Kept(m)
  <2>1. ASSUME NEW m \in Messages, ForwardInsert(r, m)
        PROVE  \A n \in Messages : Kept(n)
    <3>1. seen[r].content \in Contents
      BY <2>1, CopyFacts DEF ForwardInsert, Item
    <3> QED BY <1>2, <2>1, <3>1 DEF ForwardInsert
  <2>2. ASSUME NEW m \in Messages, MarkDelivered(r, m)
        PROVE  \A n \in Messages : Kept(n)
    BY <1>4, <2>2 DEF MarkDelivered, Typed
  <2>3. CASE EditWrite(r) \/ MarkReadWrite(r) \/ ReviewWrite(r)
    <3>1. /\ seen[r] \in Item /\ target[r] \in Messages /\ table[target[r]] # Absent
      BY <2>3, CopyFacts DEF EditWrite, MarkReadWrite, ReviewWrite
    <3>2. /\ Edited(r) \in Item
          /\ [seen[r] EXCEPT !.status = "read"] \in Item
          /\ pc[r] \in {"approved", "rejected"} => [seen[r] EXCEPT !.moderation = pc[r]] \in Item
      BY <3>1, EditedFacts DEF Item, Statuses, Reviews
    <3>3. table' = table \/ \E copy \in Item : UpdateMessage(target[r], copy)
      BY <2>3, <3>2 DEF EditWrite, MarkReadWrite, ReviewWrite
    <3> QED BY <1>3, <3>1, <3>3
  <2>4. CASE DeleteWrite(r)
    <3>1. target[r] \in Messages /\ table[target[r]] # Absent
      BY <2>4, CopyFacts DEF DeleteWrite
    <3> QED BY <1>4, <2>4, <3>1 DEF DeleteWrite
  <2>5. \/ table' = table
        \/ \E m \in Messages : ForwardInsert(r, m) \/ MarkDelivered(r, m)
        \/ EditWrite(r) \/ MarkReadWrite(r) \/ ReviewWrite(r) \/ DeleteWrite(r)
    BY <1>5 DEF RequestStep, ForwardLookUp, EditLookUp, DeleteLookUp, MarkReadReceipt,
                ReviewLookUp, ForwardEnds, MarkReadLookUp
  <2> QED BY <2>1, <2>2, <2>3, <2>4, <2>5
<1>6. ASSUME NEW m \in Messages, SendMessage(m)
      PROVE  \A n \in Messages : Kept(n)
  BY <1>2, <1>6 DEF SendMessage, Contents
<1>7. CASE \/ \E m \in Messages : IndexCatchesUp(m) \/ FifteenMinutesPass(m)
           \/ \E u \in Users : LeavesConversation(u)
           \/ UNCHANGED vars
  <2>1. table' = table
    BY <1>7 DEF IndexCatchesUp, FifteenMinutesPass, LeavesConversation, vars
  <2> QED BY <2>1
<1> QED BY <1>5, <1>6, <1>7 DEF Next

\* No stale copy that is written back makes a deleted message visible again.
THEOREM DeletionsHold == Spec => DeletedForGood
<1>1. Typed /\ [Next]_vars =>
        [\A m \in Messages : table[m] # Absent /\ table[m].deleted => table'[m].deleted]_vars
  BY DeletedKept
<1> QED BY <1>1, TypedHolds, PTL DEF Spec, DeletedForGood
=============================================================================
