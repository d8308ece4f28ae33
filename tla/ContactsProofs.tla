--------------------------- MODULE ContactsProofs ---------------------------
(***************************************************************************)
(* Proofs about Contacts, for any number of users and requests: types,     *)
(* that friendship needs the consent of both, that a block holds, that the *)
(* handlers implement Friendship, and that two users agree.                *)
(*                                                                         *)
(* FriendsByConsent by itself is not inductive: an accept trusts a pending *)
(* row and a running request trusts what it checked, so the invariant also *)
(* says who stands behind every open request, in the table (Rows) and      *)
(* among the running handlers (Control).  BlockHolds needs in addition     *)
(* that no accept runs beside a blocked row (Firm); the refinement uses    *)
(* both.  FriendsAgree speaks of the moment when nothing runs and needs to *)
(* know what is owed before it: which request is about to write the row    *)
(* that is behind (Debts), and which conversation it carries (Meets).      *)
(***************************************************************************)
EXTENDS Contacts, TLAPS

\* The statuses a row of u about v may have, given who is willing.
Fits(u, v, s) ==
    /\ s \in Statuses
    /\ s = "sent" => <<u, v>> \in willing
    /\ s = "pending" => <<v, u>> \in willing
    /\ s = "accepted" => {<<u, v>>, <<v, u>>} \subseteq willing

\* The tables, and the consent behind every open request.
Rows ==
    /\ status \in [Users -> [Users -> Statuses]]
    /\ \A u, v \in Users : Fits(u, v, status[u][v])
    /\ chat \in [Users -> [Users -> Conversations \cup {NoChat}]]
    /\ created \subseteq Conversations
    /\ participants \in [Conversations -> SUBSET Users]
    /\ \A c \in Conversations \ created : participants[c] = {}

\* Which labels a handler goes through.
LabelsOf(handler) ==
    CASE handler = "send"   -> {"ask", "tell"}
      [] handler = "accept" -> {"find", "create", "join", "mine", "theirs"}
      [] handler = "direct" -> {"find", "create", "join"}
      [] handler = "block"  -> {"block", "blockTheirs"}
      [] handler = "none"   -> {"idle", "done"}

\* A running request: its users, its label, the consent it relies on, what it has found.
Runs(q) ==
    /\ op[q] \in Handlers
    /\ pc[q] \in LabelsOf(op[q])
    /\ op[q] = "none" => caller[q] = NoUser /\ other[q] = NoUser
    /\ op[q] # "none" => caller[q] \in Users /\ other[q] \in Users /\ caller[q] # other[q]
    /\ op[q] = "send" => <<caller[q], other[q]>> \in willing
    /\ op[q] = "accept" => {<<caller[q], other[q]>>, <<other[q], caller[q]>>} \subseteq willing
    /\ found[q] \in Conversations \cup {NoChat}
    /\ found[q] # NoChat => found[q] \in created
    /\ pc[q] = "join" => found[q] # NoChat

Control ==
    /\ pc \in [Requests -> Labels]
    /\ op \in [Requests -> Handlers]
    /\ caller \in [Requests -> Users \cup {NoUser}]
    /\ other \in [Requests -> Users \cup {NoUser}]
    /\ found \in [Requests -> Conversations \cup {NoChat}]
    /\ \A q \in Requests : Runs(q)

Ghosts ==
    /\ willing \subseteq Users \X Users
    /\ outrun \subseteq SUBSET Users /\ doubled \subseteq SUBSET Users
    /\ failed \subseteq SUBSET Users

IInv == Rows /\ Control /\ Ghosts

LEMMA IInvIsEnough == IInv => TypeOK /\ FriendsByConsent
  <1> SUFFICES ASSUME IInv PROVE TypeOK /\ FriendsByConsent
    OBVIOUS
  <1>1. FriendsByConsent
    BY DEF IInv, Rows, Fits, FriendsByConsent
  <1>2. ASSUME NEW q \in Requests
        PROVE  /\ (op[q] # "none") = (caller[q] # other[q])
               /\ (op[q] # "none") = (pc[q] \notin {"idle", "done"})
    <2>1. Runs(q)
      BY DEF IInv, Control
    <2>2. QED
      BY <2>1 DEF Runs, LabelsOf, Handlers
  <1>3. TypeOK
    BY <1>2 DEF IInv, Rows, Control, Ghosts, TypeOK
  <1>4. QED
    BY <1>1, <1>3

LEMMA InitIInv == Init => IInv
  BY ContactsAssumption
  DEF Init, IInv, Rows, Control, Ghosts, Runs, LabelsOf, Fits, Statuses, Handlers, Labels

-----------------------------------------------------------------------------
(* What a step does to the control.                                        *)

\* A request goes on within its handler.
LEMMA GotoControl ==
    ASSUME Control, NEW q \in Requests, op[q] # "none",
           NEW label \in LabelsOf(op[q]), Goto(q, label),
           found' \in [Requests -> Conversations \cup {NoChat}],
           \A p \in Requests \ {q} : found'[p] = found[p],
           created \subseteq created',
           found'[q] # NoChat => found'[q] \in created',
           label = "join" => found'[q] # NoChat
    PROVE  Control'
  <1>1. label \in Labels
    BY DEF Control, LabelsOf, Labels, Handlers
  <1>2. /\ pc' = [pc EXCEPT ![q] = label]
        /\ UNCHANGED <<op, caller, other, willing>>
    BY DEF Goto, request
  <1>3. ASSUME NEW p \in Requests PROVE Runs(p)'
    <2>1. Runs(p)
      BY DEF Control
    <2>2. CASE p = q
      BY <1>2, <2>1, <2>2 DEF Control, Runs
    <2>3. CASE p # q
      BY <1>2, <2>1, <2>3 DEF Control, Runs
    <2>4. QED
      BY <2>2, <2>3
  <1>4. QED
    BY <1>1, <1>2, <1>3 DEF Control

\* A request is over.
LEMMA EndsControl ==
    ASSUME Control, NEW q \in Requests, Ends(q), created \subseteq created'
    PROVE  Control'
  <1>1. ASSUME NEW p \in Requests PROVE Runs(p)'
    <2>1. Runs(p)
      BY DEF Control
    <2>2. CASE p = q
      BY <2>2 DEF Control, Ends, Runs, LabelsOf, Handlers
    <2>3. CASE p # q
      BY <2>1, <2>3 DEF Control, Ends, Runs
    <2>4. QED
      BY <2>2, <2>3
  <1>2. QED
    BY <1>1 DEF Control, Ends, Labels, Handlers

\* A request begins; the willing may become more.
LEMMA StartsControl ==
    ASSUME Control, NEW q \in Requests, NEW u \in Users, NEW v \in Users,
           NEW handler \in {"send", "accept", "direct", "block"},
           NEW label \in LabelsOf(handler), label # "join", Starts(q, handler, label, u, v),
           willing \subseteq willing',
           handler = "send" => <<u, v>> \in willing',
           handler = "accept" => {<<u, v>>, <<v, u>>} \subseteq willing'
    PROVE  Control'
  <1>1. label \in Labels
    BY DEF LabelsOf, Labels
  <1>2. /\ u # v
        /\ pc' = [pc EXCEPT ![q] = label] /\ op' = [op EXCEPT ![q] = handler]
        /\ caller' = [caller EXCEPT ![q] = u] /\ other' = [other EXCEPT ![q] = v]
        /\ UNCHANGED <<found, created>>
    BY DEF Starts, direct
  <1>3. ASSUME NEW p \in Requests PROVE Runs(p)'
    <2>1. Runs(p)
      BY DEF Control
    <2>2. CASE p = q
      BY <1>2, <2>1, <2>2 DEF Control, Runs, Handlers
    <2>3. CASE p # q
      BY <1>2, <2>1, <2>3 DEF Control, Runs
    <2>4. QED
      BY <2>2, <2>3
  <1>4. QED
    BY <1>1, <1>2, <1>3 DEF Control, Handlers

-----------------------------------------------------------------------------
(* What a step does to the rows.                                           *)

\* One row gets a status its users are willing to have.
LEMMA RowChanges ==
    ASSUME Rows, NEW u \in Users, NEW v \in Users, NEW s, Fits(u, v, s),
           SetStatus(u, v, s), UNCHANGED <<willing, created, participants>>,
           chat' \in [Users -> [Users -> Conversations \cup {NoChat}]]
    PROVE  Rows'
  <1>1. /\ status' \in [Users -> [Users -> Statuses]]
        /\ \A x, y \in Users :
              status'[x][y] = IF x = u /\ y = v THEN s ELSE status[x][y]
    BY DEF Rows, SetStatus, Fits
  <1>2. ASSUME NEW x \in Users, NEW y \in Users PROVE Fits(x, y, status[x][y])'
    <2>1. CASE x = u /\ y = v
      BY <1>1, <2>1 DEF Fits
    <2>2. CASE ~(x = u /\ y = v)
      BY <1>1, <2>2 DEF Rows, Fits
    <2>3. QED
      BY <2>1, <2>2
  <1>3. QED
    BY <1>1, <1>2 DEF Rows

\* No row changes, and nobody is less willing.
LEMMA RowsStay ==
    ASSUME Rows, UNCHANGED <<status, chat, created, participants>>, willing \subseteq willing'
    PROVE  Rows'
  BY DEF Rows, Fits

\* The failure of a statement.
LEMMA FailsFacts ==
    ASSUME Rows, Control, Ghosts, NEW q \in Requests, op[q] # "none", Fails(q),
           UNCHANGED <<willing, outrun, doubled>>
    PROVE  Rows' /\ Ghosts'
  <1>1. Pair(q) \in SUBSET Users
    BY DEF Control, Runs, Pair
  <1>2. UNCHANGED <<status, chat, created, participants>>
    BY DEF Fails, contacts, direct
  <1>3. Rows'
    BY <1>2, RowsStay
  <1>4. Ghosts'
    BY <1>1 DEF Ghosts, Fails
  <1>5. QED
    BY <1>3, <1>4

LEMMA GhostsStay ==
    ASSUME Ghosts, UNCHANGED <<willing, outrun, doubled, failed>>
    PROVE  Ghosts'
  BY DEF Ghosts

LEMMA GotoFrame ==
    ASSUME NEW q, NEW label, Goto(q, label)
    PROVE  UNCHANGED <<willing, outrun, doubled>>
  BY DEF Goto

LEMMA EndsFrame ==
    ASSUME NEW q, Ends(q)
    PROVE  UNCHANGED <<willing, outrun, doubled>>
  BY DEF Ends

-----------------------------------------------------------------------------
(* The steps.                                                              *)

LEMMA StartIInv ==
    ASSUME IInv, NEW q \in Requests, NEW u \in Users, NEW v \in Users,
           \/ StartSend(q, u, v)
           \/ StartAccept(q, u, v)
           \/ StartDirect(q, u, v)
           \/ StartBlock(q, u, v)
    PROVE  IInv'
  <1>1. PICK handler \in {"send", "accept", "direct", "block"},
             label \in {"ask", "find", "block"} :
          /\ label \in LabelsOf(handler)
          /\ Starts(q, handler, label, u, v)
          /\ willing \subseteq willing' /\ willing' \subseteq Users \X Users
          /\ handler = "send" => <<u, v>> \in willing'
          /\ handler = "accept" => {<<u, v>>, <<v, u>>} \subseteq willing'
    <2>1. CASE StartSend(q, u, v)
      BY <2>1 DEF StartSend, LabelsOf, IInv, Ghosts
    <2>2. CASE StartAccept(q, u, v)
      <3>1. <<v, u>> \in willing
        BY <2>2 DEF StartAccept, MayAccept, IInv, Rows, Fits
      <3>2. QED
        BY <2>2, <3>1 DEF StartAccept, LabelsOf, IInv, Ghosts
    <2>3. CASE StartDirect(q, u, v)
      BY <2>3 DEF StartDirect, LabelsOf, IInv, Ghosts
    <2>4. CASE StartBlock(q, u, v)
      BY <2>4 DEF StartBlock, LabelsOf, IInv, Ghosts
    <2>5. QED
      BY <2>1, <2>2, <2>3, <2>4
  <1>2. Control'
    BY <1>1, StartsControl DEF IInv
  <1>3. Rows'
    BY <1>1, RowsStay DEF IInv, Starts, contacts, direct
  <1>4. Ghosts'
    BY <1>1 DEF IInv, Ghosts, Starts
  <1>5. QED
    BY <1>2, <1>3, <1>4 DEF IInv

\* What is known of a running request.
LEMMA Running ==
    ASSUME IInv, NEW q \in Requests, pc[q] \notin {"idle", "done"}
    PROVE  /\ op[q] # "none" /\ Runs(q)
           /\ caller[q] \in Users /\ other[q] \in Users
           /\ pc[q] \in {"ask", "tell"} => op[q] = "send"
           /\ pc[q] \in {"find", "create", "join"} => op[q] \in {"accept", "direct"}
           /\ pc[q] \in {"mine", "theirs"} => op[q] = "accept"
           /\ pc[q] \in {"block", "blockTheirs"} => op[q] = "block"
  <1>1. Runs(q)
    BY DEF IInv, Control
  <1>2. QED
    BY <1>1 DEF Runs, LabelsOf, Handlers

LEMMA UpsertFits ==
    ASSUME Rows, NEW u \in Users, NEW v \in Users, NEW s \in {"sent", "pending"},
           s = "sent" => <<u, v>> \in willing, s = "pending" => <<v, u>> \in willing
    PROVE  Fits(u, v, Upsert(u, v, s))
  BY DEF Rows, Fits, Upsert, Statuses

LEMMA AskIInv ==
    ASSUME IInv, NEW q \in Requests, Ask(q)
    PROVE  IInv'
  <1>1. op[q] = "send" /\ Runs(q) /\ caller[q] \in Users /\ other[q] \in Users
    BY Running DEF Ask
  <1>2. CASE Fails(q) /\ Ends(q)
    <2>1. created' = created
      BY <1>2 DEF Fails, direct
    <2>2. QED
      BY <1>1, <1>2, <2>1, FailsFacts, EndsFrame, EndsControl DEF IInv
  <1>3. CASE /\ SetStatus(caller[q], other[q], Upsert(caller[q], other[q], "sent"))
             /\ Goto(q, "tell")
             /\ UNCHANGED <<chat, direct, found>>
             /\ Works
    <2>1. UNCHANGED <<willing, outrun, doubled, failed, created, participants, chat, found>>
      BY <1>3, GotoFrame DEF Works, direct
    <2>2. Fits(caller[q], other[q], Upsert(caller[q], other[q], "sent"))
      BY <1>1, UpsertFits DEF IInv, Runs
    <2>3. Rows'
      BY <1>1, <1>3, <2>1, <2>2, RowChanges DEF IInv, Rows
    <2>4. Control'
      BY <1>1, <1>3, <2>1, GotoControl DEF IInv, Control, Runs, LabelsOf
    <2>5. QED
      BY <2>1, <2>3, <2>4, GhostsStay DEF IInv
  <1>4. QED
    BY <1>2, <1>3 DEF Ask

\* A statement that ends the request and sets a status that fits one row.
LEMMA LastStatement ==
    ASSUME IInv, NEW q \in Requests, op[q] # "none", Ends(q),
           \/ /\ UNCHANGED <<created, participants>> /\ Works
              /\ chat' \in [Users -> [Users -> Conversations \cup {NoChat}]]
              /\ \E u, v \in Users : \E s \in Statuses : Fits(u, v, s) /\ SetStatus(u, v, s)
           \/ Fails(q)
    PROVE  IInv'
  <1>1. created' = created
    BY DEF Fails, direct
  <1>2. Control'
    BY <1>1, EndsControl DEF IInv
  <1>3. UNCHANGED <<willing, outrun, doubled>>
    BY EndsFrame
  <1>4. Rows' /\ Ghosts'
    <2>1. CASE Fails(q)
      BY <2>1, <1>3, FailsFacts DEF IInv
    <2>2. CASE ~Fails(q)
      BY <2>2, <1>3, RowChanges, GhostsStay DEF IInv, Works
    <2>3. QED
      BY <2>1, <2>2
  <1>5. QED
    BY <1>2, <1>4 DEF IInv

LEMMA TellIInv ==
    ASSUME IInv, NEW q \in Requests, Tell(q)
    PROVE  IInv'
  <1>1. op[q] = "send" /\ Runs(q) /\ caller[q] \in Users /\ other[q] \in Users
    BY Running DEF Tell
  <1>2. Fits(other[q], caller[q], Upsert(other[q], caller[q], "pending"))
    BY <1>1, UpsertFits DEF IInv, Runs
  <1>3. Upsert(other[q], caller[q], "pending") \in Statuses
    BY <1>2 DEF Fits
  <1>4. chat \in [Users -> [Users -> Conversations \cup {NoChat}]]
    BY DEF IInv, Rows
  <1>5. \/ /\ UNCHANGED <<created, participants>> /\ Works
           /\ chat' \in [Users -> [Users -> Conversations \cup {NoChat}]]
           /\ SetStatus(other[q], caller[q], Upsert(other[q], caller[q], "pending"))
        \/ Fails(q)
    BY <1>4 DEF Tell, direct
  <1>6. QED
    BY <1>1, <1>2, <1>3, <1>5, LastStatement DEF Tell

\* A step that goes on in the handler without touching a row.
LEMMA GoesOn ==
    ASSUME IInv, NEW q \in Requests, op[q] # "none", NEW label \in LabelsOf(op[q]),
           Goto(q, label), UNCHANGED contacts, Works,
           created \subseteq created', created' \subseteq Conversations,
           participants' \in [Conversations -> SUBSET Users],
           \A c \in Conversations \ created' : participants'[c] = {},
           found' \in [Requests -> Conversations \cup {NoChat}],
           \A p \in Requests \ {q} : found'[p] = found[p],
           found'[q] # NoChat => found'[q] \in created',
           label = "join" => found'[q] # NoChat
    PROVE  IInv'
  <1>1. Control'
    BY GotoControl DEF IInv
  <1>2. UNCHANGED <<willing, outrun, doubled, failed, status, chat>>
    BY GotoFrame DEF Works, contacts
  <1>3. Rows'
    BY <1>2 DEF IInv, Rows, Fits
  <1>4. QED
    BY <1>1, <1>2, <1>3, GhostsStay DEF IInv

\* A failure after which the handler goes on.
LEMMA FailsGoesOn ==
    ASSUME IInv, NEW q \in Requests, op[q] # "none", NEW label \in LabelsOf(op[q]),
           Goto(q, label), Fails(q), UNCHANGED found, label # "join"
    PROVE  IInv'
  <1>1. UNCHANGED <<willing, outrun, doubled>> /\ created' = created
    BY GotoFrame DEF Fails, direct
  <1>2. Rows' /\ Ghosts'
    BY <1>1, FailsFacts DEF IInv
  <1>3. Control'
    BY <1>1, GotoControl DEF IInv, Control, Runs
  <1>4. QED
    BY <1>2, <1>3 DEF IInv

\* The end of a request that leaves the rows alone.
LEMMA JustEnds ==
    ASSUME IInv, NEW q \in Requests, op[q] # "none", Ends(q), UNCHANGED contacts, Works,
           created' = created, participants' \in [Conversations -> SUBSET Users],
           \A c \in Conversations \ created : participants'[c] = {}
    PROVE  IInv'
  <1>1. Control'
    BY EndsControl DEF IInv
  <1>2. UNCHANGED <<willing, outrun, doubled, failed, status, chat>>
    BY EndsFrame DEF Works, contacts
  <1>3. Rows'
    BY <1>2 DEF IInv, Rows, Fits
  <1>4. QED
    BY <1>1, <1>2, <1>3, GhostsStay DEF IInv

LEMMA FindChatIInv ==
    ASSUME IInv, NEW q \in Requests, FindChat(q)
    PROVE  IInv'
  <1> DEFINE shared == {c \in created : Pair(q) \subseteq participants[c]}
  <1>1. op[q] \in {"accept", "direct"} /\ Runs(q)
    BY Running DEF FindChat
  <1>2. UNCHANGED <<contacts, created, participants>> /\ Works
    BY DEF FindChat, direct
  <1>3. /\ created \subseteq Conversations /\ participants \in [Conversations -> SUBSET Users]
        /\ \A c \in Conversations \ created : participants[c] = {}
        /\ found \in [Requests -> Conversations \cup {NoChat}]
    BY DEF IInv, Rows, Control
  <1>4. CASE Goto(q, "create") /\ UNCHANGED found
    BY <1>1, <1>2, <1>3, <1>4, GoesOn DEF Runs, LabelsOf
  <1>5. CASE Ends(q)
    BY <1>1, <1>2, <1>3, <1>5, JustEnds
  <1>6. ASSUME op[q] # "direct", NEW c \in shared, found' = [found EXCEPT ![q] = c], Goto(q, "mine")
        PROVE  IInv'
    <2>1. c \in created /\ "mine" \in LabelsOf(op[q])
      BY <1>1, <1>6 DEF LabelsOf
    <2>2. QED
      BY <1>1, <1>2, <1>3, <1>6, <2>1, GoesOn
  <1>7. QED
    BY <1>4, <1>5, <1>6 DEF FindChat

LEMMA CreateChatIInv ==
    ASSUME IInv, NEW q \in Requests, CreateChat(q)
    PROVE  IInv'
  <1>1. op[q] \in {"accept", "direct"} /\ Runs(q)
    BY Running DEF CreateChat
  <1>2. /\ created \subseteq Conversations /\ participants \in [Conversations -> SUBSET Users]
        /\ \A c \in Conversations \ created : participants[c] = {}
        /\ found \in [Requests -> Conversations \cup {NoChat}]
    BY DEF IInv, Rows, Control
  <1>3. ASSUME NEW c \in Conversations \ created, created' = created \cup {c},
               found' = [found EXCEPT ![q] = c], Goto(q, "join"),
               UNCHANGED <<contacts, participants>>, Works
        PROVE  IInv'
    <2>1. "join" \in LabelsOf(op[q]) /\ c # NoChat
      BY <1>1, ContactsAssumption DEF LabelsOf
    <2>2. QED
      BY <1>1, <1>2, <1>3, <2>1, GoesOn
  <1>4. CASE Fails(q) /\ Ends(q)
    BY <1>1, <1>4, LastStatement
  <1>5. CASE Fails(q) /\ op[q] # "direct" /\ Goto(q, "mine") /\ UNCHANGED found
    <2>1. "mine" \in LabelsOf(op[q])
      BY <1>1, <1>5 DEF LabelsOf
    <2>2. QED
      BY <1>1, <1>5, <2>1, FailsGoesOn
  <1>6. QED
    BY <1>3, <1>4, <1>5 DEF CreateChat

LEMMA JoinChatIInv ==
    ASSUME IInv, NEW q \in Requests, JoinChat(q)
    PROVE  IInv'
  <1>1. op[q] \in {"accept", "direct"} /\ Runs(q) /\ pc[q] = "join"
    BY Running DEF JoinChat
  <1>2. found[q] \in created /\ Pair(q) \in SUBSET Users
    BY <1>1 DEF Runs, Pair
  <1>3. /\ created \subseteq Conversations /\ participants \in [Conversations -> SUBSET Users]
        /\ \A c \in Conversations \ created : participants[c] = {}
        /\ found \in [Requests -> Conversations \cup {NoChat}]
    BY DEF IInv, Rows, Control
  <1>4. \/ Ends(q)
        \/ op[q] # "direct" /\ Goto(q, "mine") /\ UNCHANGED found /\ "mine" \in LabelsOf(op[q])
    BY <1>1 DEF JoinChat, LabelsOf
  <1>5. CASE Fails(q)
    <2>1. CASE Ends(q)
      BY <1>1, <1>5, <2>1, LastStatement
    <2>2. CASE Goto(q, "mine") /\ UNCHANGED found /\ "mine" \in LabelsOf(op[q])
      BY <1>1, <1>5, <2>2, FailsGoesOn
    <2>3. QED
      BY <1>4, <2>1, <2>2
  <1>6. CASE /\ participants' = [participants EXCEPT ![found[q]] = Pair(q)]
             /\ UNCHANGED <<contacts, created>>
             /\ Works
    <2>1. /\ participants' \in [Conversations -> SUBSET Users]
          /\ \A c \in Conversations \ created : participants'[c] = {}
      BY <1>2, <1>3, <1>6
    <2>2. CASE Ends(q)
      BY <1>1, <1>6, <2>1, <2>2, JustEnds
    <2>3. CASE Goto(q, "mine") /\ UNCHANGED found /\ "mine" \in LabelsOf(op[q])
      BY <1>1, <1>2, <1>3, <1>6, <2>1, <2>3, GoesOn
    <2>4. QED
      BY <1>4, <2>2, <2>3
  <1>7. QED
    BY <1>5, <1>6 DEF JoinChat

\* An acceptance fits the row it is written to, because the request has both users' consent.
LEMMA AcceptRowRows ==
    ASSUME Rows, NEW q \in Requests, NEW u \in Users, NEW v \in Users,
           {<<u, v>>, <<v, u>>} \subseteq willing, found[q] \in Conversations,
           AcceptRow(q, u, v), UNCHANGED <<willing, created, participants>>
    PROVE  Rows'
  <1>1. CASE UNCHANGED contacts
    BY <1>1, RowsStay DEF contacts
  <1>2. CASE SetStatus(u, v, "accepted") /\ chat' = [chat EXCEPT ![u][v] = found[q]]
    <2>1. chat' \in [Users -> [Users -> Conversations \cup {NoChat}]]
      BY <1>2 DEF Rows
    <2>2. Fits(u, v, "accepted")
      BY DEF Fits, Statuses
    <2>3. QED
      BY <1>2, <2>1, <2>2, RowChanges
  <1>3. QED
    BY <1>1, <1>2 DEF AcceptRow

LEMMA AcceptMineIInv ==
    ASSUME IInv, NEW q \in Requests, AcceptMine(q)
    PROVE  IInv'
  <1>1. op[q] = "accept" /\ Runs(q) /\ caller[q] \in Users /\ other[q] \in Users
    BY Running DEF AcceptMine
  <1>2. "theirs" \in LabelsOf(op[q]) /\ Goto(q, "theirs") /\ UNCHANGED found
    BY <1>1 DEF AcceptMine, LabelsOf
  <1>3. CASE Fails(q)
    BY <1>1, <1>2, <1>3, FailsGoesOn
  <1>4. CASE found[q] # NoChat /\ AcceptRow(q, caller[q], other[q]) /\ UNCHANGED direct /\ Works
    <2>1. UNCHANGED <<willing, outrun, doubled, failed, created, participants>>
      BY <1>2, <1>4, GotoFrame DEF Works, direct
    <2>2. found[q] \in Conversations
      BY <1>1, <1>4 DEF Runs
    <2>3. {<<caller[q], other[q]>>, <<other[q], caller[q]>>} \subseteq willing
      BY <1>1 DEF Runs
    <2>4. Rows'
      BY <1>1, <1>4, <2>1, <2>2, <2>3, AcceptRowRows DEF IInv
    <2>5. Control'
      BY <1>1, <1>2, <2>1, GotoControl DEF IInv, Control, Runs
    <2>6. QED
      BY <2>1, <2>4, <2>5, GhostsStay DEF IInv
  <1>5. QED
    BY <1>3, <1>4 DEF AcceptMine

LEMMA AcceptTheirsIInv ==
    ASSUME IInv, NEW q \in Requests, AcceptTheirs(q)
    PROVE  IInv'
  <1>1. op[q] = "accept" /\ Runs(q) /\ caller[q] \in Users /\ other[q] \in Users
    BY Running DEF AcceptTheirs
  <1>2. Ends(q)
    BY DEF AcceptTheirs
  <1>3. CASE Fails(q)
    BY <1>1, <1>2, <1>3, LastStatement
  <1>4. CASE found[q] # NoChat /\ AcceptRow(q, other[q], caller[q]) /\ UNCHANGED direct /\ Works
    <2>1. UNCHANGED <<willing, outrun, doubled, failed, created, participants>>
      BY <1>2, <1>4, EndsFrame DEF Works, direct
    <2>2. found[q] \in Conversations
      BY <1>1, <1>4 DEF Runs
    <2>3. {<<caller[q], other[q]>>, <<other[q], caller[q]>>} \subseteq willing
      BY <1>1 DEF Runs
    <2>4. Rows'
      BY <1>1, <1>4, <2>1, <2>2, <2>3, AcceptRowRows DEF IInv
    <2>5. Control'
      BY <1>2, <2>1, EndsControl DEF IInv
    <2>6. QED
      BY <2>1, <2>4, <2>5, GhostsStay DEF IInv
  <1>5. QED
    BY <1>3, <1>4 DEF AcceptTheirs

LEMMA RejectIInv ==
    ASSUME IInv, NEW q \in Requests, NEW u \in Users, NEW v \in Users, Reject(q, u, v)
    PROVE  IInv'
  <1>1. /\ u # v /\ pc[q] = "idle" /\ pc' = [pc EXCEPT ![q] = "done"]
        /\ UNCHANGED <<chat, created, participants, op, caller, other, found,
                       willing, outrun, doubled>>
    BY DEF Reject, direct, request
  <1>2. Control'
    <2>1. ASSUME NEW p \in Requests PROVE Runs(p)'
      <3>1. Runs(p)
        BY DEF IInv, Control
      <3>2. CASE p = q
        BY <1>1, <3>1, <3>2 DEF IInv, Control, Runs, LabelsOf, Handlers
      <3>3. CASE p # q
        BY <1>1, <3>1, <3>3 DEF IInv, Control, Runs
      <3>4. QED
        BY <3>2, <3>3
    <2>2. QED
      BY <1>1, <2>1 DEF IInv, Control, Labels
  <1>3. Ghosts'
    <2>1. {u, v} \in SUBSET Users
      OBVIOUS
    <2>2. failed' \in {failed, failed \cup {{u, v}}}
      BY DEF Reject, Works
    <2>3. QED
      BY <1>1, <2>1, <2>2 DEF IInv, Ghosts
  <1>4. Rows'
    <2>1. CASE UNCHANGED status
      BY <1>1, <2>1, RowsStay DEF IInv
    <2>2. CASE status' = [status EXCEPT ![u][v] = Rejected(@), ![v][u] = Rejected(@)]
      <3>1. status \in [Users -> [Users -> Statuses]]
        BY DEF IInv, Rows
      <3>2. ASSUME NEW s \in Statuses
            PROVE  Rejected(s) \in Statuses /\ (Rejected(s) = s \/ Rejected(s) = "rejected")
        BY DEF Rejected, Statuses
      <3>3. ASSUME NEW x \in Users, NEW y \in Users
            PROVE  status'[x][y] \in {status[x][y], Rejected(status[x][y])}
        BY <1>1, <2>2, <3>1
      <3>4. status' \in [Users -> [Users -> Statuses]]
        <4>1. Rejected(status[u][v]) \in Statuses /\ Rejected(status[v][u]) \in Statuses
          BY <3>1, <3>2
        <4>2. QED
          BY <1>1, <2>2, <3>1, <4>1
      <3>5. ASSUME NEW x \in Users, NEW y \in Users PROVE Fits(x, y, status[x][y])'
        <4>1. status'[x][y] = status[x][y] \/ status'[x][y] = "rejected"
          BY <3>1, <3>2, <3>3
        <4>2. QED
          BY <1>1, <4>1 DEF IInv, Rows, Fits, Statuses
      <3>6. QED
        BY <1>1, <3>4, <3>5 DEF IInv, Rows
    <2>3. QED
      BY <2>1, <2>2 DEF Reject
  <1>5. QED
    BY <1>2, <1>3, <1>4 DEF IInv

LEMMA BlockMineIInv ==
    ASSUME IInv, NEW q \in Requests, BlockMine(q)
    PROVE  IInv'
  <1>1. op[q] = "block" /\ Runs(q) /\ caller[q] \in Users /\ other[q] \in Users
    BY Running DEF BlockMine
  <1>2. "blockTheirs" \in LabelsOf(op[q]) /\ Goto(q, "blockTheirs") /\ UNCHANGED found
    BY <1>1 DEF BlockMine, LabelsOf
  <1>3. CASE Fails(q)
    BY <1>1, <1>2, <1>3, FailsGoesOn
  <1>4. CASE SetStatus(caller[q], other[q], "blocked") /\ UNCHANGED <<chat, direct>> /\ Works
    <2>1. UNCHANGED <<willing, outrun, doubled, failed, chat, created, participants>>
      BY <1>2, <1>4, GotoFrame DEF Works, direct
    <2>2. Fits(caller[q], other[q], "blocked")
      BY DEF Fits, Statuses
    <2>3. Rows'
      BY <1>1, <1>4, <2>1, <2>2, RowChanges DEF IInv, Rows
    <2>4. Control'
      BY <1>1, <1>2, <2>1, GotoControl DEF IInv, Control, Runs
    <2>5. QED
      BY <2>1, <2>3, <2>4, GhostsStay DEF IInv
  <1>5. QED
    BY <1>3, <1>4 DEF BlockMine

LEMMA BlockTheirsIInv ==
    ASSUME IInv, NEW q \in Requests, BlockTheirs(q)
    PROVE  IInv'
  <1>1. op[q] = "block" /\ caller[q] \in Users /\ other[q] \in Users
    BY Running DEF BlockTheirs
  <1>2. Fits(other[q], caller[q], "blocked") /\ "blocked" \in Statuses
    BY DEF Fits, Statuses
  <1>3. chat \in [Users -> [Users -> Conversations \cup {NoChat}]]
    BY DEF IInv, Rows
  <1>4. \/ /\ UNCHANGED <<created, participants>> /\ Works
           /\ chat' \in [Users -> [Users -> Conversations \cup {NoChat}]]
           /\ SetStatus(other[q], caller[q], "blocked")
        \/ Fails(q)
    BY <1>3 DEF BlockTheirs, direct
  <1>5. QED
    BY <1>1, <1>2, <1>4, LastStatement DEF BlockTheirs

-----------------------------------------------------------------------------
(* The invariant, and the theorems.                                        *)

LEMMA NextIInv == IInv /\ [Next]_vars => IInv'
  <1> SUFFICES ASSUME IInv, [Next]_vars PROVE IInv'
    OBVIOUS
  <1>1. CASE UNCHANGED vars
    BY <1>1 DEF vars, IInv, Rows, Fits, Control, Runs, Ghosts
  <1>2. ASSUME NEW q \in Requests, RequestStep(q) PROVE IInv'
    <2>1. ASSUME NEW u \in Users, NEW v \in Users,
                 \/ StartSend(q, u, v) \/ StartAccept(q, u, v) \/ StartDirect(q, u, v)
                 \/ StartBlock(q, u, v) \/ Reject(q, u, v)
          PROVE  IInv'
      BY <2>1, StartIInv, RejectIInv
    <2>2. CASE Ask(q)
      BY <2>2, AskIInv
    <2>3. CASE Tell(q)
      BY <2>3, TellIInv
    <2>4. CASE FindChat(q)
      BY <2>4, FindChatIInv
    <2>5. CASE CreateChat(q)
      BY <2>5, CreateChatIInv
    <2>6. CASE JoinChat(q)
      BY <2>6, JoinChatIInv
    <2>7. CASE AcceptMine(q)
      BY <2>7, AcceptMineIInv
    <2>8. CASE AcceptTheirs(q)
      BY <2>8, AcceptTheirsIInv
    <2>9. CASE BlockMine(q)
      BY <2>9, BlockMineIInv
    <2>10. CASE BlockTheirs(q)
      BY <2>10, BlockTheirsIInv
    <2>11. QED
      BY <1>2, <2>1, <2>2, <2>3, <2>4, <2>5, <2>6, <2>7, <2>8, <2>9, <2>10 DEF RequestStep
  <1>3. QED
    BY <1>1, <1>2 DEF Next

LEMMA Inductive == Spec => []IInv
  <1>1. Init => IInv
    BY InitIInv
  <1>2. IInv /\ [Next]_vars => IInv'
    BY NextIInv
  <1>3. QED
    BY <1>1, <1>2, PTL DEF Spec

\* The state of the contact handlers has its types, and a request has a pair of users
\* exactly while it runs.
THEOREM TypeCorrect == Spec => []TypeOK
  <1>1. IInv => TypeOK
    BY IInvIsEnough
  <1>2. QED
    BY <1>1, Inductive, PTL

\* Whatever the users ask, reject, accept and block at the same time, and whichever
\* statements fail, nobody has a friend who did not ask or accept.
THEOREM Consent == Spec => []FriendsByConsent
  <1>1. IInv => FriendsByConsent
    BY IInvIsEnough
  <1>2. QED
    BY <1>1, Inductive, PTL

-----------------------------------------------------------------------------
(* Blocks.  BlockHolds needs to know that no accept runs beside a blocked  *)
(* row (unless the two overlapped), and for that how far blocks have come. *)

Excused == outrun \cup failed

\* A block and an accept that run at the same time have been noticed.
Crossed ==
    \A p, q \in Requests :
        op[p] = "block" /\ op[q] = "accept" /\ Pair(p) = Pair(q) => Pair(p) \in outrun

\* A block that has done its first row still has it.
HalfBlocked ==
    \A p \in Requests :
        op[p] = "block" /\ pc[p] = "blockTheirs" /\ Pair(p) \notin Excused
            => status[caller[p]][other[p]] = "blocked"

\* No accept runs beside a blocked row.
NoneAccepts ==
    \A u, v \in Users :
        status[u][v] = "blocked" /\ {u, v} \notin Excused => ~On(u, v, {"accept"})

\* A blocked row is one of two, or the block is not over.
BothOrRunning ==
    \A u, v \in Users :
        status[u][v] = "blocked" /\ {u, v} \notin Excused
            => status[v][u] = "blocked" \/ On(u, v, {"block"})

Firm == Crossed /\ HalfBlocked /\ NoneAccepts /\ BothOrRunning

\* Most steps begin no accept and no block, end no block and leave the blocked rows.
LEMMA FirmStays ==
    ASSUME Firm, outrun \subseteq outrun', failed \subseteq failed',
           \A p \in Requests :
              op'[p] \in {"accept", "block"} =>
                 op[p] = op'[p] /\ caller'[p] = caller[p] /\ other'[p] = other[p],
           \A p \in Requests :
              op[p] = "block" =>
                 op'[p] = "block" /\ caller'[p] = caller[p] /\ other'[p] = other[p],
           \A p \in Requests : op'[p] = "block" /\ pc'[p] = "blockTheirs" => pc[p] = "blockTheirs",
           Control, Control',
           \A u, v \in Users :
              {u, v} \notin Excused' => (status'[u][v] = "blocked" <=> status[u][v] = "blocked")
    PROVE  Firm'
  <1>1. Excused \subseteq Excused'
    BY DEF Excused
  <1>2. Crossed'
    BY DEF Firm, Crossed, Pair
  <1>3. HalfBlocked'
    <2>1. ASSUME NEW p \in Requests, op'[p] = "block", pc'[p] = "blockTheirs",
                 Pair(p)' \notin Excused'
          PROVE  status'[caller'[p]][other'[p]] = "blocked"
      <3>1. op[p] = "block" /\ pc[p] = "blockTheirs" /\ caller'[p] = caller[p] /\ other'[p] = other[p]
        BY <2>1
      <3>2. Pair(p) \notin Excused' /\ Pair(p) \notin Excused
        BY <1>1, <2>1, <3>1 DEF Pair
      <3>3. caller[p] \in Users /\ other[p] \in Users
        BY <3>1 DEF Control, Runs
      <3>4. status[caller[p]][other[p]] = "blocked"
        BY <3>1, <3>2 DEF Firm, HalfBlocked
      <3>5. {caller[p], other[p]} \notin Excused'
        BY <3>2 DEF Pair
      <3>6. status'[caller[p]][other[p]] = "blocked"
        BY <3>3, <3>4, <3>5
      <3>7. QED
        BY <3>1, <3>6
    <2>2. QED
      BY <2>1 DEF HalfBlocked
  <1>4. NoneAccepts'
    <2>1. ASSUME NEW u \in Users, NEW v \in Users, status'[u][v] = "blocked",
                 {u, v} \notin Excused', NEW p \in Requests, op'[p] = "accept", Pair(p)' = {u, v}
          PROVE  FALSE
      <3>1. status[u][v] = "blocked" /\ {u, v} \notin Excused
        BY <1>1, <2>1
      <3>2. op[p] = "accept" /\ Pair(p) = {u, v}
        BY <2>1 DEF Pair
      <3>3. On(u, v, {"accept"})
        BY <3>2 DEF On
      <3>4. QED
        BY <3>1, <3>3 DEF Firm, NoneAccepts
    <2>2. QED
      BY <2>1 DEF NoneAccepts, On
  <1>5. BothOrRunning'
    <2>1. ASSUME NEW u \in Users, NEW v \in Users, status'[u][v] = "blocked", {u, v} \notin Excused'
          PROVE  status'[v][u] = "blocked" \/ On(u, v, {"block"})'
      <3>1. {v, u} \notin Excused' /\ {u, v} \notin Excused
        <4>1. {u, v} = {v, u}
          OBVIOUS
        <4>2. QED
          BY <1>1, <2>1, <4>1
      <3>2. status[v][u] = "blocked" \/ On(u, v, {"block"})
        BY <2>1, <3>1 DEF Firm, BothOrRunning
      <3>3. On(u, v, {"block"}) => On(u, v, {"block"})'
        BY DEF On, Pair
      <3>4. QED
        BY <3>1, <3>2, <3>3
    <2>2. QED
      BY <2>1 DEF BothOrRunning
  <1>6. QED
    BY <1>2, <1>3, <1>4, <1>5 DEF Firm

\* A pair has no order.
LEMMA OnPair ==
    ASSUME NEW u, NEW v, NEW handlers
    PROVE  On(u, v, handlers) <=> On(v, u, handlers)
  <1>1. {u, v} = {v, u}
    OBVIOUS
  <1>2. QED
    BY <1>1 DEF On

\* A request that begins belongs to no handler yet.
LEMMA StartFresh ==
    ASSUME IInv, NEW q \in Requests, pc[q] = "idle"
    PROVE  op[q] = "none"
  <1>1. Runs(q)
    BY DEF IInv, Control
  <1>2. QED
    BY <1>1 DEF Runs, LabelsOf, Handlers

LEMMA StartOtherFirm ==
    ASSUME IInv, IInv', Firm, NEW q \in Requests, NEW u \in Users, NEW v \in Users,
           StartSend(q, u, v) \/ StartDirect(q, u, v)
    PROVE  Firm'
  <1>1. /\ op[q] = "none" /\ status' = status /\ failed' = failed /\ outrun \subseteq outrun'
        /\ caller' = [caller EXCEPT ![q] = u] /\ other' = [other EXCEPT ![q] = v]
    BY StartFresh DEF StartSend, StartDirect, Starts, contacts
  <1>2. /\ pc' = [pc EXCEPT ![q] = "ask"] \/ pc' = [pc EXCEPT ![q] = "find"]
        /\ op' = [op EXCEPT ![q] = "send"] \/ op' = [op EXCEPT ![q] = "direct"]
    BY StartFresh DEF StartSend, StartDirect, Starts, contacts
  <1>3. /\ pc \in [Requests -> Labels] /\ op \in [Requests -> Handlers]
        /\ caller \in [Requests -> Users \cup {NoUser}] /\ other \in [Requests -> Users \cup {NoUser}]
    BY DEF IInv, Control
  <1>4. ASSUME NEW p \in Requests
        PROVE  /\ op'[p] \in {"accept", "block"} =>
                     op[p] = op'[p] /\ caller'[p] = caller[p] /\ other'[p] = other[p]
               /\ op[p] = "block" =>
                     op'[p] = "block" /\ caller'[p] = caller[p] /\ other'[p] = other[p]
               /\ op'[p] = "block" /\ pc'[p] = "blockTheirs" => pc[p] = "blockTheirs"
    <2>1. CASE p = q
      BY <1>1, <1>2, <1>3, <2>1
    <2>2. CASE p # q
      BY <1>1, <1>2, <1>3, <2>2
    <2>3. QED
      BY <2>1, <2>2
  <1>5. Control /\ Control'
    BY DEF IInv
  <1>6. QED
    BY <1>1, <1>4, <1>5, FirmStays

LEMMA StartAcceptFirm ==
    ASSUME IInv, Firm, NEW q \in Requests, NEW u \in Users, NEW v \in Users, StartAccept(q, u, v)
    PROVE  Firm'
  <1>1. /\ op[q] = "none" /\ status' = status /\ failed' = failed /\ outrun \subseteq outrun'
        /\ pc' = [pc EXCEPT ![q] = "find"] /\ op' = [op EXCEPT ![q] = "accept"]
        /\ caller' = [caller EXCEPT ![q] = u] /\ other' = [other EXCEPT ![q] = v]
        /\ status[u][v] = "pending"
    BY StartFresh DEF StartAccept, MayAccept, Starts, contacts
  <1>0. On(u, v, {"block"}) => {u, v} \in outrun'
    BY DEF StartAccept, Starts
  <1>2. /\ pc \in [Requests -> Labels] /\ op \in [Requests -> Handlers]
        /\ caller \in [Requests -> Users \cup {NoUser}] /\ other \in [Requests -> Users \cup {NoUser}]
    BY DEF IInv, Control
  <1>3. Excused \subseteq Excused'
    BY <1>1 DEF Excused
  <1>4. \A p \in Requests \ {q} : op'[p] = op[p] /\ Pair(p)' = Pair(p) /\ pc'[p] = pc[p]
                                  /\ caller'[p] = caller[p] /\ other'[p] = other[p]
    BY <1>1, <1>2 DEF Pair
  <1>5. op'[q] = "accept" /\ Pair(q)' = {u, v}
    BY <1>1, <1>2 DEF Pair
  <1>6. Crossed'
    <2>1. ASSUME NEW p \in Requests, NEW r \in Requests,
                 op'[p] = "block", op'[r] = "accept", Pair(p)' = Pair(r)'
          PROVE  Pair(p)' \in outrun'
      <3>1. p # q /\ op[p] = "block" /\ Pair(p)' = Pair(p)
        BY <1>4, <1>5, <2>1
      <3>2. CASE r = q
        <4>1. Pair(p) = {u, v}
          BY <1>5, <2>1, <3>1, <3>2
        <4>2. On(u, v, {"block"})
          BY <3>1, <4>1 DEF On
        <4>3. {u, v} \in outrun'
          BY <1>0, <4>2
        <4>4. Pair(p)' = {u, v}
          BY <1>5, <2>1, <3>2
        <4>5. QED
          BY <4>3, <4>4
      <3>3. CASE r # q
        <4>1. op[r] = "accept" /\ Pair(r)' = Pair(r)
          BY <1>4, <2>1, <3>3
        <4>2. Pair(p) \in outrun
          BY <2>1, <3>1, <4>1 DEF Firm, Crossed
        <4>3. QED
          BY <1>1, <3>1, <4>2
      <3>4. QED
        BY <3>2, <3>3
    <2>2. QED
      BY <2>1 DEF Crossed
  <1>7. HalfBlocked'
    BY <1>1, <1>3, <1>4, <1>5 DEF Firm, HalfBlocked
  <1>8. NoneAccepts'
    <2>1. ASSUME NEW x \in Users, NEW y \in Users, status[x][y] = "blocked", {x, y} \notin Excused',
                 NEW p \in Requests, op'[p] = "accept", Pair(p)' = {x, y}
          PROVE  FALSE
      <3>1. {x, y} \notin Excused
        BY <1>3, <2>1
      <3>2. CASE p # q
        <4>1. op[p] = "accept" /\ Pair(p) = {x, y}
          BY <1>4, <2>1, <3>2
        <4>2. On(x, y, {"accept"})
          BY <4>1 DEF On
        <4>3. QED
          BY <2>1, <3>1, <4>2 DEF Firm, NoneAccepts
      <3>3. CASE p = q
        <4>1. {u, v} = {x, y} /\ x = v /\ y = u
          BY <1>1, <1>5, <2>1, <3>3
        <4>2. On(v, u, {"block"})
          BY <1>1, <2>1, <3>1, <4>1 DEF Firm, BothOrRunning
        <4>3. {u, v} \in outrun'
          BY <1>0, <4>2, OnPair
        <4>4. QED
          BY <2>1, <4>1, <4>3 DEF Excused
      <3>4. QED
        BY <3>2, <3>3
    <2>2. QED
      BY <1>1, <2>1 DEF NoneAccepts, On
  <1>9. BothOrRunning'
    <2>1. \A x, y : On(x, y, {"block"}) => On(x, y, {"block"})'
      BY <1>1, <1>4 DEF On
    <2>2. QED
      BY <1>1, <1>3, <2>1 DEF Firm, BothOrRunning
  <1>10. QED
    BY <1>6, <1>7, <1>8, <1>9 DEF Firm

LEMMA StartBlockFirm ==
    ASSUME IInv, Firm, NEW q \in Requests, NEW u \in Users, NEW v \in Users, StartBlock(q, u, v)
    PROVE  Firm'
  <1>1. /\ op[q] = "none" /\ status' = status /\ failed' = failed /\ outrun \subseteq outrun'
        /\ pc' = [pc EXCEPT ![q] = "block"] /\ op' = [op EXCEPT ![q] = "block"]
        /\ caller' = [caller EXCEPT ![q] = u] /\ other' = [other EXCEPT ![q] = v]
    BY StartFresh DEF StartBlock, Starts, contacts
  <1>0. On(u, v, {"accept"}) => {u, v} \in outrun'
    BY DEF StartBlock, Starts
  <1>2. /\ pc \in [Requests -> Labels] /\ op \in [Requests -> Handlers]
        /\ caller \in [Requests -> Users \cup {NoUser}] /\ other \in [Requests -> Users \cup {NoUser}]
    BY DEF IInv, Control
  <1>3. Excused \subseteq Excused'
    BY <1>1 DEF Excused
  <1>4. \A p \in Requests \ {q} : op'[p] = op[p] /\ Pair(p)' = Pair(p) /\ pc'[p] = pc[p]
                                  /\ caller'[p] = caller[p] /\ other'[p] = other[p]
    BY <1>1, <1>2 DEF Pair
  <1>5. op'[q] = "block" /\ pc'[q] = "block" /\ Pair(q)' = {u, v}
    BY <1>1, <1>2 DEF Pair
  <1>6. Crossed'
    <2>1. ASSUME NEW p \in Requests, NEW r \in Requests,
                 op'[p] = "block", op'[r] = "accept", Pair(p)' = Pair(r)'
          PROVE  Pair(p)' \in outrun'
      <3>1. r # q /\ op[r] = "accept" /\ Pair(r)' = Pair(r)
        BY <1>4, <1>5, <2>1
      <3>2. CASE p = q
        <4>1. Pair(r) = {u, v}
          BY <1>5, <2>1, <3>1, <3>2
        <4>2. On(u, v, {"accept"})
          BY <3>1, <4>1 DEF On
        <4>3. QED
          BY <1>0, <1>5, <3>2, <4>2
      <3>3. CASE p # q
        <4>1. op[p] = "block" /\ Pair(p)' = Pair(p)
          BY <1>4, <2>1, <3>3
        <4>2. Pair(p) \in outrun
          BY <2>1, <3>1, <4>1 DEF Firm, Crossed
        <4>3. QED
          BY <1>1, <4>1, <4>2
      <3>4. QED
        BY <3>2, <3>3
    <2>2. QED
      BY <2>1 DEF Crossed
  <1>7. HalfBlocked'
    BY <1>1, <1>3, <1>4, <1>5 DEF Firm, HalfBlocked
  <1>8. NoneAccepts'
    <2>1. \A x, y : On(x, y, {"accept"})' => On(x, y, {"accept"})
      BY <1>4, <1>5 DEF On
    <2>2. QED
      BY <1>1, <1>3, <2>1 DEF Firm, NoneAccepts
  <1>9. BothOrRunning'
    <2>1. \A x, y : On(x, y, {"block"}) => On(x, y, {"block"})'
      BY <1>1, <1>4 DEF On
    <2>2. QED
      BY <1>1, <1>3, <2>1 DEF Firm, BothOrRunning
  <1>10. QED
    BY <1>6, <1>7, <1>8, <1>9 DEF Firm

\* What SetStatus does to one row.
LEMMA OneRow ==
    ASSUME status \in [Users -> [Users -> Statuses]], NEW u \in Users, NEW v \in Users, NEW s,
           SetStatus(u, v, s), NEW x \in Users, NEW y \in Users
    PROVE  status'[x][y] = IF x = u /\ y = v THEN s ELSE status[x][y]
  BY DEF SetStatus

\* Most other steps leave the users of the requests and the blocked rows alone.
LEMMA QuietFirm ==
    ASSUME IInv, IInv', Firm, NEW q \in Requests, op[q] # "block",
           Ends(q) \/ \E label \in Labels \ {"blockTheirs"} : Goto(q, label),
           failed \subseteq failed',
           \A u, v \in Users :
              {u, v} \notin Excused' => (status'[u][v] = "blocked" <=> status[u][v] = "blocked")
    PROVE  Firm'
  <1>1. outrun' = outrun
    BY DEF Ends, Goto
  <1>2. Control /\ Control'
    BY DEF IInv
  <1>3. ASSUME NEW p \in Requests
        PROVE  /\ op'[p] \in {"accept", "block"} =>
                     op[p] = op'[p] /\ caller'[p] = caller[p] /\ other'[p] = other[p]
               /\ op[p] = "block" =>
                     op'[p] = "block" /\ caller'[p] = caller[p] /\ other'[p] = other[p]
               /\ op'[p] = "block" /\ pc'[p] = "blockTheirs" => pc[p] = "blockTheirs"
    <2>1. CASE Ends(q)
      BY <1>2, <2>1 DEF Ends, Control
    <2>2. CASE \E label \in Labels \ {"blockTheirs"} : Goto(q, label)
      BY <1>2, <2>2 DEF Goto, request, Control
    <2>3. QED
      BY <2>1, <2>2
  <1>4. QED
    BY <1>1, <1>2, <1>3, FirmStays

\* The statements of the other handlers that write no row, and those that upsert.
LEMMA HarmlessFirm ==
    ASSUME IInv, IInv', Firm, NEW q \in Requests,
           Ask(q) \/ Tell(q) \/ FindChat(q) \/ CreateChat(q) \/ JoinChat(q)
    PROVE  Firm'
  <1>1. op[q] # "block"
    BY Running DEF Ask, Tell, FindChat, CreateChat, JoinChat
  <1>2. caller[q] \in Users /\ other[q] \in Users
    BY Running DEF Ask, Tell, FindChat, CreateChat, JoinChat
  <1>3. failed \subseteq failed'
    BY DEF Ask, Tell, FindChat, CreateChat, JoinChat, Works, Fails
  <1>4. Ends(q) \/ \E label \in Labels \ {"blockTheirs"} : Goto(q, label)
    BY DEF Ask, Tell, FindChat, CreateChat, JoinChat, Labels
  <1>5. ASSUME NEW x \in Users, NEW y \in Users
        PROVE  status'[x][y] = "blocked" <=> status[x][y] = "blocked"
    <2>1. status \in [Users -> [Users -> Statuses]]
      BY DEF IInv, Rows
    <2>2. CASE status' = status
      BY <2>2
    <2>3. ASSUME NEW u \in Users, NEW v \in Users, NEW s \in {"sent", "pending"},
                 SetStatus(u, v, Upsert(u, v, s))
          PROVE  status'[x][y] = "blocked" <=> status[x][y] = "blocked"
      BY <2>1, <2>3 DEF SetStatus, Upsert
    <2>4. \/ status' = status
          \/ \E u, v \in Users : \E s \in {"sent", "pending"} : SetStatus(u, v, Upsert(u, v, s))
      BY <1>2 DEF Ask, Tell, FindChat, CreateChat, JoinChat, Fails, contacts
    <2>5. QED
      BY <2>2, <2>3, <2>4
  <1>6. QED
    BY <1>1, <1>3, <1>4, <1>5, QuietFirm

\* An accept under way writes rows that are not blocked, or it ran beside the block.
LEMMA AcceptFirm ==
    ASSUME IInv, IInv', Firm, NEW q \in Requests, AcceptMine(q) \/ AcceptTheirs(q)
    PROVE  Firm'
  <1>1. op[q] = "accept" /\ caller[q] \in Users /\ other[q] \in Users
    BY Running DEF AcceptMine, AcceptTheirs
  <1>2. failed \subseteq failed'
    BY DEF AcceptMine, AcceptTheirs, Works, Fails
  <1>3. Ends(q) \/ \E label \in Labels \ {"blockTheirs"} : Goto(q, label)
    BY DEF AcceptMine, AcceptTheirs, Labels
  <1>4. \/ status' = status
        \/ SetStatus(caller[q], other[q], "accepted")
        \/ SetStatus(other[q], caller[q], "accepted")
    BY DEF AcceptMine, AcceptTheirs, AcceptRow, Fails, contacts
  <1>5. outrun' = outrun
    BY <1>3 DEF Ends, Goto
  <1>6. status \in [Users -> [Users -> Statuses]]
    BY DEF IInv, Rows
  <1>7. ASSUME NEW x \in Users, NEW y \in Users, {x, y} \notin Excused'
        PROVE  status'[x][y] = "blocked" <=> status[x][y] = "blocked"
    <2>1. {x, y} \notin Excused
      BY <1>2, <1>5, <1>7 DEF Excused
    <2>2. ASSUME status[x][y] = "blocked"
          PROVE  ~(x = caller[q] /\ y = other[q]) /\ ~(x = other[q] /\ y = caller[q])
      <3>1. ASSUME Pair(q) = {x, y} PROVE FALSE
        BY <1>1, <2>1, <2>2, <3>1 DEF Firm, NoneAccepts, On
      <3>2. QED
        BY <3>1 DEF Pair
    <2>3. CASE status' = status
      BY <2>3
    <2>4. CASE SetStatus(caller[q], other[q], "accepted")
      <3>1. status'[x][y] = IF x = caller[q] /\ y = other[q] THEN "accepted" ELSE status[x][y]
        BY <1>1, <1>6, <2>4, OneRow
      <3>2. QED
        BY <2>2, <3>1
    <2>5. CASE SetStatus(other[q], caller[q], "accepted")
      <3>1. status'[x][y] = IF x = other[q] /\ y = caller[q] THEN "accepted" ELSE status[x][y]
        BY <1>1, <1>6, <2>5, OneRow
      <3>2. QED
        BY <2>2, <3>1
    <2>6. QED
      BY <1>4, <2>3, <2>4, <2>5
  <1>8. QED
    BY <1>1, <1>2, <1>3, <1>7, QuietFirm

LEMMA RejectFirm ==
    ASSUME IInv, IInv', Firm, NEW q \in Requests, NEW u \in Users, NEW v \in Users, Reject(q, u, v)
    PROVE  Firm'
  <1>1. /\ outrun' = outrun /\ op' = op /\ caller' = caller /\ other' = other
        /\ pc' = [pc EXCEPT ![q] = "done"] /\ failed \subseteq failed'
    BY DEF Reject, request, Works
  <1>2. Control /\ Control' /\ pc \in [Requests -> Labels]
    BY DEF IInv, Control
  <1>3. ASSUME NEW p \in Requests, pc'[p] = "blockTheirs" PROVE pc[p] = "blockTheirs"
    BY <1>1, <1>2, <1>3
  <1>4. ASSUME NEW x \in Users, NEW y \in Users
        PROVE  status'[x][y] = "blocked" <=> status[x][y] = "blocked"
    <2>1. status \in [Users -> [Users -> Statuses]]
      BY DEF IInv, Rows
    <2>2. CASE status' = status
      BY <2>2
    <2>3. CASE status' = [status EXCEPT ![u][v] = Rejected(@), ![v][u] = Rejected(@)]
      <3>1. status'[x][y] \in {status[x][y], Rejected(status[x][y]), Rejected(Rejected(status[x][y]))}
        BY <2>1, <2>3
      <3>2. QED
        BY <3>1 DEF Rejected
    <2>4. QED
      BY <2>2, <2>3 DEF Reject
  <1>5. QED
    BY <1>1, <1>2, <1>3, <1>4, FirmStays

LEMMA BlockMineFirm ==
    ASSUME IInv, Firm, NEW q \in Requests, BlockMine(q)
    PROVE  Firm'
  <1>1. op[q] = "block" /\ caller[q] \in Users /\ other[q] \in Users
    BY Running DEF BlockMine
  <1>2. /\ UNCHANGED <<op, caller, other, outrun>> /\ pc' = [pc EXCEPT ![q] = "blockTheirs"]
        /\ pc \in [Requests -> Labels]
    BY DEF BlockMine, Goto, request, IInv, Control
  <1>3. /\ status \in [Users -> [Users -> Statuses]]
        /\ failed \subseteq failed'
    BY DEF BlockMine, Works, Fails, IInv, Rows
  <1>4. \/ status' = status /\ Pair(q) \in failed'
        \/ SetStatus(caller[q], other[q], "blocked")
    BY DEF BlockMine, Fails, contacts
  <1>5. Excused \subseteq Excused'
    BY <1>2, <1>3 DEF Excused
  <1>6. ASSUME NEW x \in Users, NEW y \in Users
        PROVE  /\ status[x][y] = "blocked" => status'[x][y] = "blocked"
               /\ status'[x][y] = "blocked" =>
                     status[x][y] = "blocked" \/ (x = caller[q] /\ y = other[q])
    <2>1. CASE status' = status
      BY <2>1
    <2>2. CASE SetStatus(caller[q], other[q], "blocked")
      BY <1>1, <1>3, <2>2, OneRow
    <2>3. QED
      BY <1>4, <2>1, <2>2
  <1>7. \A p : Pair(p)' = Pair(p)
    BY <1>2 DEF Pair
  <1>8. \A x, y, h : On(x, y, h)' <=> On(x, y, h)
    BY <1>2 DEF On, Pair
  <1>9. Crossed'
    BY <1>2, <1>7 DEF Firm, Crossed
  <1>10. HalfBlocked'
    <2>1. ASSUME NEW p \in Requests, op'[p] = "block", pc'[p] = "blockTheirs",
                 Pair(p)' \notin Excused'
          PROVE  status'[caller'[p]][other'[p]] = "blocked"
      <3>1. op[p] = "block" /\ caller'[p] = caller[p] /\ other'[p] = other[p]
        BY <1>2, <2>1
      <3>2. caller[p] \in Users /\ other[p] \in Users
        BY <3>1 DEF IInv, Control, Runs
      <3>3. Pair(p) \notin Excused' /\ Pair(p) \notin Excused
        BY <1>5, <1>7, <2>1
      <3>4. CASE p = q
        <4>1. SetStatus(caller[q], other[q], "blocked")
          BY <1>4, <3>3, <3>4 DEF Excused
        <4>2. QED
          BY <1>1, <1>3, <3>1, <3>4, <4>1, OneRow
      <3>5. CASE p # q
        <4>1. pc[p] = "blockTheirs"
          BY <1>2, <2>1, <3>5
        <4>2. status[caller[p]][other[p]] = "blocked"
          BY <3>1, <3>3, <4>1 DEF Firm, HalfBlocked
        <4>3. QED
          BY <1>6, <3>1, <3>2, <4>2
      <3>6. QED
        BY <3>4, <3>5
    <2>2. QED
      BY <2>1 DEF HalfBlocked
  <1>11. NoneAccepts'
    <2>1. ASSUME NEW x \in Users, NEW y \in Users, status'[x][y] = "blocked", {x, y} \notin Excused',
                 On(x, y, {"accept"})
          PROVE  FALSE
      <3>1. {x, y} \notin Excused
        BY <1>5, <2>1
      <3>2. status[x][y] # "blocked"
        BY <2>1, <3>1 DEF Firm, NoneAccepts
      <3>3. x = caller[q] /\ y = other[q]
        BY <1>6, <2>1, <3>2
      <3>4. PICK p \in Requests : op[p] \in {"accept"} /\ Pair(p) = {x, y}
        BY <2>1 DEF On
      <3>5. Pair(q) = {x, y}
        BY <3>3 DEF Pair
      <3>6. Pair(q) \in outrun
        BY <1>1, <3>4, <3>5 DEF Firm, Crossed
      <3>7. QED
        BY <3>1, <3>5, <3>6 DEF Excused
    <2>2. QED
      BY <1>8, <2>1 DEF NoneAccepts
  <1>12. BothOrRunning'
    <2>1. ASSUME NEW x \in Users, NEW y \in Users, status'[x][y] = "blocked", {x, y} \notin Excused'
          PROVE  status'[y][x] = "blocked" \/ On(x, y, {"block"})
      <3>1. CASE status[x][y] = "blocked"
        BY <1>5, <1>6, <2>1, <3>1 DEF Firm, BothOrRunning
      <3>2. CASE x = caller[q] /\ y = other[q]
        <4>1. Pair(q) = {x, y}
          BY <3>2 DEF Pair
        <4>2. On(x, y, {"block"})
          BY <1>1, <4>1 DEF On
        <4>3. QED
          BY <4>2
      <3>3. QED
        BY <1>6, <2>1, <3>1, <3>2
    <2>2. QED
      BY <1>8, <2>1 DEF BothOrRunning
  <1>13. QED
    BY <1>9, <1>10, <1>11, <1>12 DEF Firm

LEMMA BlockTheirsFirm ==
    ASSUME IInv, Firm, NEW q \in Requests, BlockTheirs(q)
    PROVE  Firm'
  <1>1. op[q] = "block" /\ caller[q] \in Users /\ other[q] \in Users
    BY Running DEF BlockTheirs
  <1>2. /\ outrun' = outrun
        /\ \A p \in Requests \ {q} : /\ op'[p] = op[p] /\ pc'[p] = pc[p] /\ Pair(p)' = Pair(p)
                                     /\ caller'[p] = caller[p] /\ other'[p] = other[p]
        /\ op'[q] = "none"
    BY DEF BlockTheirs, Ends, IInv, Control, Pair
  <1>3. /\ status \in [Users -> [Users -> Statuses]]
        /\ failed \subseteq failed'
    BY DEF BlockTheirs, Works, Fails, IInv, Rows
  <1>4. \/ status' = status /\ Pair(q) \in failed'
        \/ SetStatus(other[q], caller[q], "blocked")
    BY DEF BlockTheirs, Fails, contacts
  <1>5. Excused \subseteq Excused'
    BY <1>2, <1>3 DEF Excused
  <1>6. ASSUME NEW x \in Users, NEW y \in Users
        PROVE  /\ status[x][y] = "blocked" => status'[x][y] = "blocked"
               /\ status'[x][y] = "blocked" =>
                     status[x][y] = "blocked" \/ (x = other[q] /\ y = caller[q])
    <2>1. CASE status' = status
      BY <2>1
    <2>2. CASE SetStatus(other[q], caller[q], "blocked")
      BY <1>1, <1>3, <2>2, OneRow
    <2>3. QED
      BY <1>4, <2>1, <2>2
  <1>7. Pair(q) \notin Excused' =>
           /\ status'[caller[q]][other[q]] = "blocked"
           /\ status'[other[q]][caller[q]] = "blocked"
    <2>1. ASSUME Pair(q) \notin Excused'
          PROVE  /\ status'[caller[q]][other[q]] = "blocked"
                 /\ status'[other[q]][caller[q]] = "blocked"
      <3>1. status[caller[q]][other[q]] = "blocked"
        <4>1. Pair(q) \notin Excused
          BY <1>5, <2>1
        <4>2. QED
          BY <1>1, <4>1 DEF Firm, HalfBlocked, BlockTheirs
      <3>2. SetStatus(other[q], caller[q], "blocked")
        BY <1>4, <2>1 DEF Excused
      <3>3. QED
        BY <1>1, <1>3, <1>6, <3>1, <3>2, OneRow
    <2>2. QED
      BY <2>1
  <1>8. Crossed'
    <2>1. ASSUME NEW p \in Requests, NEW r \in Requests,
                 op'[p] = "block", op'[r] = "accept", Pair(p)' = Pair(r)'
          PROVE  Pair(p)' \in outrun
      <3>1. /\ p # q /\ op[p] = "block" /\ Pair(p)' = Pair(p)
            /\ r # q /\ op[r] = "accept" /\ Pair(r)' = Pair(r)
        BY <1>2, <2>1
      <3>2. Pair(p) \in outrun
        BY <2>1, <3>1 DEF Firm, Crossed
      <3>3. QED
        BY <3>1, <3>2
    <2>2. QED
      BY <1>2, <2>1 DEF Crossed
  <1>9. HalfBlocked'
    <2>1. ASSUME NEW p \in Requests, op'[p] = "block", pc'[p] = "blockTheirs",
                 Pair(p)' \notin Excused'
          PROVE  status'[caller'[p]][other'[p]] = "blocked"
      <3>0. p # q
        BY <1>2, <2>1
      <3>1. /\ op[p] = "block" /\ pc[p] = "blockTheirs"
            /\ caller'[p] = caller[p] /\ other'[p] = other[p]
        BY <1>2, <2>1
      <3>2. caller[p] \in Users /\ other[p] \in Users
        BY <3>1 DEF IInv, Control, Runs
      <3>3. Pair(p) \notin Excused
        BY <1>2, <1>5, <2>1, <3>0
      <3>4. status[caller[p]][other[p]] = "blocked"
        BY <3>1, <3>3 DEF Firm, HalfBlocked
      <3>5. QED
        BY <1>6, <3>1, <3>2, <3>4
    <2>2. QED
      BY <2>1 DEF HalfBlocked
  <1>10. NoneAccepts'
    <2>1. ASSUME NEW x \in Users, NEW y \in Users, status'[x][y] = "blocked", {x, y} \notin Excused',
                 NEW p \in Requests, op'[p] = "accept", Pair(p)' = {x, y}
          PROVE  FALSE
      <3>1. {x, y} \notin Excused /\ op[p] = "accept" /\ Pair(p) = {x, y}
        BY <1>2, <1>5, <2>1
      <3>2. On(x, y, {"accept"})
        BY <3>1 DEF On
      <3>3. status[x][y] # "blocked"
        BY <3>1, <3>2 DEF Firm, NoneAccepts
      <3>4. Pair(q) = {x, y}
        BY <1>6, <2>1, <3>3 DEF Pair
      <3>5. Pair(q) \in outrun
        BY <1>1, <3>1, <3>4 DEF Firm, Crossed
      <3>6. QED
        BY <3>1, <3>4, <3>5 DEF Excused
    <2>2. QED
      BY <2>1 DEF NoneAccepts, On
  <1>11. BothOrRunning'
    <2>1. ASSUME NEW x \in Users, NEW y \in Users, status'[x][y] = "blocked", {x, y} \notin Excused'
          PROVE  status'[y][x] = "blocked" \/ On(x, y, {"block"})'
      <3>1. CASE x = caller[q] /\ y = other[q]
        <4>1. Pair(q) = {x, y}
          BY <3>1 DEF Pair
        <4>2. QED
          BY <1>7, <2>1, <3>1, <4>1
      <3>2. CASE x = other[q] /\ y = caller[q]
        <4>1. Pair(q) = {x, y}
          BY <3>2 DEF Pair
        <4>2. QED
          BY <1>7, <2>1, <3>2, <4>1
      <3>3. CASE ~(x = caller[q] /\ y = other[q]) /\ ~(x = other[q] /\ y = caller[q])
        <4>1. status[x][y] = "blocked" /\ {x, y} \notin Excused
          BY <1>5, <1>6, <2>1, <3>3
        <4>2. CASE status[y][x] = "blocked"
          BY <1>6, <4>2
        <4>3. CASE On(x, y, {"block"})
          <5>1. PICK p \in Requests : op[p] = "block" /\ Pair(p) = {x, y}
            BY <4>3 DEF On
          <5>2. p # q
            BY <3>3, <5>1 DEF Pair
          <5>3. op'[p] = "block" /\ Pair(p)' = {x, y}
            BY <1>2, <5>1, <5>2
          <5>4. QED
            BY <5>3 DEF On
        <4>4. QED
          BY <4>1, <4>2, <4>3 DEF Firm, BothOrRunning
      <3>4. QED
        BY <3>1, <3>2, <3>3
    <2>2. QED
      BY <2>1 DEF BothOrRunning
  <1>12. QED
    BY <1>8, <1>9, <1>10, <1>11 DEF Firm

-----------------------------------------------------------------------------
LEMMA InitFirm == Init => Firm
  BY DEF Init, Firm, Crossed, HalfBlocked, NoneAccepts, BothOrRunning

LEMMA NextFirm == IInv /\ IInv' /\ Firm /\ [Next]_vars => Firm'
  <1> SUFFICES ASSUME IInv, IInv', Firm, [Next]_vars PROVE Firm'
    OBVIOUS
  <1>1. CASE UNCHANGED vars
    <2>1. Control /\ Control' /\ UNCHANGED <<status, pc, op, caller, other, outrun, failed>>
      BY <1>1 DEF IInv, vars
    <2>2. QED
      BY <2>1, FirmStays
  <1>2. ASSUME NEW q \in Requests, RequestStep(q) PROVE Firm'
    <2>1. ASSUME NEW u \in Users, NEW v \in Users,
                 \/ StartSend(q, u, v) \/ StartAccept(q, u, v) \/ StartDirect(q, u, v)
                 \/ StartBlock(q, u, v) \/ Reject(q, u, v)
          PROVE  Firm'
      BY <2>1, StartOtherFirm, StartAcceptFirm, StartBlockFirm, RejectFirm
    <2>2. CASE Ask(q) \/ Tell(q) \/ FindChat(q) \/ CreateChat(q) \/ JoinChat(q)
      BY <2>2, HarmlessFirm
    <2>3. CASE AcceptMine(q) \/ AcceptTheirs(q)
      BY <2>3, AcceptFirm
    <2>4. CASE BlockMine(q)
      BY <2>4, BlockMineFirm
    <2>5. CASE BlockTheirs(q)
      BY <2>5, BlockTheirsFirm
    <2>6. QED
      BY <1>2, <2>1, <2>2, <2>3, <2>4, <2>5 DEF RequestStep
  <1>3. QED
    BY <1>1, <1>2 DEF Next

LEMMA AlwaysFirm == Spec => []Firm
  <1>1. Init => Firm
    BY InitFirm
  <1>2. IInv /\ IInv' /\ Firm /\ [Next]_vars => Firm'
    BY NextFirm
  <1>3. QED
    BY <1>1, <1>2, Inductive, PTL DEF Spec

\* One step takes no block back.
LEMMA BlockedStays ==
    ASSUME IInv, Firm, [Next]_vars, NEW u \in Users, NEW v \in Users,
           status[u][v] = "blocked", {u, v} \notin Excused
    PROVE  status'[u][v] = "blocked"
  <1>1. status \in [Users -> [Users -> Statuses]]
    BY DEF IInv, Rows
  <1>2. CASE status' = status
    BY <1>2
  <1>3. ASSUME NEW q \in Requests, Ask(q) \/ Tell(q) PROVE status'[u][v] = "blocked"
    <2>1. caller[q] \in Users /\ other[q] \in Users
      BY <1>3, Running DEF Ask, Tell
    <2>2. CASE SetStatus(caller[q], other[q], Upsert(caller[q], other[q], "sent"))
      BY <1>1, <2>1, <2>2, OneRow DEF Upsert
    <2>3. CASE SetStatus(other[q], caller[q], Upsert(other[q], caller[q], "pending"))
      BY <1>1, <2>1, <2>3, OneRow DEF Upsert
    <2>4. QED
      BY <1>2, <1>3, <2>2, <2>3 DEF Ask, Tell, Fails, contacts
  <1>4. ASSUME NEW q \in Requests, AcceptMine(q) \/ AcceptTheirs(q) PROVE status'[u][v] = "blocked"
    <2>1. op[q] = "accept" /\ caller[q] \in Users /\ other[q] \in Users
      BY <1>4, Running DEF AcceptMine, AcceptTheirs
    <2>2. ~(u = caller[q] /\ v = other[q]) /\ ~(u = other[q] /\ v = caller[q])
      <3>1. ASSUME Pair(q) = {u, v} PROVE FALSE
        BY <2>1, <3>1 DEF Firm, NoneAccepts, On
      <3>2. QED
        BY <3>1 DEF Pair
    <2>3. \/ status' = status
          \/ SetStatus(caller[q], other[q], "accepted")
          \/ SetStatus(other[q], caller[q], "accepted")
      BY <1>4 DEF AcceptMine, AcceptTheirs, AcceptRow, Fails, contacts
    <2>4. CASE SetStatus(caller[q], other[q], "accepted")
      BY <1>1, <2>1, <2>2, <2>4, OneRow
    <2>5. CASE SetStatus(other[q], caller[q], "accepted")
      BY <1>1, <2>1, <2>2, <2>5, OneRow
    <2>6. QED
      BY <1>2, <2>3, <2>4, <2>5
  <1>5. ASSUME NEW q \in Requests, BlockMine(q) \/ BlockTheirs(q) PROVE status'[u][v] = "blocked"
    <2>1. caller[q] \in Users /\ other[q] \in Users
      BY <1>5, Running DEF BlockMine, BlockTheirs
    <2>2. CASE SetStatus(caller[q], other[q], "blocked")
      BY <1>1, <2>1, <2>2, OneRow
    <2>3. CASE SetStatus(other[q], caller[q], "blocked")
      BY <1>1, <2>1, <2>3, OneRow
    <2>4. QED
      BY <1>2, <1>5, <2>2, <2>3 DEF BlockMine, BlockTheirs, Fails, contacts
  <1>6. ASSUME NEW q \in Requests, NEW x \in Users, NEW y \in Users, Reject(q, x, y)
        PROVE  status'[u][v] = "blocked"
    <2>1. CASE status' = [status EXCEPT ![x][y] = Rejected(@), ![y][x] = Rejected(@)]
      <3>1. status'[u][v] \in {status[u][v], Rejected(status[u][v]), Rejected(Rejected(status[u][v]))}
        BY <1>1, <2>1
      <3>2. QED
        BY <3>1 DEF Rejected
    <2>2. QED
      BY <1>2, <1>6, <2>1 DEF Reject
  <1>7. ASSUME NEW q \in Requests, NEW x \in Users, NEW y \in Users,
               \/ StartSend(q, x, y) \/ StartAccept(q, x, y) \/ StartDirect(q, x, y)
               \/ StartBlock(q, x, y)
        PROVE  status' = status
    BY <1>7 DEF StartSend, StartAccept, StartDirect, StartBlock, Starts, contacts
  <1>8. ASSUME NEW q \in Requests, FindChat(q) \/ CreateChat(q) \/ JoinChat(q)
        PROVE  status' = status
    BY <1>8 DEF FindChat, CreateChat, JoinChat, Fails, contacts
  <1>9. CASE UNCHANGED vars
    BY <1>2, <1>9 DEF vars
  <1>10. CASE Next
    BY <1>2, <1>3, <1>4, <1>5, <1>6, <1>7, <1>8, <1>10 DEF Next, RequestStep
  <1>11. QED
    BY <1>9, <1>10

\* A block holds: of the rows of two users whose requests all went through, none leaves
\* the status blocked, unless an accept was under way when the block came.
THEOREM BlocksHold == Spec => BlockHolds
  <1>1. IInv /\ Firm /\ [Next]_vars =>
           [\A u, v \in Users :
              status[u][v] = "blocked" /\ {u, v} \notin outrun \cup failed
                 => status'[u][v] = "blocked"]_vars
    BY BlockedStays DEF Excused
  <1>2. QED
    BY <1>1, Inductive, AlwaysFirm, PTL DEF Spec, BlockHolds

-----------------------------------------------------------------------------
(* The handlers of Contacts implement Friendship, for any number of users  *)
(* and requests.  Every statement of a handler is a step of Friendship or  *)
(* changes nothing that it sees; that an accept respects a block is Firm.  *)

\* What one changed row changes.
LEMMA OneRowThatIs ==
    ASSUME status \in [Users -> [Users -> Statuses]], NEW u \in Users, NEW v \in Users,
           NEW s \in Statuses, SetStatus(u, v, s), NEW t
    PROVE  RowsThatAre(t)' = IF s = t THEN RowsThatAre(t) \cup {<<u, v>>}
                             ELSE RowsThatAre(t) \ {<<u, v>>}
  <1>1. ASSUME NEW row \in Users \X Users
        PROVE  status'[row[1]][row[2]] = IF row = <<u, v>> THEN s ELSE status[row[1]][row[2]]
    <2>1. PICK x \in Users, y \in Users : row = <<x, y>>
      OBVIOUS
    <2>2. status'[x][y] = IF x = u /\ y = v THEN s ELSE status[x][y]
      BY OneRow
    <2>3. QED
      BY <2>1, <2>2
  <1>2. QED
    BY <1>1 DEF RowsThatAre

\* Rows whose status counts for neither set may change among themselves.
LEMMA SameRows ==
    ASSUME NEW t, \A u, v \in Users : status'[u][v] = t <=> status[u][v] = t
    PROVE  RowsThatAre(t)' = RowsThatAre(t)
  BY DEF RowsThatAre

\* A statement that fails puts its pair into dispute and does nothing else.
LEMMA FailureDisputes ==
    ASSUME NEW u \in Users, NEW v \in Users, failed' = failed \cup {{u, v}},
           outrun' = outrun, willing' = willing, status' = status
    PROVE  [Promise!Next]_(Promise!vars)
  <1>1. RowsThatAre("accepted")' = RowsThatAre("accepted") /\ RowsThatAre("blocked")' = RowsThatAre("blocked")
    BY DEF RowsThatAre
  <1>2. Promise!Dispute(u, v)
    BY <1>1 DEF Promise!Dispute
  <1>3. QED
    BY <1>2 DEF Promise!Next

\* Steps that Friendship does not see.
LEMMA Unseen ==
    ASSUME UNCHANGED <<willing, outrun, failed>>,
           \A u, v \in Users : /\ status'[u][v] = "accepted" <=> status[u][v] = "accepted"
                               /\ status'[u][v] = "blocked" <=> status[u][v] = "blocked"
    PROVE  [Promise!Next]_(Promise!vars)
  <1>1. RowsThatAre("accepted")' = RowsThatAre("accepted") /\ RowsThatAre("blocked")' = RowsThatAre("blocked")
    BY SameRows
  <1>2. QED
    BY <1>1 DEF Promise!vars

\* A request that begins: its caller may agree, and it may put the pair into dispute.
LEMMA StartsKeep ==
    ASSUME NEW q \in Requests, NEW u \in Users, NEW v \in Users,
           \/ StartSend(q, u, v) \/ StartAccept(q, u, v) \/ StartDirect(q, u, v)
           \/ StartBlock(q, u, v)
    PROVE  [Promise!Next]_(Promise!vars)
  <1>1. /\ outrun' \in {outrun, outrun \cup {{u, v}}} /\ failed' = failed /\ status' = status
        /\ willing' \in {willing, willing \cup {<<u, v>>}}
    BY DEF StartSend, StartAccept, StartDirect, StartBlock, Starts, contacts
  <1>2. RowsThatAre("accepted")' = RowsThatAre("accepted") /\ RowsThatAre("blocked")' = RowsThatAre("blocked")
    BY <1>1 DEF RowsThatAre
  <1>3. (outrun \cup failed)' \in {outrun \cup failed, (outrun \cup failed) \cup {{u, v}}}
    BY <1>1
  <1>4. CASE willing' = willing
    BY <1>2, <1>3, <1>4 DEF Promise!Next, Promise!vars, Promise!Dispute
  <1>5. CASE willing' = willing \cup {<<u, v>>}
    <2>1. Promise!Agree(u, v)
      BY <1>2, <1>3, <1>5 DEF Promise!Agree
    <2>2. QED
      BY <2>1 DEF Promise!Next
  <1>6. QED
    BY <1>1, <1>4, <1>5

\* A request, its notice, and the statements about conversations.
LEMMA HarmlessKeep ==
    ASSUME IInv, NEW q \in Requests,
           Ask(q) \/ Tell(q) \/ FindChat(q) \/ CreateChat(q) \/ JoinChat(q)
    PROVE  [Promise!Next]_(Promise!vars)
  <1>1. caller[q] \in Users /\ other[q] \in Users
    BY Running DEF Ask, Tell, FindChat, CreateChat, JoinChat
  <1>2. UNCHANGED <<willing, outrun>>
    BY DEF Ask, Tell, FindChat, CreateChat, JoinChat, Goto, Ends
  <1>3. CASE Fails(q)
    BY <1>1, <1>2, <1>3, FailureDisputes DEF Fails, Pair, contacts
  <1>4. CASE Works /\ (\/ status' = status
                     \/ SetStatus(caller[q], other[q], Upsert(caller[q], other[q], "sent"))
                     \/ SetStatus(other[q], caller[q], Upsert(other[q], caller[q], "pending")))
    <2>1. status \in [Users -> [Users -> Statuses]]
      BY DEF IInv, Rows
    <2>2. ASSUME NEW u \in Users, NEW v \in Users
          PROVE  /\ status'[u][v] = "accepted" <=> status[u][v] = "accepted"
                 /\ status'[u][v] = "blocked" <=> status[u][v] = "blocked"
      <3>1. CASE status' = status
        BY <3>1
      <3>2. CASE SetStatus(caller[q], other[q], Upsert(caller[q], other[q], "sent"))
        BY <1>1, <2>1, <3>2, OneRow DEF Upsert
      <3>3. CASE SetStatus(other[q], caller[q], Upsert(other[q], caller[q], "pending"))
        BY <1>1, <2>1, <3>3, OneRow DEF Upsert
      <3>4. QED
        BY <1>4, <3>1, <3>2, <3>3
    <2>3. QED
      BY <1>2, <1>4, <2>2, Unseen DEF Works
  <1>5. QED
    BY <1>3, <1>4 DEF Ask, Tell, FindChat, CreateChat, JoinChat, contacts

LEMMA AcceptKeeps ==
    ASSUME IInv, Firm, NEW q \in Requests, AcceptMine(q) \/ AcceptTheirs(q)
    PROVE  [Promise!Next]_(Promise!vars)
  <1>1. /\ op[q] = "accept" /\ caller[q] \in Users /\ other[q] \in Users
        /\ {<<caller[q], other[q]>>, <<other[q], caller[q]>>} \subseteq willing
    BY Running DEF AcceptMine, AcceptTheirs, IInv, Control, Runs
  <1>2. UNCHANGED <<willing, outrun>>
    BY DEF AcceptMine, AcceptTheirs, Goto, Ends
  <1>3. status \in [Users -> [Users -> Statuses]]
    BY DEF IInv, Rows
  <1>4. CASE Fails(q)
    BY <1>1, <1>2, <1>4, FailureDisputes DEF Fails, Pair, contacts
  <1>5. CASE Works /\ status' = status
    BY <1>2, <1>5, Unseen DEF Works
  <1>6. ASSUME NEW u \in Users, NEW v \in Users, {u, v} = Pair(q), Works,
               SetStatus(u, v, "accepted"), {<<u, v>>, <<v, u>>} \subseteq willing
        PROVE  [Promise!Next]_(Promise!vars)
    <2>1. /\ RowsThatAre("accepted")' = RowsThatAre("accepted") \cup {<<u, v>>}
          /\ RowsThatAre("blocked")' = RowsThatAre("blocked") \ {<<u, v>>}
      BY <1>3, <1>6, OneRowThatIs DEF Statuses
    <2>2. <<u, v>> \in RowsThatAre("blocked") => {u, v} \in outrun \cup failed
      <3>1. ASSUME status[u][v] = "blocked", {u, v} \notin outrun \cup failed PROVE FALSE
        BY <1>1, <1>6, <3>1 DEF Firm, NoneAccepts, On, Excused
      <3>2. QED
        BY <3>1 DEF RowsThatAre
    <2>3. Promise!Befriend(u, v)
      BY <1>2, <1>6, <2>1, <2>2 DEF Promise!Befriend, Works
    <2>4. QED
      BY <2>3 DEF Promise!Next
  <1>7. \/ Fails(q)
        \/ Works /\ status' = status
        \/ Works /\ SetStatus(caller[q], other[q], "accepted")
        \/ Works /\ SetStatus(other[q], caller[q], "accepted")
    BY DEF AcceptMine, AcceptTheirs, AcceptRow, contacts
  <1>8. {other[q], caller[q]} = Pair(q) /\ {caller[q], other[q]} = Pair(q)
    BY DEF Pair
  <1>9. CASE Works /\ SetStatus(caller[q], other[q], "accepted")
    BY <1>1, <1>6, <1>8, <1>9
  <1>10. CASE Works /\ SetStatus(other[q], caller[q], "accepted")
    BY <1>1, <1>6, <1>8, <1>10
  <1>11. QED
    BY <1>4, <1>5, <1>7, <1>9, <1>10

LEMMA RejectKeeps ==
    ASSUME IInv, NEW q \in Requests, NEW u \in Users, NEW v \in Users, Reject(q, u, v)
    PROVE  [Promise!Next]_(Promise!vars)
  <1>1. UNCHANGED <<willing, outrun>>
    BY DEF Reject
  <1>2. CASE failed' = failed \cup {{u, v}} /\ status' = status
    BY <1>1, <1>2, FailureDisputes
  <1>3. CASE Works /\ status' = [status EXCEPT ![u][v] = Rejected(@), ![v][u] = Rejected(@)]
    <2>1. status \in [Users -> [Users -> Statuses]]
      BY DEF IInv, Rows
    <2>2. ASSUME NEW x \in Users, NEW y \in Users
          PROVE  /\ status'[x][y] = "accepted" <=> status[x][y] = "accepted"
                 /\ status'[x][y] = "blocked" <=> status[x][y] = "blocked"
      <3>1. status'[x][y] \in {status[x][y], Rejected(status[x][y]), Rejected(Rejected(status[x][y]))}
        BY <1>3, <2>1
      <3>2. QED
        BY <3>1 DEF Rejected
    <2>3. QED
      BY <1>1, <1>3, <2>2, Unseen DEF Works
  <1>4. QED
    BY <1>2, <1>3 DEF Reject

LEMMA BlockKeeps ==
    ASSUME IInv, NEW q \in Requests, BlockMine(q) \/ BlockTheirs(q)
    PROVE  [Promise!Next]_(Promise!vars)
  <1>1. caller[q] \in Users /\ other[q] \in Users
    BY Running DEF BlockMine, BlockTheirs
  <1>2. UNCHANGED <<willing, outrun>>
    BY DEF BlockMine, BlockTheirs, Goto, Ends
  <1>3. CASE Fails(q)
    BY <1>1, <1>2, <1>3, FailureDisputes DEF Fails, Pair, contacts
  <1>4. ASSUME NEW u \in Users, NEW v \in Users, Works, SetStatus(u, v, "blocked")
        PROVE  [Promise!Next]_(Promise!vars)
    <2>1. status \in [Users -> [Users -> Statuses]]
      BY DEF IInv, Rows
    <2>2. /\ RowsThatAre("accepted")' = RowsThatAre("accepted") \ {<<u, v>>}
          /\ RowsThatAre("blocked")' = RowsThatAre("blocked") \cup {<<u, v>>}
      BY <1>4, <2>1, OneRowThatIs DEF Statuses
    <2>3. Promise!Block(u, v)
      BY <1>2, <1>4, <2>2 DEF Promise!Block, Works
    <2>4. QED
      BY <2>3 DEF Promise!Next
  <1>5. QED
    BY <1>1, <1>3, <1>4 DEF BlockMine, BlockTheirs

-----------------------------------------------------------------------------
\* Every step of the handlers is a step of Friendship or stutters.
LEMMA StepKeeps == IInv /\ Firm /\ [Next]_vars => [Promise!Next]_(Promise!vars)
  <1> SUFFICES ASSUME IInv, Firm, [Next]_vars PROVE [Promise!Next]_(Promise!vars)
    OBVIOUS
  <1>1. CASE UNCHANGED vars
    BY <1>1, Unseen DEF vars
  <1>2. ASSUME NEW q \in Requests, RequestStep(q) PROVE [Promise!Next]_(Promise!vars)
    <2>1. ASSUME NEW u \in Users, NEW v \in Users,
                 \/ StartSend(q, u, v) \/ StartAccept(q, u, v) \/ StartDirect(q, u, v)
                 \/ StartBlock(q, u, v) \/ Reject(q, u, v)
          PROVE  [Promise!Next]_(Promise!vars)
      BY <2>1, StartsKeep, RejectKeeps
    <2>2. CASE Ask(q) \/ Tell(q) \/ FindChat(q) \/ CreateChat(q) \/ JoinChat(q)
      BY <2>2, HarmlessKeep
    <2>3. CASE AcceptMine(q) \/ AcceptTheirs(q)
      BY <2>3, AcceptKeeps
    <2>4. CASE BlockMine(q) \/ BlockTheirs(q)
      BY <2>4, BlockKeeps
    <2>5. QED
      BY <1>2, <2>1, <2>2, <2>3, <2>4 DEF RequestStep
  <1>3. QED
    BY <1>1, <1>2 DEF Next

LEMMA InitKeeps == Init => Promise!Init
  <1>1. Init => RowsThatAre("accepted") = {} /\ RowsThatAre("blocked") = {}
    BY DEF Init, RowsThatAre
  <1>2. QED
    BY <1>1 DEF Init, Promise!Init

\* The contact handlers implement Friendship, for any users and requests, in any
\* interleaving and with any failures.
THEOREM Implements == Spec => KeepsPromise
  <1>1. Init => Promise!Init
    BY InitKeeps
  <1>2. IInv /\ Firm /\ [Next]_vars => [Promise!Next]_(Promise!vars)
    BY StepKeeps
  <1>3. QED
    BY <1>1, <1>2, Inductive, AlwaysFirm, PTL DEF Spec, KeepsPromise, Promise!Spec

-----------------------------------------------------------------------------
(* What two users are to each other.  RowsAgree speaks of the moment when  *)
(* nothing runs; before it, a row may be ahead of the other, and then a    *)
(* request that is past its first statement owes the other one (Owed).     *)

Settled == {"accepted", "blocked"}
Late    == {"tell", "theirs", "blockTheirs"}

\* A request of u to v has arrived at a label.
At(u, v, label) == \E p \in Requests : pc[p] = label /\ caller[p] = u /\ other[p] = v

\* Nobody is a contact of himself, and a row comes with the one it answers.
NoneAlone ==
    /\ \A u \in Users : status[u][u] = "none"
    /\ \A u, v \in Users : status[u][v] = "pending" => status[v][u] # "none"

\* What a request has found or written is still there.
Behind(q) ==
    /\ pc[q] = "tell" => status[caller[q]][other[q]] # "none"
    /\ op[q] = "accept" =>
          status[caller[q]][other[q]] # "none" /\ status[other[q]][caller[q]] # "none"
    /\ pc[q] \in {"theirs", "blockTheirs"} /\ Pair(q) \notin failed
          => status[caller[q]][other[q]] \in Settled

\* A row that is ahead of the other has a request that is about to write that one.
Owed(u, v) ==
    {u, v} \notin failed =>
        /\ status[v][u] = "accepted" /\ status[u][v] \notin Settled => At(v, u, "theirs")
        /\ status[v][u] = "blocked" /\ status[u][v] \notin Settled => At(v, u, "blockTheirs")
        /\ status[u][v] = "sent" /\ status[v][u] \notin Settled \cup {"pending"}
              => At(u, v, "tell") \/ (status[v][u] = "sent" /\ At(v, u, "tell"))
        /\ {u, v} \notin outrun /\ status[u][v] = "accepted" /\ status[v][u] = "blocked"
              => At(v, u, "blockTheirs")

AllBehind == \A q \in Requests : Behind(q)
AllOwed   == \A u, v \in Users : u # v => Owed(u, v)
Debts     == NoneAlone /\ AllBehind /\ AllOwed

\* The steps, by what they do to the rows: one writes the caller's row and goes on to the
\* other, one writes the other row and ends, one rejects, and the rest write none.
WritesMine(q, from, to, s) ==
    pc[q] = from /\ Goto(q, to) /\ SetStatus(caller[q], other[q], s)

WritesTheirs(q, from, s) ==
    pc[q] = from /\ Ends(q) /\ SetStatus(other[q], caller[q], s)

Rejects(u, v) ==
    u # v /\ status' = [status EXCEPT ![u][v] = Rejected(@), ![v][u] = Rejected(@)]

WritesNone(q) ==
    /\ status' = status
    /\ pc[q] \in Late => Pair(q) \in failed'
    /\ pc'[q] # "tell"
    /\ pc'[q] \in {"theirs", "blockTheirs"} => Pair(q)' \in failed'
    /\ op'[q] = "accept" =>
          \/ op[q] = "accept" /\ caller'[q] = caller[q] /\ other'[q] = other[q]
          \/ /\ caller'[q] \in Users /\ other'[q] \in Users
             /\ status[caller'[q]][other'[q]] = "pending"

\* The requests beside the one that steps do not move, and the ghosts only grow.
LEMMA Alone ==
    ASSUME IInv, NEW q \in Requests, RequestStep(q)
    PROVE  /\ \A p \in Requests \ {q} :
                 /\ pc'[p] = pc[p] /\ op'[p] = op[p] /\ found'[p] = found[p]
                 /\ caller'[p] = caller[p] /\ other'[p] = other[p]
           /\ failed \subseteq failed' /\ outrun \subseteq outrun' /\ doubled \subseteq doubled'
  <1>1. Control
    BY DEF IInv
  <1>2. ASSUME NEW label, Goto(q, label)
        PROVE  /\ \A p \in Requests \ {q} :
                     pc'[p] = pc[p] /\ op'[p] = op[p] /\ caller'[p] = caller[p] /\ other'[p] = other[p]
               /\ outrun' = outrun /\ doubled' = doubled
    BY <1>1, <1>2 DEF Control, Goto, request
  <1>3. ASSUME Ends(q)
        PROVE  /\ \A p \in Requests \ {q} :
                     /\ pc'[p] = pc[p] /\ op'[p] = op[p] /\ found'[p] = found[p]
                     /\ caller'[p] = caller[p] /\ other'[p] = other[p]
               /\ outrun' = outrun /\ doubled' = doubled
    BY <1>1, <1>3 DEF Control, Ends
  <1>4. ASSUME NEW handler, NEW label, NEW u, NEW v, Starts(q, handler, label, u, v)
        PROVE  /\ \A p \in Requests \ {q} :
                     /\ pc'[p] = pc[p] /\ op'[p] = op[p] /\ found'[p] = found[p]
                     /\ caller'[p] = caller[p] /\ other'[p] = other[p]
               /\ outrun \subseteq outrun' /\ doubled \subseteq doubled' /\ failed' = failed
    BY <1>1, <1>4 DEF Control, Starts
  <1>5. ASSUME found' = found \/ \E c \in Conversations : found' = [found EXCEPT ![q] = c]
        PROVE  \A p \in Requests \ {q} : found'[p] = found[p]
    BY <1>1, <1>5 DEF Control
  <1>6. ASSUME NEW u \in Users, NEW v \in Users,
               \/ StartSend(q, u, v) \/ StartAccept(q, u, v) \/ StartDirect(q, u, v)
               \/ StartBlock(q, u, v)
        PROVE  /\ \A p \in Requests \ {q} :
                     /\ pc'[p] = pc[p] /\ op'[p] = op[p] /\ found'[p] = found[p]
                     /\ caller'[p] = caller[p] /\ other'[p] = other[p]
               /\ outrun \subseteq outrun' /\ doubled \subseteq doubled' /\ failed' = failed
    BY <1>4, <1>6 DEF StartSend, StartAccept, StartDirect, StartBlock
  <1>7. ASSUME NEW u \in Users, NEW v \in Users, Reject(q, u, v)
        PROVE  /\ \A p \in Requests \ {q} :
                     /\ pc'[p] = pc[p] /\ op'[p] = op[p] /\ found'[p] = found[p]
                     /\ caller'[p] = caller[p] /\ other'[p] = other[p]
               /\ failed \subseteq failed' /\ outrun' = outrun /\ doubled' = doubled
    BY <1>1, <1>7 DEF Control, Reject, request, Works
  <1>8. CASE Ask(q) \/ Tell(q)
    <2>1. failed \subseteq failed'
      BY <1>8 DEF Ask, Tell, Works, Fails
    <2>2. Ends(q) \/ (Goto(q, "tell") /\ found' = found)
      BY <1>8 DEF Ask, Tell
    <2>3. QED
      BY <1>2, <1>3, <1>5, <2>1, <2>2
  <1>9. CASE FindChat(q) \/ CreateChat(q) \/ JoinChat(q)
    <2>1. failed \subseteq failed'
      BY <1>9 DEF FindChat, CreateChat, JoinChat, Works, Fails
    <2>2. \/ Ends(q)
          \/ /\ \E label : Goto(q, label)
             /\ found' = found \/ \E c \in Conversations : found' = [found EXCEPT ![q] = c]
      <3>1. created \subseteq Conversations
        BY DEF IInv, Rows
      <3>2. QED
        BY <1>9, <3>1 DEF FindChat, CreateChat, JoinChat
    <2>3. QED
      BY <1>2, <1>3, <1>5, <2>1, <2>2
  <1>10. CASE AcceptMine(q) \/ AcceptTheirs(q) \/ BlockMine(q) \/ BlockTheirs(q)
    <2>1. failed \subseteq failed'
      BY <1>10 DEF AcceptMine, AcceptTheirs, BlockMine, BlockTheirs, Works, Fails
    <2>2. Ends(q) \/ ((\E label : Goto(q, label)) /\ found' = found)
      BY <1>10 DEF AcceptMine, AcceptTheirs, BlockMine, BlockTheirs
    <2>3. QED
      BY <1>2, <1>3, <1>5, <2>1, <2>2
  <1>11. QED
    BY <1>4, <1>6, <1>7, <1>8, <1>9, <1>10 DEF RequestStep

\* What the rest of a proof needs of a step: it writes rows in one of eight ways.
LEMMA RowSteps ==
    ASSUME IInv, Debts, NEW q \in Requests, RequestStep(q)
    PROVE  \/ WritesNone(q)
           \/ WritesMine(q, "ask", "tell", Upsert(caller[q], other[q], "sent"))
           \/ WritesTheirs(q, "tell", Upsert(other[q], caller[q], "pending"))
           \/ WritesMine(q, "mine", "theirs", "accepted")
           \/ WritesTheirs(q, "theirs", "accepted")
           \/ WritesMine(q, "block", "blockTheirs", "blocked")
           \/ WritesTheirs(q, "blockTheirs", "blocked")
           \/ \E u, v \in Users : Rejects(u, v) /\ op' = op /\ pc[q] = "idle" /\ pc'[q] = "done"
  <1>1. Control /\ Runs(q)
    BY DEF IInv, Control
  <1>2. ASSUME NEW label \in Labels \ {"tell", "theirs", "blockTheirs"}, Goto(q, label),
               status' = status, pc[q] \in Late => Pair(q) \in failed'
        PROVE  WritesNone(q)
    BY <1>1, <1>2 DEF WritesNone, Goto, request, Control
  <1>3. ASSUME NEW label \in {"theirs", "blockTheirs"}, Goto(q, label), Fails(q)
        PROVE  WritesNone(q)
    BY <1>1, <1>3 DEF WritesNone, Goto, request, Control, Fails, contacts, Pair
  <1>4. ASSUME Ends(q), status' = status, pc[q] \in Late => Pair(q) \in failed'
        PROVE  WritesNone(q)
    BY <1>1, <1>4 DEF WritesNone, Ends, Control
  <1>5. ASSUME Fails(q)
        PROVE  status' = status /\ Pair(q) \in failed'
    BY <1>5 DEF Fails, contacts
  <1>6. ASSUME NEW u \in Users, NEW v \in Users, NEW handler \in {"send", "accept", "direct", "block"},
               NEW label \in {"ask", "find", "block"}, Starts(q, handler, label, u, v),
               handler = "accept" => status[u][v] = "pending"
        PROVE  WritesNone(q)
    BY <1>1, <1>6 DEF WritesNone, Starts, contacts, Control, Late
  <1>7. ASSUME NEW u \in Users, NEW v \in Users,
               \/ StartSend(q, u, v) \/ StartAccept(q, u, v) \/ StartDirect(q, u, v)
               \/ StartBlock(q, u, v)
        PROVE  WritesNone(q)
    BY <1>6, <1>7 DEF StartSend, StartAccept, StartDirect, StartBlock, MayAccept
  <1>8. ASSUME NEW u \in Users, NEW v \in Users, Reject(q, u, v)
        PROVE  WritesNone(q) \/ (Rejects(u, v) /\ op' = op /\ pc[q] = "idle" /\ pc'[q] = "done")
    <2>1. op[q] = "none"
      BY <1>8, StartFresh DEF Reject
    <2>2. /\ pc[q] = "idle" /\ pc' = [pc EXCEPT ![q] = "done"] /\ op' = op /\ u # v
          /\ status' = status \/ Rejects(u, v)
      BY <1>8 DEF Reject, request, Rejects
    <2>3. QED
      BY <1>1, <2>1, <2>2 DEF WritesNone, Late, Control
  <1>9. CASE Ask(q)
    <2>1. CASE SetStatus(caller[q], other[q], Upsert(caller[q], other[q], "sent")) /\ Goto(q, "tell")
      BY <1>9, <2>1 DEF Ask, WritesMine
    <2>2. CASE Fails(q) /\ Ends(q)
      BY <1>4, <1>5, <2>2
    <2>3. QED
      BY <1>9, <2>1, <2>2 DEF Ask
  <1>10. CASE Tell(q)
    BY <1>4, <1>5, <1>10 DEF Tell, WritesTheirs
  <1>11. CASE FindChat(q) \/ CreateChat(q) \/ JoinChat(q)
    <2>1. status' = status /\ pc[q] \notin Late
      BY <1>11 DEF FindChat, CreateChat, JoinChat, Late, contacts, Fails
    <2>2. Ends(q) \/ \E label \in Labels \ {"tell", "theirs", "blockTheirs"} : Goto(q, label)
      BY <1>11 DEF FindChat, CreateChat, JoinChat, Labels
    <2>3. QED
      BY <1>2, <1>4, <2>1, <2>2
  <1>12. CASE AcceptMine(q) \/ AcceptTheirs(q)
    <2>1. op[q] = "accept"
      BY <1>12, Running DEF AcceptMine, AcceptTheirs
    <2>2. status[caller[q]][other[q]] # "none" /\ status[other[q]][caller[q]] # "none"
      BY <2>1 DEF Debts, AllBehind, Behind
    <2>3. CASE AcceptMine(q)
      BY <1>3, <2>2, <2>3 DEF AcceptMine, AcceptRow, WritesMine
    <2>4. CASE AcceptTheirs(q)
      BY <1>4, <1>5, <2>2, <2>4 DEF AcceptTheirs, AcceptRow, WritesTheirs
    <2>5. QED
      BY <1>12, <2>3, <2>4
  <1>13. CASE BlockMine(q)
    BY <1>3, <1>13 DEF BlockMine, WritesMine
  <1>14. CASE BlockTheirs(q)
    BY <1>4, <1>5, <1>14 DEF BlockTheirs, WritesTheirs
  <1>15. QED
    BY <1>7, <1>8, <1>9, <1>10, <1>11, <1>12, <1>13, <1>14 DEF RequestStep

\* A row that is there stays there, and a settled one stays settled.
LEMMA RowsLast ==
    ASSUME IInv, Debts, NEW q \in Requests, RequestStep(q), NEW u \in Users, NEW v \in Users
    PROVE  /\ status[u][v] # "none" => status'[u][v] # "none"
           /\ status[u][v] \in Settled => status'[u][v] \in Settled
  <1>1. status \in [Users -> [Users -> Statuses]]
    BY DEF IInv, Rows
  <1>2. pc[q] \notin {"idle", "done"} => caller[q] \in Users /\ other[q] \in Users
    BY Running
  <1>3. ASSUME NEW x \in Users, NEW y \in Users, NEW s, SetStatus(x, y, s),
               s # "none", status[x][y] \in Settled => s \in Settled
        PROVE  /\ status[u][v] # "none" => status'[u][v] # "none"
               /\ status[u][v] \in Settled => status'[u][v] \in Settled
    BY <1>1, <1>3, OneRow
  <1>4. CASE WritesNone(q)
    BY <1>4 DEF WritesNone
  <1>5. CASE WritesMine(q, "ask", "tell", Upsert(caller[q], other[q], "sent"))
    BY <1>2, <1>3, <1>5 DEF WritesMine, Upsert, Settled
  <1>6. CASE WritesTheirs(q, "tell", Upsert(other[q], caller[q], "pending"))
    BY <1>2, <1>3, <1>6 DEF WritesTheirs, Upsert, Settled
  <1>7. CASE WritesMine(q, "mine", "theirs", "accepted") \/ WritesMine(q, "block", "blockTheirs", "blocked")
    BY <1>2, <1>3, <1>7 DEF WritesMine, Settled
  <1>8. CASE WritesTheirs(q, "theirs", "accepted") \/ WritesTheirs(q, "blockTheirs", "blocked")
    BY <1>2, <1>3, <1>8 DEF WritesTheirs, Settled
  <1>9. CASE \E x, y \in Users : Rejects(x, y)
    <2>1. status'[u][v] \in {status[u][v], Rejected(status[u][v]), Rejected(Rejected(status[u][v]))}
      BY <1>1, <1>9 DEF Rejects
    <2>2. QED
      BY <2>1 DEF Rejected, Settled
  <1>10. QED
    BY <1>4, <1>5, <1>6, <1>7, <1>8, <1>9, RowSteps

\* The users of a request whose statement is next.
LEMMA Parties ==
    ASSUME IInv, NEW q \in Requests, pc[q] \notin {"idle", "done"}
    PROVE  caller[q] \in Users /\ other[q] \in Users /\ caller[q] # other[q]
  BY Running DEF Runs

LEMMA KeepsNoneAlone ==
    ASSUME IInv, Debts, NEW q \in Requests, RequestStep(q)
    PROVE  NoneAlone'
  <1>1. status \in [Users -> [Users -> Statuses]] /\ NoneAlone
    BY DEF IInv, Rows, Debts
  <1>2. ASSUME NEW u \in Users, NEW v \in Users, u # v, NEW s, SetStatus(u, v, s),
               s = "pending" => status[v][u] # "none"
        PROVE  /\ \A x \in Users : status'[x][x] = "none"
               /\ \A x, y \in Users : status'[x][y] = "pending" => status[y][x] # "none"
    <2>1. ASSUME NEW x \in Users, NEW y \in Users
          PROVE  status'[x][y] = IF x = u /\ y = v THEN s ELSE status[x][y]
      BY <1>1, <1>2, OneRow
    <2>2. QED
      BY <1>1, <1>2, <2>1 DEF NoneAlone
  <1>3. /\ \A x \in Users : status'[x][x] = "none"
        /\ \A x, y \in Users : status'[x][y] = "pending" => status[y][x] # "none"
    <2>1. CASE WritesNone(q)
      BY <1>1, <2>1 DEF WritesNone, NoneAlone
    <2>2. CASE WritesMine(q, "ask", "tell", Upsert(caller[q], other[q], "sent"))
      <3>1. Upsert(caller[q], other[q], "sent") # "pending"
        BY DEF Upsert
      <3>2. QED
        BY <1>2, <2>2, <3>1, Parties DEF WritesMine
    <2>3. CASE WritesTheirs(q, "tell", Upsert(other[q], caller[q], "pending"))
      <3>1. status[caller[q]][other[q]] # "none"
        BY <2>3 DEF WritesTheirs, Debts, AllBehind, Behind
      <3>2. QED
        BY <1>2, <2>3, <3>1, Parties DEF WritesTheirs
    <2>4. CASE WritesMine(q, "mine", "theirs", "accepted") \/ WritesMine(q, "block", "blockTheirs", "blocked")
      BY <1>2, <2>4, Parties DEF WritesMine
    <2>5. CASE WritesTheirs(q, "theirs", "accepted") \/ WritesTheirs(q, "blockTheirs", "blocked")
      BY <1>2, <2>5, Parties DEF WritesTheirs
    <2>6. ASSUME NEW u \in Users, NEW v \in Users, Rejects(u, v)
          PROVE  /\ \A x \in Users : status'[x][x] = "none"
                 /\ \A x, y \in Users : status'[x][y] = "pending" => status[y][x] # "none"
      <3>1. ASSUME NEW x \in Users, NEW y \in Users
            PROVE  status'[x][y] \in {status[x][y], Rejected(status[x][y])}
        BY <1>1, <2>6 DEF Rejects
      <3>2. QED
        BY <1>1, <3>1 DEF Rejected, NoneAlone
    <2>7. QED
      BY <2>1, <2>2, <2>3, <2>4, <2>5, <2>6, RowSteps
  <1>4. \A x, y \in Users : status[y][x] # "none" => status'[y][x] # "none"
    BY RowsLast
  <1>5. QED
    BY <1>3, <1>4 DEF NoneAlone

\* The requests beside the step.
LEMMA OthersBehind ==
    ASSUME IInv, Debts, NEW q \in Requests, RequestStep(q), NEW p \in Requests, p # q
    PROVE  Behind(p)'
  <1>1. /\ pc'[p] = pc[p] /\ op'[p] = op[p] /\ caller'[p] = caller[p] /\ other'[p] = other[p]
        /\ failed \subseteq failed'
    BY Alone
  <1>2. Behind(p)
    BY DEF Debts, AllBehind
  <1>3. CASE pc[p] \in {"idle", "done"}
    <2>1. op[p] = "none"
      BY <1>3 DEF IInv, Control, Runs, LabelsOf, Handlers
    <2>2. QED
      BY <1>1, <1>3, <2>1 DEF Behind
  <1>4. CASE pc[p] \notin {"idle", "done"}
    <2>1. caller[p] \in Users /\ other[p] \in Users
      BY <1>4, Parties
    <2>2. /\ status[caller[p]][other[p]] # "none" => status'[caller[p]][other[p]] # "none"
          /\ status[other[p]][caller[p]] # "none" => status'[other[p]][caller[p]] # "none"
          /\ status[caller[p]][other[p]] \in Settled => status'[caller[p]][other[p]] \in Settled
      BY <2>1, RowsLast
    <2>3. Pair(p)' = Pair(p)
      BY <1>1 DEF Pair
    <2>4. QED
      BY <1>1, <1>2, <2>2, <2>3 DEF Behind
  <1>5. QED
    BY <1>3, <1>4

\* The request that steps.
LEMMA OneBehind ==
    ASSUME IInv, Debts, NEW q \in Requests, RequestStep(q)
    PROVE  Behind(q)'
  <1>1. Behind(q) /\ NoneAlone /\ Control /\ Runs(q)
    BY DEF Debts, AllBehind, IInv, Control
  <1>2. status \in [Users -> [Users -> Statuses]]
    BY DEF IInv, Rows
  <1>3. CASE WritesNone(q)
    <2>1. op'[q] = "accept" =>
             status[caller'[q]][other'[q]] # "none" /\ status[other'[q]][caller'[q]] # "none"
      BY <1>1, <1>3 DEF WritesNone, Behind, NoneAlone
    <2>2. QED
      BY <1>3, <2>1 DEF WritesNone, Behind
  <1>4. ASSUME NEW from \in Labels \ {"idle", "done"}, NEW to \in Labels, NEW s, WritesMine(q, from, to, s),
               s # "none", to # "tell" => s \in Settled
        PROVE  Behind(q)'
    <2>1. caller[q] \in Users /\ other[q] \in Users /\ caller[q] # other[q]
      BY <1>4, Parties DEF WritesMine
    <2>2. pc'[q] = to /\ op'[q] = op[q] /\ caller'[q] = caller[q] /\ other'[q] = other[q]
      BY <1>1, <1>4 DEF WritesMine, Goto, request, Control
    <2>3. /\ status'[caller[q]][other[q]] = s
          /\ status'[other[q]][caller[q]] = status[other[q]][caller[q]]
      BY <1>2, <1>4, <2>1, OneRow DEF WritesMine
    <2>4. QED
      BY <1>1, <1>4, <2>2, <2>3 DEF Behind
  <1>5. ASSUME Ends(q)
        PROVE  Behind(q)'
    BY <1>1, <1>5 DEF Ends, Control, Behind
  <1>6. CASE WritesMine(q, "ask", "tell", Upsert(caller[q], other[q], "sent"))
    <2>1. Upsert(caller[q], other[q], "sent") # "none"
      BY DEF Upsert
    <2>2. "ask" \in Labels \ {"idle", "done"} /\ "tell" \in Labels
      BY DEF Labels
    <2>3. QED
      BY <1>4, <1>6, <2>1, <2>2
  <1>7. CASE WritesMine(q, "mine", "theirs", "accepted") \/ WritesMine(q, "block", "blockTheirs", "blocked")
    <2>1. {"mine", "block"} \subseteq Labels \ {"idle", "done"} /\ {"theirs", "blockTheirs"} \subseteq Labels
      BY DEF Labels
    <2>2. QED
      BY <1>4, <1>7, <2>1 DEF Settled
  <1>8. CASE \E u, v \in Users : op' = op /\ pc[q] = "idle" /\ pc'[q] = "done"
    <2>1. op[q] = "none"
      BY <1>8, StartFresh
    <2>2. QED
      BY <1>8, <2>1 DEF Behind
  <1>9. QED
    BY <1>3, <1>5, <1>6, <1>7, <1>8, RowSteps DEF WritesTheirs

\* A request that waits at its label still does, unless it is the one that steps.
LEMMA AtStays ==
    ASSUME IInv, NEW q \in Requests, RequestStep(q), NEW u, NEW v, NEW label,
           ~(pc[q] = label /\ caller[q] = u /\ other[q] = v)
    PROVE  At(u, v, label) => At(u, v, label)'
  BY Alone DEF At

\* What is owed is still owed while the rows of two users and the requests that owe it stay.
LEMMA OwedStays ==
    ASSUME NEW u \in Users, NEW v \in Users, Owed(u, v),
           failed \subseteq failed', outrun \subseteq outrun',
           status'[u][v] = status[u][v], status'[v][u] = status[v][u],
           \A label \in Late : /\ At(u, v, label) => At(u, v, label)'
                               /\ At(v, u, label) => At(v, u, label)'
    PROVE  Owed(u, v)'
  <1>1. \A label \in Late : At(u, v, label) => At(u, v, label)'
    OBVIOUS
  <1>2. \A label \in Late : At(v, u, label) => At(v, u, label)'
    OBVIOUS
  <1>3. /\ At(u, v, "tell") => At(u, v, "tell")'
        /\ At(v, u, "tell") => At(v, u, "tell")'
        /\ At(v, u, "theirs") => At(v, u, "theirs")'
        /\ At(v, u, "blockTheirs") => At(v, u, "blockTheirs")'
    BY <1>1, <1>2 DEF Late
  <1>4. QED
    BY <1>3 DEF Owed

\* A step of other users.
LEMMA OwedApart ==
    ASSUME IInv, Debts, NEW q \in Requests, RequestStep(q), NEW u \in Users, NEW v \in Users, u # v,
           status'[u][v] = status[u][v], status'[v][u] = status[v][u],
           pc[q] \in Late => Pair(q) # {u, v}
    PROVE  Owed(u, v)'
  <1>1. Owed(u, v)
    BY DEF Debts, AllOwed
  <1>2. \A label \in Late : /\ At(u, v, label) => At(u, v, label)'
                            /\ At(v, u, label) => At(v, u, label)'
    <2>1. ASSUME NEW label \in Late
          PROVE  /\ ~(pc[q] = label /\ caller[q] = u /\ other[q] = v)
                 /\ ~(pc[q] = label /\ caller[q] = v /\ other[q] = u)
      BY DEF Pair
    <2>2. QED
      BY <2>1, AtStays
  <1>3. failed \subseteq failed' /\ outrun \subseteq outrun'
    BY Alone
  <1>4. QED
    BY <1>1, <1>2, <1>3, OwedStays

\* A request has written its caller's row: from now on it owes the other one.
LEMMA OwedMine ==
    ASSUME IInv, Firm, Debts, NEW q \in Requests, RequestStep(q),
           NEW u \in Users, NEW v \in Users, u = caller[q], v = other[q],
           \/ WritesMine(q, "ask", "tell", Upsert(u, v, "sent"))
           \/ WritesMine(q, "mine", "theirs", "accepted")
           \/ WritesMine(q, "block", "blockTheirs", "blocked")
    PROVE  Owed(u, v)' /\ Owed(v, u)'
  <1>1. u # v /\ {u, v} = {v, u}
    BY Parties DEF WritesMine
  <1>2. Owed(u, v) /\ Owed(v, u)
    BY <1>1 DEF Debts, AllOwed
  <1>3. status \in [Users -> [Users -> Statuses]] /\ pc \in [Requests -> Labels]
    BY DEF IInv, Rows, Control
  <1>4. failed \subseteq failed' /\ outrun \subseteq outrun'
    BY Alone
  <1>5. ASSUME NEW from \in Labels \ Late, NEW to, NEW s, WritesMine(q, from, to, s)
        PROVE  /\ status'[u][v] = s /\ status'[v][u] = status[v][u]
               /\ At(u, v, to)'
               /\ At(u, v, "tell") => At(u, v, "tell")'
               /\ At(v, u, "tell") => At(v, u, "tell")'
               /\ At(u, v, "theirs") => At(u, v, "theirs")'
               /\ At(v, u, "theirs") => At(v, u, "theirs")'
               /\ At(u, v, "blockTheirs") => At(u, v, "blockTheirs")'
               /\ At(v, u, "blockTheirs") => At(v, u, "blockTheirs")'
    <2>1. status'[u][v] = s /\ status'[v][u] = status[v][u]
      BY <1>1, <1>3, <1>5, OneRow DEF WritesMine
    <2>2. pc'[q] = to /\ caller'[q] = u /\ other'[q] = v
      BY <1>3, <1>5 DEF WritesMine, Goto, request
    <2>3. pc[q] \notin {"tell", "theirs", "blockTheirs"}
      BY <1>5 DEF WritesMine, Late
    <2>4. At(u, v, to)'
      BY <2>2 DEF At
    <2>5. QED
      BY <2>1, <2>3, <2>4, AtStays
  <1>6. {"ask", "mine", "block"} \subseteq Labels \ Late
    BY DEF Labels, Late
  <1>7. CASE WritesMine(q, "ask", "tell", Upsert(u, v, "sent"))
    <2>1. /\ status'[u][v] = Upsert(u, v, "sent") /\ status'[v][u] = status[v][u]
          /\ At(u, v, "tell")'
          /\ At(v, u, "tell") => At(v, u, "tell")'
          /\ At(u, v, "theirs") => At(u, v, "theirs")'
          /\ At(v, u, "theirs") => At(v, u, "theirs")'
          /\ At(u, v, "blockTheirs") => At(u, v, "blockTheirs")'
          /\ At(v, u, "blockTheirs") => At(v, u, "blockTheirs")'
      BY <1>5, <1>6, <1>7
    <2>2. QED
      BY <1>1, <1>2, <1>4, <2>1 DEF Owed, Upsert, Settled
  <1>8. CASE WritesMine(q, "mine", "theirs", "accepted")
    <2>1. /\ status'[u][v] = "accepted" /\ status'[v][u] = status[v][u]
          /\ At(u, v, "theirs")'
          /\ At(u, v, "tell") => At(u, v, "tell")'
          /\ At(v, u, "tell") => At(v, u, "tell")'
          /\ At(v, u, "theirs") => At(v, u, "theirs")'
          /\ At(u, v, "blockTheirs") => At(u, v, "blockTheirs")'
          /\ At(v, u, "blockTheirs") => At(v, u, "blockTheirs")'
      BY <1>5, <1>6, <1>8
    <2>2. ASSUME status[v][u] = "blocked", {u, v} \notin failed', {u, v} \notin outrun'
          PROVE  FALSE
      <3>1. op[q] = "accept" /\ Pair(q) = {v, u}
        BY <1>1, <1>8, Running DEF WritesMine, Pair
      <3>2. {v, u} \notin Excused
        BY <1>1, <1>4, <2>2 DEF Excused
      <3>3. QED
        BY <2>2, <3>1, <3>2 DEF Firm, NoneAccepts, On
    <2>3. QED
      BY <1>1, <1>2, <1>4, <2>1, <2>2 DEF Owed, Settled
  <1>9. CASE WritesMine(q, "block", "blockTheirs", "blocked")
    <2>1. /\ status'[u][v] = "blocked" /\ status'[v][u] = status[v][u]
          /\ At(u, v, "blockTheirs")'
          /\ At(u, v, "tell") => At(u, v, "tell")'
          /\ At(v, u, "tell") => At(v, u, "tell")'
          /\ At(u, v, "theirs") => At(u, v, "theirs")'
          /\ At(v, u, "theirs") => At(v, u, "theirs")'
          /\ At(v, u, "blockTheirs") => At(v, u, "blockTheirs")'
      BY <1>5, <1>6, <1>9
    <2>2. QED
      BY <1>1, <1>2, <1>4, <2>1 DEF Owed, Settled
  <1>10. QED
    BY <1>7, <1>8, <1>9

\* A request has written the other row: it has paid.
LEMMA OwedTheirs ==
    ASSUME IInv, Firm, Debts, NEW q \in Requests, RequestStep(q),
           NEW u \in Users, NEW v \in Users, u = caller[q], v = other[q],
           \/ WritesTheirs(q, "tell", Upsert(v, u, "pending"))
           \/ WritesTheirs(q, "theirs", "accepted")
           \/ WritesTheirs(q, "blockTheirs", "blocked")
    PROVE  Owed(u, v)' /\ Owed(v, u)'
  <1>1. u # v /\ {u, v} = {v, u} /\ Pair(q) = {u, v}
    BY Parties DEF WritesTheirs, Pair
  <1>2. Owed(u, v) /\ Owed(v, u) /\ Behind(q)
    BY <1>1 DEF Debts, AllOwed, AllBehind
  <1>3. status \in [Users -> [Users -> Statuses]]
    BY DEF IInv, Rows
  <1>4. failed \subseteq failed' /\ outrun \subseteq outrun'
    BY Alone
  <1>5. ASSUME NEW from, NEW s, WritesTheirs(q, from, s)
        PROVE  /\ status'[u][v] = status[u][v] /\ status'[v][u] = s
               /\ \A label : label # from => (At(u, v, label) => At(u, v, label)')
               /\ \A label : At(v, u, label) => At(v, u, label)'
    <2>1. status'[u][v] = status[u][v] /\ status'[v][u] = s
      BY <1>1, <1>3, <1>5, OneRow DEF WritesTheirs
    <2>2. pc[q] = from
      BY <1>5 DEF WritesTheirs
    <2>3. QED
      BY <1>1, <2>1, <2>2, AtStays
  <1>6. CASE WritesTheirs(q, "tell", Upsert(v, u, "pending"))
    <2>1. /\ status'[u][v] = status[u][v] /\ status'[v][u] = Upsert(v, u, "pending")
          /\ At(v, u, "tell") => At(v, u, "tell")'
          /\ At(u, v, "theirs") => At(u, v, "theirs")'
          /\ At(v, u, "theirs") => At(v, u, "theirs")'
          /\ At(u, v, "blockTheirs") => At(u, v, "blockTheirs")'
          /\ At(v, u, "blockTheirs") => At(v, u, "blockTheirs")'
      BY <1>5, <1>6
    <2>2. QED
      BY <1>1, <1>2, <1>4, <2>1 DEF Owed, Upsert, Settled
  <1>7. CASE WritesTheirs(q, "theirs", "accepted")
    <2>1. /\ status'[u][v] = status[u][v] /\ status'[v][u] = "accepted"
          /\ At(u, v, "tell") => At(u, v, "tell")'
          /\ At(v, u, "tell") => At(v, u, "tell")'
          /\ At(v, u, "theirs") => At(v, u, "theirs")'
          /\ At(u, v, "blockTheirs") => At(u, v, "blockTheirs")'
          /\ At(v, u, "blockTheirs") => At(v, u, "blockTheirs")'
      BY <1>5, <1>7
    <2>2. {u, v} \notin failed => status[u][v] \in Settled
      BY <1>1, <1>2, <1>7 DEF Behind, WritesTheirs
    <2>3. ASSUME status[u][v] = "blocked", {u, v} \notin failed', {u, v} \notin outrun'
          PROVE  FALSE
      <3>1. op[q] = "accept"
        BY <1>7, Running DEF WritesTheirs
      <3>2. {u, v} \notin Excused
        BY <1>4, <2>3 DEF Excused
      <3>3. QED
        BY <1>1, <2>3, <3>1, <3>2 DEF Firm, NoneAccepts, On
    <2>4. QED
      BY <1>1, <1>2, <1>4, <2>1, <2>2, <2>3 DEF Owed, Settled
  <1>8. CASE WritesTheirs(q, "blockTheirs", "blocked")
    <2>1. /\ status'[u][v] = status[u][v] /\ status'[v][u] = "blocked"
          /\ At(u, v, "tell") => At(u, v, "tell")'
          /\ At(v, u, "tell") => At(v, u, "tell")'
          /\ At(u, v, "theirs") => At(u, v, "theirs")'
          /\ At(v, u, "theirs") => At(v, u, "theirs")'
          /\ At(v, u, "blockTheirs") => At(v, u, "blockTheirs")'
      BY <1>5, <1>8
    <2>2. {u, v} \notin failed => status[u][v] \in Settled
      BY <1>1, <1>2, <1>8 DEF Behind, WritesTheirs
    <2>3. ASSUME {u, v} \notin failed', {u, v} \notin outrun'
          PROVE  status[u][v] = "blocked"
      <3>1. op[q] = "block" /\ pc[q] = "blockTheirs"
        BY <1>8, Running DEF WritesTheirs
      <3>2. {u, v} \notin Excused
        BY <1>4, <2>3 DEF Excused
      <3>3. QED
        BY <1>1, <3>1, <3>2 DEF Firm, HalfBlocked
    <2>4. QED
      BY <1>1, <1>2, <1>4, <2>1, <2>2, <2>3 DEF Owed, Settled
  <1>9. QED
    BY <1>6, <1>7, <1>8

\* A rejection takes the rows of two users together.
LEMMA OwedReject ==
    ASSUME IInv, Debts, NEW q \in Requests, RequestStep(q), pc[q] = "idle",
           NEW x \in Users, NEW y \in Users, Rejects(x, y),
           NEW u \in Users, NEW v \in Users, u # v
    PROVE  Owed(u, v)'
  <1>1. status \in [Users -> [Users -> Statuses]] /\ Owed(u, v)
    BY DEF IInv, Rows, Debts, AllOwed
  <1>2. failed \subseteq failed' /\ outrun \subseteq outrun'
    BY Alone
  <1>3. \A label \in Late : /\ At(u, v, label) => At(u, v, label)'
                            /\ At(v, u, label) => At(v, u, label)'
    BY AtStays DEF Late
  <1>4. \/ status'[u][v] = status[u][v] /\ status'[v][u] = status[v][u]
        \/ status'[u][v] = Rejected(status[u][v]) /\ status'[v][u] = Rejected(status[v][u])
    <2>1. /\ x # y
          /\ status' = [status EXCEPT ![x][y] = Rejected(status[x][y]), ![y][x] = Rejected(status[y][x])]
      BY <1>1 DEF Rejects
    <2>2. CASE u = x /\ v = y
      BY <1>1, <2>1, <2>2
    <2>3. CASE u = y /\ v = x
      BY <1>1, <2>1, <2>3
    <2>4. CASE ~(u = x /\ v = y) /\ ~(u = y /\ v = x)
      BY <1>1, <2>1, <2>4
    <2>5. QED
      BY <2>2, <2>3, <2>4
  <1>5. CASE status'[u][v] = status[u][v] /\ status'[v][u] = status[v][u]
    BY <1>1, <1>2, <1>3, <1>5, OwedStays
  <1>6. CASE status'[u][v] = Rejected(status[u][v]) /\ status'[v][u] = Rejected(status[v][u])
    <2>1. /\ At(u, v, "tell") => At(u, v, "tell")'
          /\ At(v, u, "tell") => At(v, u, "tell")'
          /\ At(v, u, "theirs") => At(v, u, "theirs")'
          /\ At(v, u, "blockTheirs") => At(v, u, "blockTheirs")'
      BY <1>3 DEF Late
    <2>2. QED
      BY <1>1, <1>2, <1>6, <2>1 DEF Owed, Rejected, Settled
  <1>7. QED
    BY <1>4, <1>5, <1>6

\* One step, seen from two users.
LEMMA StepOwed ==
    ASSUME IInv, Firm, Debts, NEW q \in Requests, RequestStep(q),
           NEW u \in Users, NEW v \in Users, u # v
    PROVE  Owed(u, v)'
  <1>1. status \in [Users -> [Users -> Statuses]]
    BY DEF IInv, Rows
  <1>2. CASE WritesNone(q)
    <2>1. CASE {u, v} \in failed'
      BY <2>1 DEF Owed
    <2>2. CASE {u, v} \notin failed'
      <3>1. pc[q] \in Late => Pair(q) # {u, v}
        BY <1>2, <2>2 DEF WritesNone
      <3>2. QED
        BY <1>2, <3>1, OwedApart DEF WritesNone
    <2>3. QED
      BY <2>1, <2>2
  <1>3. ASSUME NEW s,
               \/ SetStatus(caller[q], other[q], s)
               \/ SetStatus(other[q], caller[q], s),
               pc[q] \notin {"idle", "done"},
               Pair(q) # {u, v}
        PROVE  Owed(u, v)'
    <2>1. caller[q] \in Users /\ other[q] \in Users
      BY <1>3, Parties
    <2>2. /\ ~(u = caller[q] /\ v = other[q])
          /\ ~(v = caller[q] /\ u = other[q])
      BY <1>3 DEF Pair
    <2>3. status'[u][v] = status[u][v] /\ status'[v][u] = status[v][u]
      BY <1>1, <1>3, <2>1, <2>2, OneRow
    <2>4. QED
      BY <1>3, <2>3, OwedApart
  <1>4. CASE \/ WritesMine(q, "ask", "tell", Upsert(caller[q], other[q], "sent"))
             \/ WritesMine(q, "mine", "theirs", "accepted")
             \/ WritesMine(q, "block", "blockTheirs", "blocked")
    <2>1. CASE Pair(q) # {u, v}
      BY <1>3, <1>4, <2>1 DEF WritesMine
    <2>2. CASE Pair(q) = {u, v}
      <3>1. (u = caller[q] /\ v = other[q]) \/ (v = caller[q] /\ u = other[q])
        BY <2>2 DEF Pair
      <3>2. CASE u = caller[q] /\ v = other[q]
        BY <1>4, <3>2, OwedMine
      <3>3. CASE v = caller[q] /\ u = other[q]
        BY <1>4, <3>3, OwedMine
      <3>4. QED
        BY <3>1, <3>2, <3>3
    <2>3. QED
      BY <2>1, <2>2
  <1>5. CASE \/ WritesTheirs(q, "tell", Upsert(other[q], caller[q], "pending"))
             \/ WritesTheirs(q, "theirs", "accepted")
             \/ WritesTheirs(q, "blockTheirs", "blocked")
    <2>1. CASE Pair(q) # {u, v}
      BY <1>3, <1>5, <2>1 DEF WritesTheirs
    <2>2. CASE Pair(q) = {u, v}
      <3>1. (u = caller[q] /\ v = other[q]) \/ (v = caller[q] /\ u = other[q])
        BY <2>2 DEF Pair
      <3>2. CASE u = caller[q] /\ v = other[q]
        BY <1>5, <3>2, OwedTheirs
      <3>3. CASE v = caller[q] /\ u = other[q]
        BY <1>5, <3>3, OwedTheirs
      <3>4. QED
        BY <3>1, <3>2, <3>3
    <2>3. QED
      BY <2>1, <2>2
  <1>6. CASE \E x, y \in Users : Rejects(x, y) /\ op' = op /\ pc[q] = "idle" /\ pc'[q] = "done"
    BY <1>6, OwedReject
  <1>7. QED
    BY <1>2, <1>4, <1>5, <1>6, RowSteps

LEMMA InitDebts == Init => Debts
  BY ContactsAssumption DEF Init, Debts, NoneAlone, AllBehind, Behind, AllOwed, Owed

LEMMA NextDebts == IInv /\ Firm /\ Debts /\ [Next]_vars => Debts'
  <1> SUFFICES ASSUME IInv, Firm, Debts, [Next]_vars PROVE Debts'
    OBVIOUS
  <1>1. CASE UNCHANGED vars
    BY <1>1 DEF vars, Debts, NoneAlone, AllBehind, Behind, AllOwed, Owed, At, Pair
  <1>2. ASSUME NEW q \in Requests, RequestStep(q) PROVE Debts'
    <2>1. NoneAlone'
      BY <1>2, KeepsNoneAlone
    <2>2. AllBehind'
      BY <1>2, OneBehind, OthersBehind DEF AllBehind
    <2>3. AllOwed'
      BY <1>2, StepOwed DEF AllOwed
    <2>4. QED
      BY <2>1, <2>2, <2>3 DEF Debts
  <1>3. QED
    BY <1>1, <1>2 DEF Next

LEMMA AlwaysDebts == Spec => []Debts
  <1>1. Init => Debts
    BY InitDebts
  <1>2. IInv /\ Firm /\ Debts /\ [Next]_vars => Debts'
    BY NextDebts
  <1>3. QED
    BY <1>1, <1>2, Inductive, AlwaysFirm, PTL DEF Spec

\* Where nothing runs, nothing is owed.
LEMMA NothingOwed ==
    ASSUME IInv, Debts
    PROVE  RowsAgree
  <1> SUFFICES ASSUME NEW u \in Users, NEW v \in Users, Quiet(u, v), {u, v} \notin failed
               PROVE  /\ status[u][v] = "sent" => status[v][u] = "pending"
                      /\ {u, v} \notin outrun => (status[u][v] = "accepted" <=> status[v][u] = "accepted")
    BY DEF RowsAgree
  <1>1. CASE u = v
    BY <1>1 DEF Debts, NoneAlone
  <1>2. CASE u # v
    <2>1. {u, v} = {v, u}
      OBVIOUS
    <2>2. ASSUME NEW label \in Late PROVE ~At(u, v, label) /\ ~At(v, u, label)
      <3>1. ASSUME NEW p \in Requests, pc[p] = label, Pair(p) = {u, v} PROVE FALSE
        <4>1. op[p] \in Handlers \ {"none"}
          BY <2>2, <3>1, Running DEF Late, Runs
        <4>2. QED
          BY <3>1, <4>1 DEF Quiet, On
      <3>2. QED
        BY <2>1, <3>1 DEF At, Pair
    <2>3. Owed(u, v) /\ Owed(v, u)
      BY <1>2 DEF Debts, AllOwed
    <2>4. ~At(u, v, "tell") /\ ~At(v, u, "tell")
      BY <2>2 DEF Late
    <2>5. ~At(u, v, "theirs") /\ ~At(v, u, "theirs")
      BY <2>2 DEF Late
    <2>6. ~At(u, v, "blockTheirs") /\ ~At(v, u, "blockTheirs")
      BY <2>2 DEF Late
    <2>7. QED
      BY <2>1, <2>3, <2>4, <2>5, <2>6 DEF Owed, Settled
  <1>3. QED
    BY <1>1, <1>2

-----------------------------------------------------------------------------
(* Where friends talk.  While one accept runs alone it carries the         *)
(* conversation from the row it has written to the one it has not, and     *)
(* nobody takes a participant from a conversation on the way.              *)

\* A conversation that was created is empty until its own request fills it.
Fresh ==
    \A p \in Requests : pc[p] = "join" =>
        /\ participants[found[p]] = {}
        /\ \A q \in Requests : pc[q] = "join" /\ q # p => found[q] # found[p]

\* Two accepts that run at the same time have been noticed.
Noticed ==
    \A p, q \in Requests :
        p # q /\ op[p] = "accept" /\ op[q] = "accept" /\ Pair(p) = Pair(q) => Pair(p) \in doubled

\* An accept that runs alone: nobody is the other's friend before it says so, and it has
\* the conversation of the row it has written.
Lone(q) ==
    op[q] = "accept" /\ Pair(q) \notin doubled \cup failed =>
        /\ status[other[q]][caller[q]] # "accepted"
        /\ pc[q] # "theirs" => status[caller[q]][other[q]] # "accepted"
        /\ pc[q] = "theirs" /\ status[caller[q]][other[q]] = "accepted"
              => chat[caller[q]][other[q]] = found[q]

\* An accept that sets about writing has a conversation both take part in.
HasChat(q) ==
    pc[q] \in {"mine", "theirs"} /\ Pair(q) \notin failed
        => found[q] \in Conversations /\ Pair(q) \subseteq participants[found[q]]

Talk(u, v) ==
    {u, v} \notin doubled \cup failed /\ status[u][v] = "accepted" /\ status[v][u] = "accepted" =>
        /\ chat[u][v] = chat[v][u] /\ chat[u][v] \in Conversations
        /\ {u, v} \subseteq participants[chat[u][v]]

Carried == \A q \in Requests : Lone(q) /\ HasChat(q)
Talks   == \A u, v \in Users : Talk(u, v)
Meets   == Fresh /\ Noticed /\ Carried /\ Talks

\* Who accepts after a step accepted before, or begins.
LEMMA Accepting ==
    ASSUME IInv, NEW q \in Requests, RequestStep(q), op'[q] = "accept"
    PROVE  \/ /\ op[q] = "accept" /\ caller'[q] = caller[q] /\ other'[q] = other[q]
              /\ FindChat(q) \/ CreateChat(q) \/ JoinChat(q) \/ AcceptMine(q)
           \/ /\ StartAccept(q, caller'[q], other'[q])
              /\ caller'[q] \in Users /\ other'[q] \in Users
  <1>1. Control /\ Runs(q)
    BY DEF IInv, Control
  <1>2. ASSUME Ends(q) PROVE FALSE
    BY <1>1, <1>2 DEF Ends, Control
  <1>3. ASSUME NEW label, Goto(q, label)
        PROVE  op[q] = "accept" /\ caller'[q] = caller[q] /\ other'[q] = other[q]
    BY <1>1, <1>3 DEF Goto, request, Control
  <1>4. ASSUME NEW u \in Users, NEW v \in Users, NEW handler, NEW label, Starts(q, handler, label, u, v)
        PROVE  handler = "accept" /\ caller'[q] = u /\ other'[q] = v
    BY <1>1, <1>4 DEF Starts, Control
  <1>5. ASSUME NEW u \in Users, NEW v \in Users,
               \/ StartSend(q, u, v) \/ StartAccept(q, u, v) \/ StartDirect(q, u, v)
               \/ StartBlock(q, u, v)
        PROVE  StartAccept(q, u, v) /\ caller'[q] = u /\ other'[q] = v
    <2>1. ASSUME StartSend(q, u, v) PROVE FALSE
      BY <1>4, <2>1 DEF StartSend
    <2>2. ASSUME StartDirect(q, u, v) PROVE FALSE
      BY <1>4, <2>2 DEF StartDirect
    <2>3. ASSUME StartBlock(q, u, v) PROVE FALSE
      BY <1>4, <2>3 DEF StartBlock
    <2>4. StartAccept(q, u, v) => caller'[q] = u /\ other'[q] = v
      BY <1>4 DEF StartAccept
    <2>5. QED
      BY <1>5, <2>1, <2>2, <2>3, <2>4
  <1>6. ASSUME NEW u \in Users, NEW v \in Users, Reject(q, u, v) PROVE FALSE
    BY <1>1, <1>6, StartFresh DEF Reject, request
  <1>7. ~Tell(q) /\ ~AcceptTheirs(q) /\ ~BlockTheirs(q)
    BY <1>2 DEF Tell, AcceptTheirs, BlockTheirs
  <1>8. ~Ask(q)
    <2>1. ASSUME Ask(q) PROVE op[q] = "accept" /\ op[q] = "send"
      BY <1>2, <1>3, <2>1, Running DEF Ask
    <2>2. QED
      BY <2>1
  <1>9. ~BlockMine(q)
    <2>1. ASSUME BlockMine(q) PROVE op[q] = "accept" /\ op[q] = "block"
      BY <1>3, <2>1, Running DEF BlockMine
    <2>2. QED
      BY <2>1
  <1>10. FindChat(q) \/ CreateChat(q) \/ JoinChat(q) \/ AcceptMine(q) => \E label : Goto(q, label)
    BY <1>2 DEF FindChat, CreateChat, JoinChat, AcceptMine
  <1>11. CASE FindChat(q) \/ CreateChat(q) \/ JoinChat(q) \/ AcceptMine(q)
    BY <1>3, <1>10, <1>11
  <1>12. CASE \E u, v \in Users : \/ StartSend(q, u, v) \/ StartAccept(q, u, v) \/ StartDirect(q, u, v)
                                  \/ StartBlock(q, u, v)
    BY <1>5, <1>12
  <1>13. QED
    BY <1>6, <1>7, <1>8, <1>9, <1>11, <1>12 DEF RequestStep

\* Only an accept of two users makes them friends or moves them to a conversation.
LEMMA OthersTalk ==
    ASSUME IInv, Debts, NEW q \in Requests, RequestStep(q), NEW u \in Users, NEW v \in Users,
           ~(pc[q] \in {"mine", "theirs"} /\ Pair(q) = {u, v})
    PROVE  /\ status'[u][v] = "accepted" => status[u][v] = "accepted"
           /\ chat'[u][v] = chat[u][v]
  <1>1. /\ status \in [Users -> [Users -> Statuses]]
        /\ chat \in [Users -> [Users -> Conversations \cup {NoChat}]]
    BY DEF IInv, Rows
  <1>2. ASSUME NEW x \in Users, NEW y \in Users, NEW s, SetStatus(x, y, s),
               s = "accepted" => status[x][y] = "accepted" \/ ~(x = u /\ y = v)
        PROVE  status'[u][v] = "accepted" => status[u][v] = "accepted"
    BY <1>1, <1>2, OneRow
  <1>3. status'[u][v] = "accepted" => status[u][v] = "accepted"
    <2>1. CASE WritesNone(q)
      BY <2>1 DEF WritesNone
    <2>2. CASE WritesMine(q, "ask", "tell", Upsert(caller[q], other[q], "sent"))
      BY <1>2, <2>2, Parties DEF WritesMine, Upsert
    <2>3. CASE WritesTheirs(q, "tell", Upsert(other[q], caller[q], "pending"))
      BY <1>2, <2>3, Parties DEF WritesTheirs, Upsert
    <2>4. CASE WritesMine(q, "mine", "theirs", "accepted")
      <3>1. ~(caller[q] = u /\ other[q] = v)
        BY <2>4 DEF WritesMine, Pair
      <3>2. QED
        BY <1>2, <2>4, <3>1, Parties DEF WritesMine
    <2>5. CASE WritesTheirs(q, "theirs", "accepted")
      <3>1. ~(other[q] = u /\ caller[q] = v)
        BY <2>5 DEF WritesTheirs, Pair
      <3>2. QED
        BY <1>2, <2>5, <3>1, Parties DEF WritesTheirs
    <2>6. CASE WritesMine(q, "block", "blockTheirs", "blocked")
      BY <1>2, <2>6, Parties DEF WritesMine
    <2>7. CASE WritesTheirs(q, "blockTheirs", "blocked")
      BY <1>2, <2>7, Parties DEF WritesTheirs
    <2>8. CASE \E x, y \in Users : Rejects(x, y)
      <3>1. status'[u][v] \in {status[u][v], Rejected(status[u][v]), Rejected(Rejected(status[u][v]))}
        BY <1>1, <2>8 DEF Rejects
      <3>2. QED
        BY <3>1 DEF Rejected
    <2>9. QED
      BY <2>1, <2>2, <2>3, <2>4, <2>5, <2>6, <2>7, <2>8, RowSteps
  <1>4. chat'[u][v] = chat[u][v]
    <2>1. CASE AcceptMine(q) \/ AcceptTheirs(q)
      <3>1. caller[q] \in Users /\ other[q] \in Users
        BY <2>1, Parties DEF AcceptMine, AcceptTheirs
      <3>2. ~(caller[q] = u /\ other[q] = v) /\ ~(other[q] = u /\ caller[q] = v)
        BY <2>1 DEF AcceptMine, AcceptTheirs, Pair
      <3>3. \/ chat' = chat
            \/ chat' = [chat EXCEPT ![caller[q]][other[q]] = found[q]]
            \/ chat' = [chat EXCEPT ![other[q]][caller[q]] = found[q]]
        BY <2>1 DEF AcceptMine, AcceptTheirs, AcceptRow, Fails, contacts
      <3>4. QED
        BY <1>1, <3>1, <3>2, <3>3
    <2>2. CASE ~(AcceptMine(q) \/ AcceptTheirs(q))
      <3>1. chat' = chat
        <4>1. ASSUME NEW x \in Users, NEW y \in Users,
                     \/ StartSend(q, x, y) \/ StartAccept(q, x, y) \/ StartDirect(q, x, y)
                     \/ StartBlock(q, x, y) \/ Reject(q, x, y)
              PROVE  chat' = chat
          BY <4>1 DEF StartSend, StartAccept, StartDirect, StartBlock, Reject, Starts, contacts
        <4>2. CASE \/ Ask(q) \/ Tell(q) \/ FindChat(q) \/ CreateChat(q) \/ JoinChat(q)
                   \/ BlockMine(q) \/ BlockTheirs(q)
          BY <4>2 DEF Ask, Tell, FindChat, CreateChat, JoinChat, BlockMine, BlockTheirs, Fails, contacts
        <4>3. QED
          BY <2>2, <4>1, <4>2 DEF RequestStep
      <3>2. QED
        BY <3>1
    <2>3. QED
      BY <2>1, <2>2
  <1>5. QED
    BY <1>3, <1>4

\* The participants after a step: those of one conversation at the most are new.
LEMMA NewParticipants ==
    ASSUME IInv, NEW q \in Requests, RequestStep(q)
    PROVE  \/ participants' = participants
           \/ /\ pc[q] = "join" /\ pc'[q] # "join" /\ found[q] \in Conversations
              /\ participants' = [participants EXCEPT ![found[q]] = Pair(q)]
  <1>1. ASSUME NEW u \in Users, NEW v \in Users,
               \/ StartSend(q, u, v) \/ StartAccept(q, u, v) \/ StartDirect(q, u, v)
               \/ StartBlock(q, u, v) \/ Reject(q, u, v)
        PROVE  participants' = participants
    BY <1>1 DEF StartSend, StartAccept, StartDirect, StartBlock, Reject, Starts, direct
  <1>2. CASE Ask(q) \/ Tell(q) \/ FindChat(q) \/ CreateChat(q)
    BY <1>2 DEF Ask, Tell, FindChat, CreateChat, Fails, direct
  <1>3. CASE AcceptMine(q) \/ AcceptTheirs(q) \/ BlockMine(q) \/ BlockTheirs(q)
    BY <1>3 DEF AcceptMine, AcceptTheirs, BlockMine, BlockTheirs, Fails, direct
  <1>4. CASE JoinChat(q)
    <2>1. Control /\ Runs(q)
      BY DEF IInv, Control
    <2>2. pc'[q] # "join"
      BY <1>4, <2>1 DEF JoinChat, Ends, Goto, Control
    <2>3. found[q] \in Conversations
      BY <1>4, <2>1 DEF JoinChat, Runs
    <2>4. QED
      BY <1>4, <2>2, <2>3 DEF JoinChat, Fails, direct
  <1>5. QED
    BY <1>1, <1>2, <1>3, <1>4 DEF RequestStep

\* Nobody is taken out of a conversation.
LEMMA NobodyLeaves ==
    ASSUME IInv, Fresh, NEW q \in Requests, RequestStep(q), NEW c \in Conversations
    PROVE  participants[c] \subseteq participants'[c]
  <1>1. participants \in [Conversations -> SUBSET Users]
    BY DEF IInv, Rows
  <1>2. CASE participants' = participants
    BY <1>2
  <1>3. CASE /\ pc[q] = "join" /\ found[q] \in Conversations
             /\ participants' = [participants EXCEPT ![found[q]] = Pair(q)]
    <2>1. participants[found[q]] = {}
      BY <1>3 DEF Fresh
    <2>2. CASE c = found[q]
      BY <2>1, <2>2
    <2>3. CASE c # found[q]
      BY <1>1, <1>3, <2>3
    <2>4. QED
      BY <2>2, <2>3
  <1>4. QED
    BY <1>2, <1>3, NewParticipants

\* A request that arrives at "join" has just created its conversation.
LEMMA Created ==
    ASSUME IInv, NEW q \in Requests, RequestStep(q), pc'[q] = "join"
    PROVE  found'[q] \in Conversations \ created /\ participants' = participants
  <1>1. Control /\ Runs(q)
    BY DEF IInv, Control
  <1>2. ASSUME Ends(q) PROVE FALSE
    BY <1>1, <1>2 DEF Ends, Control
  <1>3. ASSUME NEW label \in Labels \ {"join"}, Goto(q, label) PROVE FALSE
    BY <1>1, <1>3 DEF Goto, Control
  <1>4. {"ask", "tell", "find", "create", "mine", "theirs", "block", "blockTheirs"} \subseteq Labels \ {"join"}
    BY DEF Labels
  <1>5. ASSUME NEW u \in Users, NEW v \in Users,
               \/ StartSend(q, u, v) \/ StartAccept(q, u, v) \/ StartDirect(q, u, v)
               \/ StartBlock(q, u, v) \/ Reject(q, u, v)
        PROVE  FALSE
    BY <1>1, <1>5 DEF StartSend, StartAccept, StartDirect, StartBlock, Reject, Starts, Control
  <1>6. ~Ask(q) /\ ~Tell(q)
    BY <1>2, <1>3, <1>4 DEF Ask, Tell
  <1>7. ~FindChat(q) /\ ~JoinChat(q)
    BY <1>2, <1>3, <1>4 DEF FindChat, JoinChat
  <1>8. ~AcceptMine(q) /\ ~AcceptTheirs(q) /\ ~BlockMine(q) /\ ~BlockTheirs(q)
    BY <1>2, <1>3, <1>4 DEF AcceptMine, AcceptTheirs, BlockMine, BlockTheirs
  <1>9. CreateChat(q)
    BY <1>5, <1>6, <1>7, <1>8 DEF RequestStep
  <1>10. PICK c \in Conversations \ created : found' = [found EXCEPT ![q] = c] /\ participants' = participants
    BY <1>2, <1>3, <1>4, <1>9 DEF CreateChat
  <1>11. QED
    BY <1>1, <1>10 DEF Control

LEMMA KeepsFresh ==
    ASSUME IInv, Fresh, NEW q \in Requests, RequestStep(q)
    PROVE  Fresh'
  <1>1. participants \in [Conversations -> SUBSET Users] /\ created \subseteq Conversations
        /\ \A c \in Conversations \ created : participants[c] = {}
    BY DEF IInv, Rows
  <1>2. \A p \in Requests \ {q} : pc'[p] = pc[p] /\ found'[p] = found[p]
    BY Alone
  <1>3. \A p \in Requests : pc[p] = "join" => found[p] \in created
    BY DEF IInv, Control, Runs
  <1>4. ASSUME NEW p \in Requests, pc'[p] = "join"
        PROVE  participants'[found'[p]] = {}
    <2>1. CASE p = q
      BY <1>1, <1>4, <2>1, Created
    <2>2. CASE p # q
      <3>1. pc[p] = "join" /\ found'[p] = found[p] /\ participants[found[p]] = {} /\ found[p] \in created
        BY <1>2, <1>3, <1>4, <2>2 DEF Fresh
      <3>2. CASE participants' = participants
        BY <3>1, <3>2
      <3>3. CASE /\ pc[q] = "join"
                 /\ participants' = [participants EXCEPT ![found[q]] = Pair(q)]
        <4>1. found[p] # found[q]
          BY <2>2, <3>1, <3>3 DEF Fresh
        <4>2. QED
          BY <1>1, <3>1, <3>3, <4>1
      <3>4. QED
        BY <3>2, <3>3, NewParticipants
    <2>3. QED
      BY <2>1, <2>2
  <1>5. ASSUME NEW p \in Requests, NEW r \in Requests, pc'[p] = "join", pc'[r] = "join", p # r
        PROVE  found'[p] # found'[r]
    <2>1. CASE p = q
      BY <1>2, <1>3, <1>5, <2>1, Created
    <2>2. CASE r = q
      BY <1>2, <1>3, <1>5, <2>2, Created
    <2>3. CASE p # q /\ r # q
      BY <1>2, <1>5, <2>3 DEF Fresh
    <2>4. QED
      BY <2>1, <2>2, <2>3
  <1>6. QED
    BY <1>4, <1>5 DEF Fresh

LEMMA KeepsNoticed ==
    ASSUME IInv, Noticed, NEW q \in Requests, RequestStep(q)
    PROVE  Noticed'
  <1>1. /\ \A p \in Requests \ {q} : op'[p] = op[p] /\ caller'[p] = caller[p] /\ other'[p] = other[p]
        /\ doubled \subseteq doubled'
    BY Alone
  <1>2. ASSUME NEW p \in Requests, p # q, op'[p] = "accept", op'[q] = "accept", Pair(p)' = Pair(q)'
        PROVE  Pair(q)' \in doubled'
    <2>1. op[p] = "accept" /\ Pair(p) = Pair(p)'
      BY <1>1, <1>2 DEF Pair
    <2>2. CASE op[q] = "accept" /\ caller'[q] = caller[q] /\ other'[q] = other[q]
      <3>1. Pair(q)' = Pair(q)
        BY <2>2 DEF Pair
      <3>2. QED
        BY <1>1, <1>2, <2>1, <2>2, <3>1 DEF Noticed
    <2>3. CASE StartAccept(q, caller'[q], other'[q])
      <3>1. Pair(p) = {caller'[q], other'[q]} /\ Pair(q)' = {caller'[q], other'[q]}
        BY <1>2, <2>1 DEF Pair
      <3>2. On(caller'[q], other'[q], {"accept", "direct"})
        BY <2>1, <3>1 DEF On
      <3>3. QED
        BY <2>3, <3>1, <3>2 DEF StartAccept, Starts
    <2>4. QED
      BY <1>2, <2>2, <2>3, Accepting
  <1>3. ASSUME NEW p \in Requests, NEW r \in Requests, p # q, r # q, p # r,
               op'[p] = "accept", op'[r] = "accept", Pair(p)' = Pair(r)'
        PROVE  Pair(p)' \in doubled'
    <2>1. op[p] = "accept" /\ op[r] = "accept" /\ Pair(p) = Pair(p)' /\ Pair(r) = Pair(r)'
      BY <1>1, <1>3 DEF Pair
    <2>2. QED
      BY <1>1, <1>3, <2>1 DEF Noticed
  <1>4. ASSUME NEW p \in Requests, NEW r \in Requests, p # r,
               op'[p] = "accept", op'[r] = "accept", Pair(p)' = Pair(r)'
        PROVE  Pair(p)' \in doubled'
    <2>1. CASE p = q
      BY <1>2, <1>4, <2>1
    <2>2. CASE r = q
      BY <1>2, <1>4, <2>2
    <2>3. CASE p # q /\ r # q
      BY <1>3, <1>4, <2>3
    <2>4. QED
      BY <2>1, <2>2, <2>3
  <1>5. QED
    BY <1>4 DEF Noticed

\* What a request at its last two labels does.
LEMMA OnlyAccepts ==
    ASSUME IInv, NEW q \in Requests, RequestStep(q)
    PROVE  /\ pc[q] = "mine" => AcceptMine(q)
           /\ pc[q] = "theirs" => AcceptTheirs(q)
  <1>1. ASSUME NEW u \in Users, NEW v \in Users,
               \/ StartSend(q, u, v) \/ StartAccept(q, u, v) \/ StartDirect(q, u, v)
               \/ StartBlock(q, u, v) \/ Reject(q, u, v)
        PROVE  pc[q] = "idle"
    BY <1>1 DEF StartSend, StartAccept, StartDirect, StartBlock, Reject, Starts
  <1>2. /\ Ask(q) => pc[q] = "ask"
        /\ Tell(q) => pc[q] = "tell"
        /\ FindChat(q) => pc[q] = "find"
        /\ CreateChat(q) => pc[q] = "create"
        /\ JoinChat(q) => pc[q] = "join"
        /\ AcceptMine(q) => pc[q] = "mine"
        /\ AcceptTheirs(q) => pc[q] = "theirs"
        /\ BlockMine(q) => pc[q] = "block"
        /\ BlockTheirs(q) => pc[q] = "blockTheirs"
    BY DEF Ask, Tell, FindChat, CreateChat, JoinChat, AcceptMine, AcceptTheirs, BlockMine, BlockTheirs
  <1>3. QED
    BY <1>1, <1>2 DEF RequestStep

\* The requests beside the step carry what they carried.
LEMMA OthersCarry ==
    ASSUME IInv, Debts, Meets, NEW q \in Requests, RequestStep(q), NEW p \in Requests, p # q
    PROVE  Lone(p)' /\ HasChat(p)'
  <1>1. /\ pc'[p] = pc[p] /\ op'[p] = op[p] /\ found'[p] = found[p]
        /\ caller'[p] = caller[p] /\ other'[p] = other[p]
        /\ failed \subseteq failed' /\ doubled \subseteq doubled'
    BY Alone
  <1>2. Pair(p)' = Pair(p)
    BY <1>1 DEF Pair
  <1>3. Lone(p) /\ HasChat(p)
    BY DEF Meets, Carried
  <1>4. HasChat(p)'
    <2>1. found[p] \in Conversations => participants[found[p]] \subseteq participants'[found[p]]
      BY NobodyLeaves DEF Meets
    <2>2. QED
      BY <1>1, <1>2, <1>3, <2>1 DEF HasChat
  <1>5. Lone(p)'
    <2> SUFFICES ASSUME op[p] = "accept", Pair(p) \notin doubled' \cup failed'
                 PROVE  Lone(p)'
      BY <1>1, <1>2 DEF Lone
    <2>1. caller[p] \in Users /\ other[p] \in Users
      BY DEF IInv, Control, Runs
    <2>2. ~(pc[q] \in {"mine", "theirs"} /\ Pair(q) = Pair(p))
      <3>1. pc[q] \in {"mine", "theirs"} => op[q] = "accept"
        BY Running
      <3>2. QED
        BY <1>1, <3>1 DEF Meets, Noticed
    <2>3. /\ status'[caller[p]][other[p]] = "accepted" => status[caller[p]][other[p]] = "accepted"
          /\ chat'[caller[p]][other[p]] = chat[caller[p]][other[p]]
      BY <2>1, <2>2, OthersTalk DEF Pair
    <2>4. status'[other[p]][caller[p]] = "accepted" => status[other[p]][caller[p]] = "accepted"
      <3>1. {other[p], caller[p]} = Pair(p)
        BY DEF Pair
      <3>2. ~(pc[q] \in {"mine", "theirs"} /\ Pair(q) = {other[p], caller[p]})
        BY <2>2, <3>1
      <3>3. QED
        BY <2>1, <3>2, OthersTalk
    <2>5. Pair(p) \notin doubled \cup failed
      BY <1>1
    <2>6. QED
      BY <1>1, <1>2, <1>3, <2>3, <2>4, <2>5 DEF Lone
  <1>6. QED
    BY <1>4, <1>5

\* The request that steps: its conversation.
LEMMA OneHasChat ==
    ASSUME IInv, IInv', Meets, NEW q \in Requests, RequestStep(q)
    PROVE  HasChat(q)'
  <1> SUFFICES ASSUME pc'[q] \in {"mine", "theirs"}, Pair(q)' \notin failed'
               PROVE  found'[q] \in Conversations /\ Pair(q)' \subseteq participants'[found'[q]]
    BY DEF HasChat
  <1>1. Control /\ Control' /\ Runs(q) /\ HasChat(q)
    BY DEF IInv, Control, Meets, Carried
  <1>2. participants \in [Conversations -> SUBSET Users] /\ created \subseteq Conversations
    BY DEF IInv, Rows
  <1>3. op'[q] = "accept"
    <2>1. Runs(q)'
      BY <1>1 DEF Control
    <2>2. QED
      BY <2>1 DEF Runs, LabelsOf, Handlers
  <1>4. ASSUME Ends(q) PROVE FALSE
    BY <1>1, <1>3, <1>4 DEF Ends, Control
  <1>5. CASE StartAccept(q, caller'[q], other'[q])
    BY <1>1, <1>5 DEF StartAccept, Starts, Control
  <1>6. ASSUME op[q] = "accept", caller'[q] = caller[q], other'[q] = other[q], FindChat(q)
        PROVE  found'[q] \in Conversations /\ Pair(q)' \subseteq participants'[found'[q]]
    <2>1. Pair(q)' = Pair(q) /\ participants' = participants
      BY <1>6 DEF Pair, FindChat, direct
    <2>2. ~Goto(q, "create")
      BY <1>1 DEF Goto, Control
    <2>3. \E c \in created : Pair(q) \subseteq participants[c] /\ found' = [found EXCEPT ![q] = c]
      BY <1>4, <1>6, <2>2 DEF FindChat
    <2>4. QED
      BY <1>1, <1>2, <2>1, <2>3 DEF Control
  <1>7. ASSUME op[q] = "accept", caller'[q] = caller[q], other'[q] = other[q], CreateChat(q)
        PROVE  FALSE
    <2>1. Pair(q)' = Pair(q)
      BY <1>7 DEF Pair
    <2>2. ~Goto(q, "join")
      BY <1>1 DEF Goto, Control
    <2>3. Fails(q)
      BY <1>7, <2>2 DEF CreateChat
    <2>4. QED
      BY <2>1, <2>3 DEF Fails
  <1>8. ASSUME op[q] = "accept", caller'[q] = caller[q], other'[q] = other[q], JoinChat(q)
        PROVE  found'[q] \in Conversations /\ Pair(q)' \subseteq participants'[found'[q]]
    <2>1. Pair(q)' = Pair(q)
      BY <1>8 DEF Pair
    <2>2. participants' = [participants EXCEPT ![found[q]] = Pair(q)]
      BY <1>8, <2>1 DEF JoinChat, Fails
    <2>3. found[q] \in Conversations /\ found' = found
      BY <1>1, <1>4, <1>8 DEF Runs, JoinChat
    <2>4. QED
      BY <1>2, <2>1, <2>2, <2>3
  <1>9. ASSUME op[q] = "accept", caller'[q] = caller[q], other'[q] = other[q], AcceptMine(q)
        PROVE  found'[q] \in Conversations /\ Pair(q)' \subseteq participants'[found'[q]]
    <2>1. Pair(q)' = Pair(q) /\ found' = found /\ failed \subseteq failed'
      BY <1>9, Alone DEF Pair, AcceptMine
    <2>2. found[q] \in Conversations /\ Pair(q) \subseteq participants[found[q]]
      BY <1>1, <1>9, <2>1 DEF HasChat, AcceptMine
    <2>3. participants[found[q]] \subseteq participants'[found[q]]
      BY <2>2, NobodyLeaves DEF Meets
    <2>4. QED
      BY <2>1, <2>2, <2>3
  <1>10. QED
    BY <1>3, <1>5, <1>6, <1>7, <1>8, <1>9, Accepting

\* The request that steps: nobody has said yes before it.
LEMMA OneLone ==
    ASSUME IInv, IInv', Debts, Meets, NEW q \in Requests, RequestStep(q)
    PROVE  Lone(q)'
  <1> SUFFICES ASSUME op'[q] = "accept", Pair(q)' \notin doubled' \cup failed'
               PROVE  Lone(q)'
    BY DEF Lone
  <1>1. Control /\ Control' /\ Runs(q) /\ Lone(q)
    BY DEF IInv, Control, Meets, Carried
  <1>2. status \in [Users -> [Users -> Statuses]] /\ chat \in [Users -> [Users -> Conversations \cup {NoChat}]]
    BY DEF IInv, Rows
  <1>3. failed \subseteq failed' /\ doubled \subseteq doubled'
    BY Alone
  <1>4. ASSUME NEW u \in Users, NEW v \in Users, u = caller'[q], v = other'[q], StartAccept(q, u, v)
        PROVE  Lone(q)'
    <2>1. /\ status[u][v] = "pending" /\ status' = status /\ u # v /\ pc'[q] = "find"
      BY <1>1, <1>4 DEF StartAccept, MayAccept, Starts, contacts, Control
    <2>2. status[v][u] # "accepted"
      <3>1. ASSUME status[v][u] = "accepted" PROVE At(v, u, "theirs")
        <4>1. Owed(u, v)
          BY <2>1 DEF Debts, AllOwed
        <4>2. {u, v} \notin failed
          BY <1>3, <1>4 DEF Pair
        <4>3. QED
          BY <2>1, <3>1, <4>1, <4>2 DEF Owed, Settled
      <3>2. ASSUME NEW p \in Requests, pc[p] = "theirs", caller[p] = v, other[p] = u
            PROVE  FALSE
        <4>1. op[p] = "accept"
          BY <3>2, Running
        <4>2. Pair(p) = {u, v}
          BY <3>2 DEF Pair
        <4>3. On(u, v, {"accept", "direct"})
          BY <4>1, <4>2 DEF On
        <4>4. {u, v} \in doubled'
          BY <1>4, <4>3 DEF StartAccept, Starts
        <4>5. QED
          BY <1>4, <4>4 DEF Pair
      <3>3. QED
        BY <3>1, <3>2 DEF At
    <2>3. QED
      BY <1>4, <2>1, <2>2 DEF Lone
  <1>5. ASSUME op[q] = "accept", caller'[q] = caller[q], other'[q] = other[q],
               FindChat(q) \/ CreateChat(q) \/ JoinChat(q)
        PROVE  Lone(q)'
    <2>1. Pair(q)' = Pair(q)
      BY <1>5 DEF Pair
    <2>2. status' = status
      BY <1>5 DEF FindChat, CreateChat, JoinChat, Fails, contacts
    <2>3. pc[q] # "theirs" /\ pc'[q] # "theirs"
      BY <1>1, <1>5 DEF FindChat, CreateChat, JoinChat, Goto, Ends, Control
    <2>4. QED
      BY <1>1, <1>3, <1>5, <2>1, <2>2, <2>3 DEF Lone
  <1>6. ASSUME op[q] = "accept", caller'[q] = caller[q], other'[q] = other[q], AcceptMine(q)
        PROVE  Lone(q)'
    <2>1. Pair(q)' = Pair(q) /\ pc'[q] = "theirs" /\ found' = found
      BY <1>1, <1>6 DEF Pair, AcceptMine, Goto, Control
    <2>2. caller[q] \in Users /\ other[q] \in Users /\ caller[q] # other[q]
      BY <1>6, Parties DEF AcceptMine
    <2>3. status[other[q]][caller[q]] # "accepted"
      BY <1>1, <1>3, <1>6, <2>1 DEF Lone
    <2>4. AcceptRow(q, caller[q], other[q])
      BY <1>6, <2>1 DEF AcceptMine, Fails
    <2>5. status[caller[q]][other[q]] # "none"
      BY <1>6 DEF Debts, AllBehind, Behind
    <2>6. /\ SetStatus(caller[q], other[q], "accepted")
          /\ chat' = [chat EXCEPT ![caller[q]][other[q]] = found[q]]
      BY <2>4, <2>5 DEF AcceptRow
    <2>7. status'[other[q]][caller[q]] = status[other[q]][caller[q]]
      BY <1>2, <2>2, <2>6, OneRow
    <2>8. chat'[caller[q]][other[q]] = found[q]
      BY <1>2, <2>2, <2>6
    <2>9. QED
      BY <1>6, <2>1, <2>3, <2>7, <2>8 DEF Lone
  <1>7. QED
    BY <1>4, <1>5, <1>6, Accepting

\* Two friends after a step.
LEMMA StepTalk ==
    ASSUME IInv, IInv', Debts, Meets, NEW q \in Requests, RequestStep(q), Lone(q)',
           NEW u \in Users, NEW v \in Users
    PROVE  Talk(u, v)'
  <1> SUFFICES ASSUME {u, v} \notin doubled' \cup failed',
                      status'[u][v] = "accepted", status'[v][u] = "accepted"
               PROVE  /\ chat'[u][v] = chat'[v][u] /\ chat'[u][v] \in Conversations
                      /\ {u, v} \subseteq participants'[chat'[u][v]]
    BY DEF Talk
  <1>1. Control /\ Runs(q) /\ Talk(u, v) /\ Lone(q) /\ HasChat(q)
    BY DEF IInv, Control, Meets, Carried, Talks
  <1>2. status \in [Users -> [Users -> Statuses]] /\ chat \in [Users -> [Users -> Conversations \cup {NoChat}]]
    BY DEF IInv, Rows
  <1>3. failed \subseteq failed' /\ doubled \subseteq doubled'
    BY Alone
  <1>4. CASE ~(pc[q] \in {"mine", "theirs"} /\ Pair(q) = {u, v})
    <2>1. {u, v} = {v, u}
      OBVIOUS
    <2>2. /\ status[u][v] = "accepted" /\ chat'[u][v] = chat[u][v]
          /\ status[v][u] = "accepted" /\ chat'[v][u] = chat[v][u]
      BY <1>4, <2>1, OthersTalk
    <2>3. /\ chat[u][v] = chat[v][u] /\ chat[u][v] \in Conversations
          /\ {u, v} \subseteq participants[chat[u][v]]
      BY <1>1, <1>3, <2>2 DEF Talk
    <2>4. participants[chat[u][v]] \subseteq participants'[chat[u][v]]
      BY <2>3, NobodyLeaves DEF Meets
    <2>5. QED
      BY <2>2, <2>3, <2>4
  <1>5. CASE pc[q] = "mine" /\ Pair(q) = {u, v}
    <2>1. AcceptMine(q)
      BY <1>5, OnlyAccepts
    <2>2. op'[q] = "accept" /\ caller'[q] = caller[q] /\ other'[q] = other[q]
      BY <1>1, <1>5, <2>1, Running DEF AcceptMine, Goto, request
    <2>3. Pair(q)' = Pair(q)
      BY <2>2 DEF Pair
    <2>4. status'[other[q]][caller[q]] # "accepted"
      BY <1>5, <2>2, <2>3 DEF Lone
    <2>5. (caller[q] = u /\ other[q] = v) \/ (caller[q] = v /\ other[q] = u)
      BY <1>5 DEF Pair
    <2>6. QED
      BY <2>4, <2>5
  <1>6. CASE pc[q] = "theirs" /\ Pair(q) = {u, v}
    <2>1. AcceptTheirs(q) /\ op[q] = "accept"
      BY <1>6, OnlyAccepts, Running
    <2>2. caller[q] \in Users /\ other[q] \in Users /\ caller[q] # other[q]
      BY <1>6, Parties
    <2>3. AcceptRow(q, other[q], caller[q]) /\ participants' = participants
      BY <1>6, <2>1 DEF AcceptTheirs, Fails, direct
    <2>4. status[other[q]][caller[q]] # "none"
      BY <2>1 DEF Debts, AllBehind, Behind
    <2>5. /\ SetStatus(other[q], caller[q], "accepted")
          /\ chat' = [chat EXCEPT ![other[q]][caller[q]] = found[q]]
      BY <2>3, <2>4 DEF AcceptRow
    <2>6. status'[caller[q]][other[q]] = status[caller[q]][other[q]]
      BY <1>2, <2>2, <2>5, OneRow
    <2>7. /\ chat'[other[q]][caller[q]] = found[q]
          /\ chat'[caller[q]][other[q]] = chat[caller[q]][other[q]]
      BY <1>2, <2>2, <2>5
    <2>8. (caller[q] = u /\ other[q] = v) \/ (caller[q] = v /\ other[q] = u)
      BY <1>6 DEF Pair
    <2>9. Pair(q) \notin doubled \cup failed /\ status[caller[q]][other[q]] = "accepted"
      BY <1>3, <1>6, <2>6, <2>8
    <2>10. chat[caller[q]][other[q]] = found[q]
      BY <1>1, <1>6, <2>1, <2>9 DEF Lone
    <2>11. found[q] \in Conversations /\ Pair(q) \subseteq participants[found[q]]
      BY <1>1, <1>6, <2>9 DEF HasChat
    <2>12. QED
      BY <1>6, <2>3, <2>7, <2>8, <2>10, <2>11
  <1>7. QED
    BY <1>4, <1>5, <1>6

LEMMA InitMeets == Init => Meets
  BY ContactsAssumption
  DEF Init, Meets, Fresh, Noticed, Carried, Lone, HasChat, Talks, Talk

LEMMA NextMeets == IInv /\ IInv' /\ Debts /\ Meets /\ [Next]_vars => Meets'
  <1> SUFFICES ASSUME IInv, IInv', Debts, Meets, [Next]_vars PROVE Meets'
    OBVIOUS
  <1>1. CASE UNCHANGED vars
    BY <1>1 DEF vars, Meets, Fresh, Noticed, Carried, Lone, HasChat, Talks, Talk, Pair
  <1>2. ASSUME NEW q \in Requests, RequestStep(q) PROVE Meets'
    <2>1. Fresh' /\ Noticed'
      BY <1>2, KeepsFresh, KeepsNoticed DEF Meets
    <2>2. Lone(q)' /\ HasChat(q)'
      BY <1>2, OneLone, OneHasChat
    <2>3. Carried'
      BY <1>2, <2>2, OthersCarry DEF Carried
    <2>4. Talks'
      BY <1>2, <2>2, StepTalk DEF Talks
    <2>5. QED
      BY <2>1, <2>3, <2>4 DEF Meets
  <1>3. QED
    BY <1>1, <1>2 DEF Next

LEMMA AlwaysMeets == Spec => []Meets
  <1>1. Init => Meets
    BY InitMeets
  <1>2. IInv /\ IInv' /\ Debts /\ Meets /\ [Next]_vars => Meets'
    BY NextMeets
  <1>3. QED
    BY <1>1, <1>2, Inductive, AlwaysDebts, PTL DEF Spec

\* For any users and requests, in any interleaving: once the requests about two users are
\* over, what one of them sees the other can answer, both are friends or neither, and
\* friends talk in one conversation, but for the failures, races and repetitions that
\* FriendsAgree names.
THEOREM Agreement == Spec => []FriendsAgree
  <1>1. IInv /\ Debts => RowsAgree
    BY NothingOwed
  <1>2. Meets => FriendsShareChat
    BY DEF Meets, Talks, Talk, FriendsShareChat
  <1>3. IInv /\ Debts /\ Meets => FriendsAgree
    BY <1>1, <1>2 DEF FriendsAgree
  <1>4. QED
    BY <1>3, Inductive, AlwaysDebts, AlwaysMeets, PTL
=============================================================================
