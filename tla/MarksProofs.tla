----------------------------- MODULE MarksProofs -----------------------------
(***************************************************************************)
(* Proofs about Marks, for any users, messages, emojis, texts and          *)
(* requests, in any interleaving, with any failed call and any late read.  *)
(***************************************************************************)
EXTENDS Marks, TLAPS

Labels == {"idle", "done", "add", "remove", "list", "broadcast", "delete", "index"}

Formed ==
    /\ pc \in [Requests -> Labels]
    /\ DOMAIN who = Requests
    /\ DOMAIN on = Requests
    /\ DOMAIN copy = Requests

\* What a request holds, by the call it makes next.
Holds(q) ==
    /\ pc[q] \in {"idle", "done"}  => on[q] = Nothing /\ who[q] = Nothing /\ copy[q] = Nothing
    /\ pc[q] \in {"add", "remove"} => on[q] \in Messages /\ who[q] \in Users /\ copy[q] \in Emojis
    /\ pc[q] = "list"      => on[q] \in Messages /\ who[q] \in Users /\ copy[q] = Nothing
    /\ pc[q] = "broadcast" => on[q] \in Messages /\ who[q] \in Users /\ copy[q] \in Lists
    /\ pc[q] = "delete"    => on[q] \in Messages /\ who[q] \in Users /\ copy[q] \in Entries
    /\ pc[q] = "index"     => /\ on[q] \in Messages /\ copy[q] \in Texts
                              /\ text[on[q]] # Nothing
                              /\ copy[q] = text[on[q]] \/ on[q] \in edited

Tables ==
    /\ text \in [Messages -> Texts \cup {Nothing}]
    /\ indexed \in [Messages -> Texts \cup {Nothing}]
    /\ \A m \in Messages : text[m] = Nothing => indexed[m] = Nothing
    /\ gone \subseteq Messages
    /\ reactions \subseteq Messages \X Users \X Emojis
    /\ settling \subseteq Messages \X Users \X Emojis
    /\ shown \in [Messages -> Lists]
    /\ bookmarks \subseteq Entries /\ byMessage \subseteq Entries

Typed ==
    /\ Tables
    /\ Formed
    /\ \A q \in Requests : Holds(q)

LEMMA TypedIsTypeOK == Typed => TypeOK
<1> SUFFICES ASSUME Typed PROVE TypeOK
  OBVIOUS
<1>1. ASSUME NEW q \in Requests
      PROVE CASE pc[q] \in {"idle", "done"}  -> on[q] = Nothing /\ who[q] = Nothing /\ copy[q] = Nothing
              [] pc[q] \in {"add", "remove"} -> on[q] \in Messages /\ who[q] \in Users /\ copy[q] \in Emojis
              [] pc[q] = "list"      -> on[q] \in Messages /\ who[q] \in Users /\ copy[q] = Nothing
              [] pc[q] = "broadcast" -> on[q] \in Messages /\ who[q] \in Users /\ copy[q] \in Lists
              [] pc[q] = "delete"    -> on[q] \in Messages /\ who[q] \in Users /\ copy[q] \in Entries
              [] pc[q] = "index"     -> on[q] \in Messages /\ (copy[q] = text[on[q]] \/ on[q] \in edited)
              [] OTHER               -> FALSE
  BY DEF Typed, Formed, Labels, Holds
<1> QED BY <1>1 DEF Typed, Tables, TypeOK

-----------------------------------------------------------------------------
(* Requests: a step moves one of them.                                     *)

Moves(q, label, u, m, c) ==
    /\ Formed'
    /\ pc'[q] = label /\ who'[q] = u /\ on'[q] = m /\ copy'[q] = c
    /\ \A r \in Requests \ {q} :
          pc'[r] = pc[r] /\ who'[r] = who[r] /\ on'[r] = on[r] /\ copy'[r] = copy[r]

LEMMA StartsMoves ==
    ASSUME Formed, NEW q \in Requests, NEW label \in Labels, NEW u, NEW m, NEW c,
           Starts(q, label, u, m, c)
    PROVE  pc[q] = "idle" /\ Moves(q, label, u, m, c)
BY DEF Starts, Moves, Formed

LEMMA GotoMoves ==
    ASSUME Formed, NEW q \in Requests, NEW label \in Labels, NEW c, Goto(q, label, c)
    PROVE  Moves(q, label, who[q], on[q], c)
BY DEF Goto, Moves, Formed

LEMMA EndsMoves ==
    ASSUME Formed, NEW q \in Requests, Ends(q)
    PROVE  Moves(q, "done", Nothing, Nothing, Nothing)
BY DEF Ends, Moves, Formed, Labels

LEMMA AtOnceMoves ==
    ASSUME Typed, NEW q \in Requests, AtOnce(q)
    PROVE  pc[q] = "idle" /\ Moves(q, "done", Nothing, Nothing, Nothing)
BY DEF AtOnce, Moves, Formed, Labels, Typed, Holds

LEMMA ReadsAreLists ==
    ASSUME NEW m, NEW seen \in MayRead(m) \cup {{}}
    PROVE  seen \in Lists
BY DEF MayRead, Lists

\* The other requests hold what they held; a message loses no text and gains no right to
\* keep an old one.
LEMMA OthersHold ==
    ASSUME Typed, NEW q \in Requests, NEW label, NEW u, NEW m, NEW c, Moves(q, label, u, m, c),
           \A n \in Messages : text[n] # Nothing =>
               text'[n] # Nothing /\ (text'[n] = text[n] \/ n \in edited'),
           edited \subseteq edited',
           Holds(q)'
    PROVE  \A r \in Requests : Holds(r)'
<1>1. ASSUME NEW r \in Requests \ {q} PROVE Holds(r)'
  <2>1. Holds(r)
    BY DEF Typed
  <2>2. pc'[r] = pc[r] /\ who'[r] = who[r] /\ on'[r] = on[r] /\ copy'[r] = copy[r]
    BY DEF Moves
  <2> QED BY <2>1, <2>2 DEF Holds
<1> QED BY <1>1

LEMMA TypedStart ==
    ASSUME Typed, NEW q \in Requests, Start(q)
    PROVE  Typed'
<1> USE DEF messages, reacting, marking
<1>1. ASSUME NEW m \in Messages, NEW u \in Users, NEW e \in Emojis, StartReact(q, u, m, e)
      PROVE  Typed'
  <2>1. PICK label \in {"add", "remove"} : Starts(q, label, u, m, e)
    BY <1>1 DEF StartReact
  <2>2. Moves(q, label, u, m, e)
    BY <2>1, StartsMoves DEF Typed, Labels
  <2>3. UNCHANGED <<messages, reactions, settling, shown, toggled, marking>>
    BY <1>1 DEF StartReact
  <2>4. Holds(q)'
    BY <2>1, <2>2 DEF Moves, Holds
  <2> QED BY <2>2, <2>3, <2>4, OthersHold DEF Typed, Tables, Moves
<1>2. ASSUME NEW m \in Messages, NEW u \in Users, AddBookmark(q, u, m)
      PROVE  Typed'
  <2>1. Moves(q, "done", Nothing, Nothing, Nothing)
    BY <1>2, AtOnceMoves DEF AddBookmark
  <2>2. UNCHANGED <<messages, reacting, byMessage>> /\ bookmarks' \subseteq Entries
    BY <1>2 DEF AddBookmark, BookmarkMessage, Typed, Tables, Entries
  <2>3. Holds(q)'
    BY <2>1 DEF Moves, Holds
  <2> QED BY <2>1, <2>2, <2>3, OthersHold DEF Typed, Tables, Moves
<1>3. ASSUME NEW m \in Messages, NEW u \in Users, FindBookmark(q, u, m)
      PROVE  Typed'
  <2>1. UNCHANGED <<messages, reacting, bookmarks, byMessage>>
    BY <1>3 DEF FindBookmark
  <2>2. CASE AtOnce(q)
    <3>1. Moves(q, "done", Nothing, Nothing, Nothing)
      BY <2>2, AtOnceMoves
    <3>2. Holds(q)'
      BY <3>1 DEF Moves, Holds
    <3> QED BY <2>1, <3>1, <3>2, OthersHold DEF Typed, Tables, Moves
  <2>3. ASSUME NEW b \in byMessage, Starts(q, "delete", u, m, b)
        PROVE  Typed'
    <3>1. Moves(q, "delete", u, m, b)
      BY <2>3, StartsMoves DEF Typed, Labels
    <3>2. b \in Entries
      BY DEF Typed, Tables
    <3>3. Holds(q)'
      BY <3>1, <3>2 DEF Moves, Holds
    <3> QED BY <2>1, <3>1, <3>3, OthersHold DEF Typed, Tables, Moves
  <2> QED BY <1>3, <2>2, <2>3 DEF FindBookmark
<1>4. ASSUME NEW m \in Messages, NEW t \in Texts, SendMessage(q, m, t)
      PROVE  Typed'
  <2>1. /\ text[m] = Nothing
        /\ text' = [text EXCEPT ![m] = t]
        /\ Starts(q, "index", Nothing, m, t)
        /\ UNCHANGED <<gone, indexed, unindexed, edited, reacting, marking>>
    BY <1>4 DEF SendMessage
  <2>2. Moves(q, "index", Nothing, m, t)
    BY <2>1, StartsMoves DEF Typed, Labels
  <2>3. /\ text' \in [Messages -> Texts \cup {Nothing}]
        /\ text'[m] = t /\ t # Nothing
        /\ \A n \in Messages : n # m => text'[n] = text[n]
    BY <2>1, MarksAssumption DEF Typed, Tables
  <2>4. Holds(q)'
    BY <2>2, <2>3 DEF Moves, Holds
  <2>5. \A r \in Requests : Holds(r)'
    BY <2>1, <2>2, <2>3, <2>4, OthersHold
  <2> QED BY <2>1, <2>2, <2>3, <2>5 DEF Typed, Tables, Moves
<1>5. ASSUME NEW m \in Messages, NEW t \in Texts, ForwardMessage(q, m, t) \/ EditMessage(q, m, t)
      PROVE  Typed'
  <2>1. /\ text' = [text EXCEPT ![m] = t]
        /\ AtOnce(q)
        /\ UNCHANGED <<gone, indexed, reacting, marking>>
        /\ edited \subseteq edited'
        /\ text[m] = Nothing \/ m \in edited'
    BY <1>5 DEF ForwardMessage, EditMessage
  <2>2. Moves(q, "done", Nothing, Nothing, Nothing)
    BY <2>1, AtOnceMoves
  <2>3. /\ text' \in [Messages -> Texts \cup {Nothing}]
        /\ text'[m] = t /\ t # Nothing
        /\ \A n \in Messages : n # m => text'[n] = text[n]
    BY <2>1, MarksAssumption DEF Typed, Tables
  <2>4. Holds(q)'
    BY <2>2 DEF Moves, Holds
  <2>5. \A r \in Requests : Holds(r)'
    BY <2>1, <2>2, <2>3, <2>4, OthersHold
  <2> QED BY <2>1, <2>2, <2>3, <2>5 DEF Typed, Tables, Moves
<1> QED BY <1>1, <1>2, <1>3, <1>4, <1>5 DEF Start

LEMMA TypedStep ==
    ASSUME Typed, NEW q \in Requests, Step(q)
    PROVE  Typed'
<1> USE DEF messages, reacting, marking
<1>0. Holds(q) /\ Formed
  BY DEF Typed
<1>1. CASE ToggleReaction(q)
  <2>1. Moves(q, "list", who[q], on[q], Nothing)
    BY <1>0, <1>1, GotoMoves DEF ToggleReaction, Labels
  <2>2. on[q] \in Messages /\ who[q] \in Users /\ copy[q] \in Emojis
    BY <1>0, <1>1 DEF ToggleReaction, Holds
  <2>3. /\ UNCHANGED <<messages, shown, overlapped, marking>>
        /\ reactions' \subseteq reactions \cup {<<on[q], who[q], copy[q]>>}
        /\ settling' \subseteq settling \cup {<<on[q], who[q], copy[q]>>}
    BY <1>1 DEF ToggleReaction, AddReaction, RemoveReaction
  <2>4. Holds(q)'
    BY <2>1, <2>2 DEF Moves, Holds
  <2>5. \A r \in Requests : Holds(r)'
    BY <2>1, <2>3, <2>4, OthersHold
  <2> QED BY <2>1, <2>2, <2>3, <2>5 DEF Typed, Tables, Moves
<1>2. CASE ListReactions(q)
  <2>1. PICK seen \in MayRead(on[q]) \cup {{}} : Goto(q, "broadcast", seen)
    BY <1>2 DEF ListReactions
  <2>2. Moves(q, "broadcast", who[q], on[q], seen) /\ seen \in Lists
    BY <1>0, <2>1, GotoMoves, ReadsAreLists DEF Labels
  <2>3. on[q] \in Messages /\ who[q] \in Users
    BY <1>0, <1>2 DEF ListReactions, Holds
  <2>4. UNCHANGED <<messages, reactions, settling, shown, overlapped, toggled, marking>>
    BY <1>2 DEF ListReactions
  <2>5. Holds(q)'
    BY <2>2, <2>3 DEF Moves, Holds
  <2>6. \A r \in Requests : Holds(r)'
    BY <2>2, <2>4, <2>5, OthersHold
  <2> QED BY <2>2, <2>4, <2>6 DEF Typed, Tables, Moves
<1>3. CASE BroadcastReactions(q)
  <2>1. Moves(q, "done", Nothing, Nothing, Nothing)
    BY <1>0, <1>3, EndsMoves DEF BroadcastReactions
  <2>2. on[q] \in Messages /\ copy[q] \in Lists
    BY <1>0, <1>3 DEF BroadcastReactions, Holds
  <2>3. /\ UNCHANGED <<messages, reactions, settling, overlapped, toggled, marking>>
        /\ shown' = shown \/ shown' = [shown EXCEPT ![on[q]] = copy[q]]
    BY <1>3 DEF BroadcastReactions
  <2>4. shown' \in [Messages -> Lists]
    BY <2>2, <2>3 DEF Typed, Tables
  <2>5. Holds(q)'
    BY <2>1 DEF Moves, Holds
  <2>6. \A r \in Requests : Holds(r)'
    BY <2>1, <2>3, <2>5, OthersHold
  <2> QED BY <2>1, <2>3, <2>4, <2>6 DEF Typed, Tables, Moves
<1>4. CASE DeleteBookmark(q)
  <2>1. Moves(q, "done", Nothing, Nothing, Nothing)
    BY <1>0, <1>4, EndsMoves DEF DeleteBookmark
  <2>2. /\ UNCHANGED <<messages, reacting, byMessage, wanted>>
        /\ bookmarks' \subseteq bookmarks
    BY <1>4 DEF DeleteBookmark
  <2>3. Holds(q)'
    BY <2>1 DEF Moves, Holds
  <2>4. \A r \in Requests : Holds(r)'
    BY <2>1, <2>2, <2>3, OthersHold
  <2> QED BY <2>1, <2>2, <2>4 DEF Typed, Tables, Moves
<1>5. CASE IndexMessage(q)
  <2>1. Moves(q, "done", Nothing, Nothing, Nothing)
    BY <1>0, <1>5, EndsMoves DEF IndexMessage
  <2>2. on[q] \in Messages /\ copy[q] \in Texts /\ text[on[q]] # Nothing
    BY <1>0, <1>5 DEF IndexMessage, Holds
  <2>3. /\ UNCHANGED <<text, gone, edited, reacting, marking>>
        /\ indexed' = indexed \/ indexed' = [indexed EXCEPT ![on[q]] = copy[q]]
    BY <1>5 DEF IndexMessage
  <2>4. /\ indexed' \in [Messages -> Texts \cup {Nothing}]
        /\ \A m \in Messages : text'[m] = Nothing => indexed'[m] = Nothing
    BY <2>2, <2>3 DEF Typed, Tables
  <2>5. Holds(q)'
    BY <2>1 DEF Moves, Holds
  <2>6. \A r \in Requests : Holds(r)'
    BY <2>1, <2>3, <2>5, OthersHold
  <2> QED BY <2>1, <2>3, <2>4, <2>6 DEF Typed, Tables, Moves
<1> QED BY <1>1, <1>2, <1>3, <1>4, <1>5 DEF Step

LEMMA TypedInit == Init => Typed
BY MarksAssumption DEF Init, Typed, Tables, Formed, Labels, Holds, Lists

LEMMA TypedNext == Typed /\ [Next]_vars => Typed'
<1> SUFFICES ASSUME Typed, [Next]_vars PROVE Typed'
  OBVIOUS
<1>1. ASSUME UNCHANGED <<text, indexed, edited, request>>, gone' \subseteq Messages,
             UNCHANGED <<reactions, shown, bookmarks>>, settling' \subseteq settling,
             byMessage' \subseteq Entries
      PROVE  Typed'
  <2>1. Formed'
    BY <1>1 DEF Typed, Formed, request
  <2>2. \A q \in Requests : Holds(q)'
    BY <1>1 DEF Typed, Holds, request
  <2> QED BY <1>1, <2>1, <2>2 DEF Typed, Tables
<1>2. ASSUME NEW m \in Messages, DeleteMessage(m)
      PROVE  Typed'
  BY <1>1, <1>2 DEF DeleteMessage, reacting, marking, Typed, Tables
<1>3. ASSUME NEW mark \in Messages \X Users \X Emojis, ReactionSettles(mark)
      PROVE  Typed'
  BY <1>1, <1>3 DEF ReactionSettles, messages, marking, Typed, Tables
<1>4. ASSUME NEW b \in Entries, IndexCatchesUp(b)
      PROVE  Typed'
  BY <1>1, <1>4 DEF IndexCatchesUp, messages, reacting, Typed, Tables
<1>5. CASE UNCHANGED vars
  BY <1>1, <1>5 DEF vars, request, Typed, Tables
<1> QED BY <1>2, <1>3, <1>4, <1>5, TypedStart, TypedStep DEF Next

LEMMA TypedHolds == Spec => []Typed
BY TypedInit, TypedNext, PTL DEF Spec

\* Tables and requests keep their types, in any interleaving.
THEOREM TypeCorrect == Spec => []TypeOK
BY TypedHolds, TypedIsTypeOK, PTL

-----------------------------------------------------------------------------
(* Reactions.  Where nothing is excused, one request at a time is at work  *)
(* on a message, and what it has read is what is there.                    *)

Unexcused == Messages \ (overlapped \cup doubtful)

MarkAgrees(m) == \A u \in Users, e \in Emojis : <<m, u, e>> \in reactions <=> <<m, u, e>> \in toggled

ReadsRight(q, m) ==
    /\ pc[q] = "add"       => <<m, who[q], copy[q]>> \notin reactions
    /\ pc[q] = "remove"    => <<m, who[q], copy[q]>> \in reactions
    /\ pc[q] = "broadcast" => copy[q] = ReactionsTo(m)

Reacts(m) ==
    /\ MarkAgrees(m)
    /\ \A q, r \in Doing(Reacting, m) : q = r
    /\ \A q \in Doing(Reacting, m) : ReadsRight(q, m)
    /\ Doing(Reacting, m) = {} => shown[m] = ReactionsTo(m)

ReactInv == \A m \in Unexcused : Reacts(m)

\* A step of a request that has nothing to do with the reactions to m.
LEMMA ReactsKept ==
    ASSUME NEW m, Reacts(m), UNCHANGED <<reactions, toggled>>, shown'[m] = shown[m],
           \A r \in Requests : \/ /\ pc'[r] = pc[r] /\ who'[r] = who[r]
                                  /\ on'[r] = on[r] /\ copy'[r] = copy[r]
                               \/ r \notin Doing(Reacting, m) /\ r \notin Doing(Reacting, m)'
    PROVE  Reacts(m)'
<1>1. Doing(Reacting, m)' = Doing(Reacting, m)
  BY DEF Doing
<1>2. \A q \in Doing(Reacting, m) : ReadsRight(q, m)'
  BY DEF Reacts, ReadsRight, Doing, ReactionsTo, Reacting
<1> QED BY <1>1, <1>2 DEF Reacts, MarkAgrees, ReactionsTo

LEMMA ReactStart ==
    ASSUME Typed, ReactInv, NEW q \in Requests, NEW m \in Messages, NEW u \in Users,
           NEW e \in Emojis, StartReact(q, u, m, e)
    PROVE  ReactInv'
<1>1. PICK seen \in MayRead(m) \cup {{}} :
        /\ Starts(q, IF <<u, e>> \in seen THEN "remove" ELSE "add", u, m, e)
        /\ doubtful' = IF seen = ReactionsTo(m) THEN doubtful ELSE doubtful \cup {m}
  BY DEF StartReact
<1> DEFINE label == IF <<u, e>> \in seen THEN "remove" ELSE "add"
<1>2. label \in Labels /\ label \in {"add", "remove"}
  BY DEF Labels
<1>3. pc[q] = "idle" /\ Moves(q, label, u, m, e)
  BY <1>1, <1>2, StartsMoves DEF Typed
<1>4. /\ overlapped' = IF Doing(Reacting, m) = {} THEN overlapped ELSE overlapped \cup {m}
      /\ UNCHANGED <<reactions, shown, toggled>>
  BY DEF StartReact
<1>5. ASSUME NEW n \in Messages, n \in Unexcused', n # m
      PROVE  Reacts(n)'
  <2>1. n \in Unexcused
    BY <1>1, <1>4, <1>5 DEF Unexcused
  <2>2. q \notin Doing(Reacting, n) /\ q \notin Doing(Reacting, n)'
    BY <1>3, <1>5 DEF Doing, Reacting, Moves
  <2> QED BY <1>3, <1>4, <2>1, <2>2, ReactsKept DEF ReactInv, Moves
<1>6. ASSUME m \in Unexcused'
      PROVE  Reacts(m)'
  <2>1. m \in Unexcused /\ Doing(Reacting, m) = {} /\ seen = ReactionsTo(m)
    BY <1>1, <1>4, <1>6 DEF Unexcused
  <2>2. Reacts(m)
    BY <2>1 DEF ReactInv
  <2>3. Doing(Reacting, m)' = {q}
    BY <1>2, <1>3, <2>1 DEF Doing, Moves, Reacting
  <2>4. <<u, e>> \in ReactionsTo(m) <=> <<m, u, e>> \in reactions
    BY DEF ReactionsTo
  <2>5. pc'[q] = label /\ who'[q] = u /\ copy'[q] = e
    BY <1>3 DEF Moves
  <2>6. ReadsRight(q, m)'
    BY <1>2, <1>4, <2>1, <2>4, <2>5 DEF ReadsRight
  <2>7. MarkAgrees(m)'
    BY <1>4, <2>2 DEF Reacts, MarkAgrees
  <2> QED BY <2>3, <2>6, <2>7 DEF Reacts
<1> QED BY <1>5, <1>6 DEF ReactInv, Unexcused

LEMMA ReactStep ==
    ASSUME Typed, ReactInv, NEW q \in Requests,
           ToggleReaction(q) \/ ListReactions(q) \/ BroadcastReactions(q)
    PROVE  ReactInv'
<1>a. on[q] \in Messages
  BY DEF Typed, Holds, ToggleReaction, ListReactions, BroadcastReactions
<1>b. PICK m \in Messages : m = on[q]
  BY <1>a
<1> DEFINE mark == <<m, who[q], copy[q]>>
<1>0. /\ Holds(q) /\ Formed
      /\ m = on[q] /\ who[q] \in Users
      /\ pc[q] \in Reacting
      /\ UNCHANGED overlapped /\ doubtful \subseteq doubtful'
      /\ doubtful' \subseteq doubtful \cup {m}
  BY <1>b DEF Typed, Holds, ToggleReaction, ListReactions, BroadcastReactions, Reacting
<1>1. q \in Doing(Reacting, m)
  BY <1>0 DEF Doing
<1>2. \A n \in Messages \ {m} : n \in Unexcused' => n \in Unexcused
  BY <1>0 DEF Unexcused
<1>3. m \in Unexcused' => m \in Unexcused /\ Reacts(m) /\ ReadsRight(q, m)
  BY <1>0, <1>1 DEF Unexcused, ReactInv, Reacts
<1>4. CASE ToggleReaction(q)
  <2>1. Moves(q, "list", who[q], m, Nothing)
    BY <1>0, <1>4, GotoMoves DEF ToggleReaction, Labels
  <2>2. copy[q] \in Emojis /\ pc[q] \in {"add", "remove"}
    BY <1>0, <1>4 DEF ToggleReaction, Holds
  <2>3. /\ shown' = shown
        /\ toggled' = (toggled \cup {mark}) \ (toggled \cap {mark})
        /\ \/ reactions' = IF pc[q] = "add" THEN reactions \cup {mark} ELSE reactions \ {mark}
           \/ reactions' = reactions /\ m \in doubtful'
    BY <1>0, <1>4 DEF ToggleReaction, AddReaction, RemoveReaction
  <2>4. ASSUME NEW n \in Messages, n \in Unexcused', n # m
        PROVE  Reacts(n)'
    <3>1. Reacts(n)
      BY <1>2, <2>4 DEF ReactInv
    <3>2. \A u, e : /\ <<n, u, e>> \in reactions' <=> <<n, u, e>> \in reactions
                    /\ <<n, u, e>> \in toggled' <=> <<n, u, e>> \in toggled
      BY <2>3, <2>4
    <3>3. ReactionsTo(n)' = ReactionsTo(n)
      BY <3>2 DEF ReactionsTo
    <3>4. Doing(Reacting, n)' = Doing(Reacting, n) /\ q \notin Doing(Reacting, n)
      BY <1>b, <2>1, <2>4 DEF Doing, Moves
    <3>5. \A r \in Doing(Reacting, n) : ReadsRight(r, n)'
      BY <2>1, <3>1, <3>2, <3>3, <3>4 DEF Reacts, ReadsRight, Doing, Moves
    <3>6. MarkAgrees(n)'
      BY <3>1, <3>2 DEF Reacts, MarkAgrees
    <3> QED BY <2>3, <3>1, <3>3, <3>4, <3>5, <3>6 DEF Reacts
  <2>5. ASSUME m \in Unexcused'
        PROVE  Reacts(m)'
    <3>1. Doing(Reacting, m)' = Doing(Reacting, m)
      BY <1>0, <2>1 DEF Doing, Moves, Reacting
    <3>2. Doing(Reacting, m) = {q}
      BY <1>1, <1>3, <2>5 DEF Reacts
    <3>3. ReadsRight(q, m)'
      BY <2>1 DEF ReadsRight, Moves
    <3>4. /\ MarkAgrees(m)
          /\ pc[q] = "add" => mark \notin reactions
          /\ pc[q] = "remove" => mark \in reactions
      BY <1>3, <2>5 DEF Reacts, ReadsRight
    <3>5. reactions' = IF pc[q] = "add" THEN reactions \cup {mark} ELSE reactions \ {mark}
      BY <2>3, <2>5 DEF Unexcused
    <3>6. mark \in reactions <=> mark \in toggled
      BY <1>0, <2>2, <3>4 DEF MarkAgrees
    <3>7. MarkAgrees(m)'
      BY <2>2, <2>3, <3>4, <3>5, <3>6 DEF MarkAgrees
    <3> QED BY <3>1, <3>2, <3>3, <3>7 DEF Reacts
  <2> QED BY <2>4, <2>5 DEF ReactInv, Unexcused
<1>5. CASE ListReactions(q)
  <2>1. PICK seen \in MayRead(m) \cup {{}} :
          /\ Goto(q, "broadcast", seen)
          /\ doubtful' = IF seen = ReactionsTo(m) THEN doubtful ELSE doubtful \cup {m}
    BY <1>0, <1>5 DEF ListReactions
  <2>2. Moves(q, "broadcast", who[q], m, seen)
    BY <1>0, <2>1, GotoMoves DEF Labels
  <2>3. UNCHANGED <<reactions, toggled, shown>>
    BY <1>5 DEF ListReactions
  <2>4. ASSUME NEW n \in Messages, n \in Unexcused', n # m
        PROVE  Reacts(n)'
    <3>1. q \notin Doing(Reacting, n) /\ q \notin Doing(Reacting, n)'
      BY <1>b, <2>2, <2>4 DEF Doing, Moves
    <3> QED BY <1>2, <2>2, <2>3, <2>4, <3>1, ReactsKept DEF ReactInv, Moves
  <2>5. ASSUME m \in Unexcused'
        PROVE  Reacts(m)'
    <3>1. Doing(Reacting, m)' = Doing(Reacting, m)
      BY <1>0, <2>2 DEF Doing, Moves, Reacting
    <3>2. Doing(Reacting, m) = {q}
      BY <1>1, <1>3, <2>5 DEF Reacts
    <3>3. seen = ReactionsTo(m) /\ ReactionsTo(m)' = ReactionsTo(m)
      BY <2>1, <2>3, <2>5 DEF Unexcused, ReactionsTo
    <3>4. ReadsRight(q, m)'
      BY <2>2, <3>3 DEF ReadsRight, Moves
    <3> QED BY <1>3, <2>3, <2>5, <3>1, <3>2, <3>4 DEF Reacts, MarkAgrees
  <2> QED BY <2>4, <2>5 DEF ReactInv, Unexcused
<1>6. CASE BroadcastReactions(q)
  <2>1. Moves(q, "done", Nothing, Nothing, Nothing) /\ pc[q] = "broadcast"
    BY <1>0, <1>6, EndsMoves DEF BroadcastReactions
  <2>2. /\ UNCHANGED <<reactions, toggled>>
        /\ \/ shown' = [shown EXCEPT ![m] = copy[q]]
           \/ shown' = shown /\ m \in doubtful'
    BY <1>0, <1>6 DEF BroadcastReactions
  <2>3. /\ \A n \in Messages \ {m} : shown'[n] = shown[n]
        /\ m \in doubtful' \/ shown'[m] = copy[q]
    BY <1>0, <2>2 DEF Typed, Tables
  <2>4. ASSUME NEW n \in Messages, n \in Unexcused', n # m
        PROVE  Reacts(n)'
    <3>1. q \notin Doing(Reacting, n) /\ q \notin Doing(Reacting, n)'
      BY <1>b, <2>1, <2>4 DEF Doing, Moves, Reacting
    <3> QED BY <1>2, <2>1, <2>2, <2>3, <2>4, <3>1, ReactsKept DEF ReactInv, Moves
  <2>5. ASSUME m \in Unexcused'
        PROVE  Reacts(m)'
    <3>1. Doing(Reacting, m)' = {}
      BY <1>1, <1>3, <2>1, <2>5 DEF Doing, Moves, Reacting, Reacts
    <3>2. shown'[m] = ReactionsTo(m)
      BY <1>3, <2>1, <2>3, <2>5 DEF Unexcused, ReadsRight
    <3>3. ReactionsTo(m)' = ReactionsTo(m)
      BY <2>2 DEF ReactionsTo
    <3> QED BY <1>3, <2>2, <2>5, <3>1, <3>2, <3>3 DEF Reacts, MarkAgrees
  <2> QED BY <2>4, <2>5 DEF ReactInv, Unexcused
<1> QED BY <1>4, <1>5, <1>6

LEMMA ReactNext ==
    ASSUME Typed, ReactInv, [Next]_vars
    PROVE  ReactInv'
<1> USE DEF messages, reacting, marking
<1>1. ASSUME NEW q \in Requests,
             UNCHANGED <<reactions, toggled, shown, overlapped, doubtful>>,
             pc[q] \notin Reacting, pc'[q] \notin Reacting,
             \A r \in Requests \ {q} : /\ pc'[r] = pc[r] /\ who'[r] = who[r]
                                       /\ on'[r] = on[r] /\ copy'[r] = copy[r]
      PROVE  ReactInv'
  <2>1. ASSUME NEW m \in Unexcused PROVE Reacts(m)'
    <3>1. q \notin Doing(Reacting, m) /\ q \notin Doing(Reacting, m)'
      BY <1>1 DEF Doing
    <3> QED BY <1>1, <3>1, ReactsKept DEF ReactInv
  <2> QED BY <1>1, <2>1 DEF ReactInv, Unexcused
<1>2. ASSUME NEW q \in Requests, NEW m \in Messages, NEW u \in Users, AddBookmark(q, u, m)
      PROVE  ReactInv'
  <2>1. pc[q] = "idle" /\ Moves(q, "done", Nothing, Nothing, Nothing)
    BY <1>2, AtOnceMoves DEF AddBookmark
  <2> QED BY <1>1, <1>2, <2>1 DEF AddBookmark, Moves, Reacting
<1>3. ASSUME NEW q \in Requests, NEW m \in Messages, NEW u \in Users, FindBookmark(q, u, m)
      PROVE  ReactInv'
  <2>1. /\ pc[q] = "idle"
        /\ \/ Moves(q, "done", Nothing, Nothing, Nothing)
           \/ \E b \in byMessage : Moves(q, "delete", u, m, b)
    BY <1>3, AtOnceMoves, StartsMoves DEF FindBookmark, Typed, Labels
  <2> QED BY <1>1, <1>3, <2>1 DEF FindBookmark, Moves, Reacting
<1>4. ASSUME NEW q \in Requests, NEW m \in Messages, NEW t \in Texts,
             SendMessage(q, m, t) \/ ForwardMessage(q, m, t) \/ EditMessage(q, m, t)
      PROVE  ReactInv'
  <2>1. /\ pc[q] = "idle"
        /\ \/ Moves(q, "done", Nothing, Nothing, Nothing)
           \/ Moves(q, "index", Nothing, m, t)
    BY <1>4, AtOnceMoves, StartsMoves
       DEF SendMessage, ForwardMessage, EditMessage, Typed, Labels
  <2>2. UNCHANGED <<reactions, toggled, shown, overlapped, doubtful>>
    BY <1>4 DEF SendMessage, ForwardMessage, EditMessage
  <2> QED BY <1>1, <2>1, <2>2 DEF Moves, Reacting
<1>5. ASSUME NEW q \in Requests, Start(q)
      PROVE  ReactInv'
  BY <1>2, <1>3, <1>4, <1>5, ReactStart DEF Start
<1>6. ASSUME NEW q \in Requests, DeleteBookmark(q) \/ IndexMessage(q)
      PROVE  ReactInv'
  <2>1. pc[q] \in {"delete", "index"} /\ Moves(q, "done", Nothing, Nothing, Nothing)
    BY <1>6, EndsMoves DEF DeleteBookmark, IndexMessage, Typed
  <2>2. UNCHANGED <<reactions, toggled, shown, overlapped, doubtful>>
    BY <1>6 DEF DeleteBookmark, IndexMessage
  <2> QED BY <1>1, <2>1, <2>2 DEF Moves, Reacting
<1>7. ASSUME UNCHANGED <<reactions, toggled, shown, overlapped, doubtful, request>>
      PROVE  ReactInv'
  <2>1. ASSUME NEW m \in Unexcused PROVE Reacts(m)'
    BY <1>7, ReactsKept DEF ReactInv, request
  <2> QED BY <1>7, <2>1 DEF ReactInv, Unexcused
<1>8. CASE \/ \E m \in Messages : DeleteMessage(m)
           \/ \E mark \in Messages \X Users \X Emojis : ReactionSettles(mark)
           \/ \E b \in Entries : IndexCatchesUp(b)
           \/ UNCHANGED vars
  <2>1. UNCHANGED <<reactions, toggled, shown, overlapped, doubtful, request>>
    BY <1>8 DEF DeleteMessage, ReactionSettles, IndexCatchesUp, vars, request
  <2> QED BY <1>7, <2>1
<1> QED BY <1>5, <1>6, <1>8, ReactStep DEF Next, Step

LEMMA ReactInit == Init => ReactInv
BY DEF Init, ReactInv, Unexcused, Reacts, MarkAgrees, Doing, Reacting, ReactionsTo

LEMMA ReactHolds == Spec => []ReactInv
BY TypedHolds, ReactInit, ReactNext, PTL DEF Spec

\* A reaction is there when it was asked for an odd number of times, except for messages
\* with requests at the same time, a failed call or a query that came too early.
THEOREM ReactionsAsAsked == Spec => []ToggledAsAsked
<1>1. ReactInv => ToggledAsAsked
  BY DEF ReactInv, Unexcused, Reacts, MarkAgrees, ToggledAsAsked
<1> QED BY <1>1, ReactHolds, PTL

\* The list the chat saw last is the list there is, once nobody is at work on it.
THEOREM ReactionsAsShown == Spec => []ShownIsCurrent
<1>1. ReactInv => ShownIsCurrent
  BY DEF ReactInv, Unexcused, Reacts, ShownIsCurrent
<1> QED BY <1>1, ReactHolds, PTL

-----------------------------------------------------------------------------
(* Bookmarks.  An entry that a request is about to delete counts no more;  *)
(* where nothing is excused, it is an entry of that request's user.        *)

Doomed(b) == \E q \in Requests : pc[q] = "delete" /\ copy[q] = b

Kept(u, m) == {b \in bookmarks : b.user = u /\ b.message = m /\ ~Doomed(b)}

BookInv ==
    /\ \A b \in bookmarks \cup byMessage : pc[b.by] # "idle"
    /\ \A q \in Requests : pc[q] = "delete" =>
          copy[q].message = on[q] /\ pc[copy[q].by] # "idle"
    /\ \A m \in Messages \ crowded : \A u \in Users :
          <<u, m>> \in wanted <=> Kept(u, m) # {}

\* A request that was idle has brought nothing yet; the others keep what they have.
LEMMA BookOthers ==
    ASSUME Typed, NEW q \in Requests, NEW label \in Labels \ {"idle"}, NEW u, NEW m, NEW c,
           Moves(q, label, u, m, c)
    PROVE  /\ \A b \in Entries : pc[b.by] # "idle" => pc'[b.by] # "idle"
           /\ \A b \in Entries : b.by = q => pc'[b.by] # "idle"
           /\ label # "delete" /\ pc[q] # "delete" => \A b : Doomed(b)' <=> Doomed(b)
           /\ \A r \in Requests \ {q} : /\ pc'[r] = pc[r] /\ on'[r] = on[r]
                                        /\ copy'[r] = copy[r]
BY DEF Moves, Doomed, Entries

LEMMA BookFrame ==
    ASSUME Typed, BookInv, NEW q \in Requests, NEW label \in Labels \ {"idle", "delete"},
           NEW u, NEW m, NEW c, Moves(q, label, u, m, c), pc[q] # "delete",
           UNCHANGED <<bookmarks, byMessage, wanted>>, crowded \subseteq crowded'
    PROVE  BookInv'
<1>1. bookmarks \cup byMessage \subseteq Entries /\ \A r \in Requests : Holds(r)
  BY DEF Typed, Tables
<1>2. /\ \A b \in Entries : pc[b.by] # "idle" => pc'[b.by] # "idle"
      /\ \A b : Doomed(b)' <=> Doomed(b)
      /\ \A r \in Requests \ {q} : /\ pc'[r] = pc[r] /\ on'[r] = on[r] /\ copy'[r] = copy[r]
      /\ pc'[q] # "delete"
  BY BookOthers DEF Moves
<1>3. \A b \in bookmarks' \cup byMessage' : pc'[b.by] # "idle"
  BY <1>1, <1>2 DEF BookInv
<1>4. \A r \in Requests : pc'[r] = "delete" =>
          copy'[r].message = on'[r] /\ pc'[copy'[r].by] # "idle"
  BY <1>1, <1>2 DEF BookInv, Holds
<1>5. \A v \in Users, n \in Messages : Kept(v, n)' = Kept(v, n)
  BY <1>2 DEF Kept
<1> QED BY <1>3, <1>4, <1>5 DEF BookInv

LEMMA BookAdd ==
    ASSUME Typed, BookInv, NEW q \in Requests, NEW u \in Users, NEW m \in Messages,
           AddBookmark(q, u, m)
    PROVE  BookInv'
<1> DEFINE new == [user |-> u, message |-> m, by |-> q]
<1>1. pc[q] = "idle" /\ Moves(q, "done", Nothing, Nothing, Nothing)
  BY AtOnceMoves DEF AddBookmark
<1>2. /\ wanted' = wanted \cup {<<u, m>>}
      /\ byMessage' = byMessage
      /\ \/ bookmarks' = bookmarks \cup {new} /\ crowded' = crowded
         \/ bookmarks' = bookmarks /\ crowded' = crowded \cup {m}
  BY DEF AddBookmark, BookmarkMessage
<1>3. bookmarks \cup byMessage \cup {new} \subseteq Entries /\ \A r \in Requests : Holds(r)
  BY DEF Typed, Tables, Entries
<1>4. /\ \A b \in Entries : pc[b.by] # "idle" => pc'[b.by] # "idle"
      /\ pc'[q] = "done"
      /\ \A b : Doomed(b)' <=> Doomed(b)
      /\ \A r \in Requests \ {q} : /\ pc'[r] = pc[r] /\ on'[r] = on[r] /\ copy'[r] = copy[r]
  BY <1>1, BookOthers DEF Moves, Labels
<1>5. \A b \in bookmarks' \cup byMessage' : pc'[b.by] # "idle"
  BY <1>2, <1>3, <1>4 DEF BookInv
<1>6. \A r \in Requests : pc'[r] = "delete" =>
          copy'[r].message = on'[r] /\ pc'[copy'[r].by] # "idle"
  BY <1>3, <1>4 DEF BookInv, Holds
<1>7. ~Doomed(new)
  BY <1>1 DEF Doomed, BookInv
<1>8. ASSUME NEW n \in Messages, n \notin crowded', NEW v \in Users
      PROVE  <<v, n>> \in wanted' <=> Kept(v, n)' # {}
  <2>1. <<v, n>> \in wanted <=> Kept(v, n) # {}
    BY <1>2, <1>8 DEF BookInv
  <2>2. CASE v = u /\ n = m
    <3>1. bookmarks' = bookmarks \cup {new}
      BY <1>2, <1>8, <2>2
    <3>2. new \in Kept(v, n)'
      BY <1>4, <1>7, <2>2, <3>1 DEF Kept
    <3> QED BY <1>2, <2>2, <3>2
  <2>3. CASE ~(v = u /\ n = m)
    <3>1. Kept(v, n)' = Kept(v, n)
      BY <1>2, <1>4, <2>3 DEF Kept
    <3> QED BY <1>2, <2>1, <2>3, <3>1
  <2> QED BY <2>2, <2>3
<1> QED BY <1>5, <1>6, <1>8 DEF BookInv

LEMMA BookFind ==
    ASSUME Typed, BookInv, NEW q \in Requests, NEW u \in Users, NEW m \in Messages,
           FindBookmark(q, u, m)
    PROVE  BookInv'
<1>1. /\ wanted' = wanted \ {<<u, m>>}
      /\ UNCHANGED <<bookmarks, byMessage>>
      /\ crowded' = IF \E b \in bookmarks \cap byMessage : b.user = u /\ Bookmarking(m) = {b}
                    THEN crowded ELSE crowded \cup {m}
  BY DEF FindBookmark
<1>2. bookmarks \cup byMessage \subseteq Entries /\ \A r \in Requests : Holds(r)
  BY DEF Typed, Tables
<1>3. pc[q] = "idle"
  BY AtOnceMoves DEF FindBookmark, Starts
<1>4. CASE (\A b \in byMessage : b.message # m) /\ AtOnce(q)
  <2>1. Moves(q, "done", Nothing, Nothing, Nothing)
    BY <1>4, AtOnceMoves
  <2>2. m \in crowded'
    BY <1>1, <1>4 DEF Bookmarking
  <2>3. /\ \A b \in Entries : pc[b.by] # "idle" => pc'[b.by] # "idle"
        /\ \A b : Doomed(b)' <=> Doomed(b)
        /\ \A r \in Requests \ {q} : /\ pc'[r] = pc[r] /\ on'[r] = on[r] /\ copy'[r] = copy[r]
        /\ pc'[q] # "delete"
    BY <1>3, <2>1, BookOthers DEF Moves, Labels
  <2>4. \A b \in bookmarks' \cup byMessage' : pc'[b.by] # "idle"
    BY <1>1, <1>2, <2>3 DEF BookInv
  <2>5. \A r \in Requests : pc'[r] = "delete" =>
            copy'[r].message = on'[r] /\ pc'[copy'[r].by] # "idle"
    BY <1>2, <2>3 DEF BookInv, Holds
  <2>6. \A v \in Users, n \in Messages : Kept(v, n)' = Kept(v, n)
    BY <1>1, <2>3 DEF Kept
  <2>7. ASSUME NEW n \in Messages, n \notin crowded', NEW v \in Users
        PROVE  <<v, n>> \in wanted' <=> Kept(v, n)' # {}
    BY <1>1, <2>2, <2>6, <2>7 DEF BookInv
  <2> QED BY <2>4, <2>5, <2>7 DEF BookInv
<1>5. ASSUME NEW b \in byMessage, b.message = m, Starts(q, "delete", u, m, b)
      PROVE  BookInv'
  <2>1. Moves(q, "delete", u, m, b)
    BY <1>5, StartsMoves DEF Typed, Labels
  <2>2. /\ \A e \in Entries : pc[e.by] # "idle" => pc'[e.by] # "idle"
        /\ \A r \in Requests \ {q} : /\ pc'[r] = pc[r] /\ on'[r] = on[r] /\ copy'[r] = copy[r]
        /\ pc'[q] = "delete" /\ copy'[q] = b /\ on'[q] = m
    BY <2>1, BookOthers DEF Moves, Labels
  <2>3. \A e : Doomed(e)' <=> Doomed(e) \/ e = b
    BY <1>3, <2>2 DEF Doomed
  <2>4. \A e \in bookmarks' \cup byMessage' : pc'[e.by] # "idle"
    BY <1>1, <1>2, <2>2 DEF BookInv
  <2>5. \A r \in Requests : pc'[r] = "delete" =>
            copy'[r].message = on'[r] /\ pc'[copy'[r].by] # "idle"
    BY <1>2, <1>5, <2>2, <2>4 DEF BookInv, Holds
  <2>6. ASSUME NEW n \in Messages, n \notin crowded', NEW v \in Users
        PROVE  <<v, n>> \in wanted' <=> Kept(v, n)' # {}
    <3>1. <<v, n>> \in wanted <=> Kept(v, n) # {}
      BY <1>1, <2>6 DEF BookInv
    <3>2. CASE n # m
      <4>1. Kept(v, n)' = Kept(v, n)
        BY <1>1, <1>5, <2>3, <3>2 DEF Kept
      <4> QED BY <1>1, <3>1, <3>2, <4>1
    <3>3. CASE n = m
      <4>1. PICK e \in bookmarks \cap byMessage : e.user = u /\ Bookmarking(m) = {e}
        BY <1>1, <2>6, <3>3
      <4>2. e = b /\ \A x \in bookmarks : x.message = m => x = b
        BY <1>5, <4>1 DEF Bookmarking
      <4>3. Kept(v, n)' = {}
        BY <1>1, <2>3, <3>3, <4>2 DEF Kept
      <4>4. v # u => Kept(v, n) = {}
        BY <3>3, <4>1, <4>2 DEF Kept
      <4> QED BY <1>1, <3>1, <3>3, <4>3, <4>4
    <3> QED BY <3>2, <3>3
  <2> QED BY <2>4, <2>5, <2>6 DEF BookInv
<1> QED BY <1>4, <1>5 DEF FindBookmark

LEMMA BookDelete ==
    ASSUME Typed, BookInv, NEW q \in Requests, DeleteBookmark(q)
    PROVE  BookInv'
<1>1. pc[q] = "delete" /\ Moves(q, "done", Nothing, Nothing, Nothing)
  BY EndsMoves DEF DeleteBookmark, Typed
<1>2. PICK b \in Entries : b = copy[q] /\ b.message = on[q]
  BY <1>1 DEF Typed, Holds, BookInv
<1>3. /\ UNCHANGED <<byMessage, wanted>>
      /\ \/ bookmarks' = bookmarks \ {b} /\ crowded' = crowded
         \/ bookmarks' = bookmarks /\ crowded' = crowded \cup {on[q]}
  BY <1>2 DEF DeleteBookmark
<1>4. bookmarks \cup byMessage \subseteq Entries /\ \A r \in Requests : Holds(r)
  BY DEF Typed, Tables
<1>5. /\ \A e \in Entries : pc[e.by] # "idle" => pc'[e.by] # "idle"
      /\ \A r \in Requests \ {q} : /\ pc'[r] = pc[r] /\ on'[r] = on[r] /\ copy'[r] = copy[r]
      /\ pc'[q] = "done"
  BY <1>1, BookOthers DEF Moves, Labels
<1>6. \A e \in bookmarks' \cup byMessage' : pc'[e.by] # "idle"
  BY <1>3, <1>4, <1>5 DEF BookInv
<1>7. \A r \in Requests : pc'[r] = "delete" =>
          copy'[r].message = on'[r] /\ pc'[copy'[r].by] # "idle"
  BY <1>4, <1>5 DEF BookInv, Holds
<1>8. /\ Doomed(b)
      /\ \A e : e # b => (Doomed(e)' <=> Doomed(e))
  BY <1>1, <1>2, <1>5 DEF Doomed
<1>9. ASSUME NEW n \in Messages, n \notin crowded', NEW v \in Users
      PROVE  <<v, n>> \in wanted' <=> Kept(v, n)' # {}
  <2>1. <<v, n>> \in wanted <=> Kept(v, n) # {}
    BY <1>3, <1>9 DEF BookInv
  <2>2. Kept(v, n)' = Kept(v, n)
    BY <1>2, <1>3, <1>8, <1>9 DEF Kept
  <2> QED BY <1>3, <2>1, <2>2
<1> QED BY <1>6, <1>7, <1>9 DEF BookInv

LEMMA BookNext ==
    ASSUME Typed, BookInv, [Next]_vars
    PROVE  BookInv'
<1> USE DEF marking
<1>1. ASSUME NEW q \in Requests, NEW m \in Messages, NEW u \in Users, NEW e \in Emojis,
             StartReact(q, u, m, e)
      PROVE  BookInv'
  <2>1. PICK label \in {"add", "remove"} : Starts(q, label, u, m, e)
    BY <1>1 DEF StartReact
  <2>2. pc[q] = "idle" /\ Moves(q, label, u, m, e)
    BY <2>1, StartsMoves DEF Typed, Labels
  <2>3. UNCHANGED <<bookmarks, byMessage, wanted, crowded>>
    BY <1>1 DEF StartReact
  <2> QED BY <2>1, <2>2, <2>3, BookFrame DEF Labels
<1>2. ASSUME NEW q \in Requests, NEW m \in Messages, NEW t \in Texts,
             SendMessage(q, m, t) \/ ForwardMessage(q, m, t) \/ EditMessage(q, m, t)
      PROVE  BookInv'
  <2>1. /\ pc[q] = "idle"
        /\ \/ Moves(q, "done", Nothing, Nothing, Nothing)
           \/ Moves(q, "index", Nothing, m, t)
    BY <1>2, AtOnceMoves, StartsMoves
       DEF SendMessage, ForwardMessage, EditMessage, Typed, Labels
  <2>2. UNCHANGED <<bookmarks, byMessage, wanted, crowded>>
    BY <1>2 DEF SendMessage, ForwardMessage, EditMessage
  <2> QED BY <2>1, <2>2, BookFrame DEF Labels
<1>3. ASSUME NEW q \in Requests, Start(q)
      PROVE  BookInv'
  BY <1>1, <1>2, <1>3, BookAdd, BookFind DEF Start
<1>4. ASSUME NEW q \in Requests,
             \/ ToggleReaction(q) \/ ListReactions(q) \/ BroadcastReactions(q)
             \/ IndexMessage(q)
      PROVE  BookInv'
  <2>1. UNCHANGED <<bookmarks, byMessage, wanted, crowded>>
    BY <1>4 DEF ToggleReaction, ListReactions, BroadcastReactions, IndexMessage
  <2>2. pc[q] # "delete"
    BY <1>4 DEF ToggleReaction, ListReactions, BroadcastReactions, IndexMessage
  <2>3. \/ Ends(q)
        \/ Goto(q, "list", Nothing)
        \/ \E seen : Goto(q, "broadcast", seen)
    BY <1>4 DEF ToggleReaction, ListReactions, BroadcastReactions, IndexMessage
  <2>4. \E label \in {"list", "broadcast", "done"} : \E u, m, c : Moves(q, label, u, m, c)
    BY <2>3, GotoMoves, EndsMoves DEF Typed, Labels
  <2> QED BY <2>1, <2>2, <2>4, BookFrame DEF Labels
<1>5. ASSUME UNCHANGED <<bookmarks, wanted, crowded, request>>,
             byMessage' \subseteq byMessage \cup bookmarks
      PROVE  BookInv'
  BY <1>5 DEF BookInv, Kept, Doomed, request
<1>6. CASE \/ \E m \in Messages : DeleteMessage(m)
           \/ \E mark \in Messages \X Users \X Emojis : ReactionSettles(mark)
           \/ \E b \in Entries : IndexCatchesUp(b)
           \/ UNCHANGED vars
  <2>1. /\ UNCHANGED <<bookmarks, wanted, crowded, request>>
        /\ byMessage' \subseteq byMessage \cup bookmarks
    BY <1>6 DEF DeleteMessage, ReactionSettles, IndexCatchesUp, vars, request
  <2> QED BY <1>5, <2>1
<1> QED BY <1>3, <1>4, <1>6, BookDelete DEF Next, Step

LEMMA BookInit == Init => BookInv
BY DEF Init, BookInv, Kept

\* A user's list of bookmarks shows what the user last asked for.
THEOREM BookmarksAsAsked == Spec => []BookmarkedAsAsked
<1>1. Spec => []BookInv
  BY TypedHolds, BookInit, BookNext, PTL DEF Spec
<1>2. Typed /\ BookInv => BookmarkedAsAsked
  <2> SUFFICES ASSUME Typed, BookInv, NEW m \in Messages \ crowded, NEW u \in Users,
                      Doing({"delete"}, m) = {}
               PROVE  <<u, m>> \in wanted <=> m \in ListBookmarks(u)
    BY DEF BookmarkedAsAsked
  <2>1. ASSUME NEW b \in bookmarks, b.message = m PROVE ~Doomed(b)
    BY <2>1 DEF BookInv, Doomed, Doing
  <2>2. Kept(u, m) # {} <=> m \in ListBookmarks(u)
    BY <2>1 DEF Kept, ListBookmarks
  <2> QED BY <2>2 DEF BookInv
<1> QED BY <1>1, <1>2, TypedHolds, PTL

-----------------------------------------------------------------------------
(* Search.                                                                 *)

Indexed(m) ==
    /\ indexed[m] \in {Nothing, text[m]}
    /\ text[m] # Nothing => \/ indexed[m] = text[m]
                            \/ m \in unindexed
                            \/ Doing({"index"}, m) # {}

SearchInv == \A m \in Messages \ edited : Indexed(m)

LEMMA IndexKept ==
    ASSUME SearchInv, edited \subseteq edited', unindexed \subseteq unindexed',
           UNCHANGED indexed, NEW m \in Messages \ edited', text'[m] = text[m],
           \A r \in Doing({"index"}, m) : pc'[r] = pc[r] /\ on'[r] = on[r]
    PROVE  Indexed(m)'
BY DEF SearchInv, Indexed, Doing

LEMMA SearchNext ==
    ASSUME Typed, SearchInv, [Next]_vars
    PROVE  SearchInv'
<1> USE DEF messages, reacting, marking
<1>1. ASSUME NEW q \in Requests, NEW label, NEW u, NEW n, NEW c, Moves(q, label, u, n, c),
             pc[q] # "index", UNCHANGED <<text, indexed, unindexed, edited>>
      PROVE  SearchInv'
  <2>1. ASSUME NEW m \in Messages \ edited' PROVE Indexed(m)'
    BY <1>1, IndexKept DEF Moves, Doing
  <2> QED BY <2>1 DEF SearchInv
<1>2. ASSUME NEW q \in Requests, NEW m \in Messages, NEW t \in Texts, SendMessage(q, m, t)
      PROVE  SearchInv'
  <2>1. pc[q] = "idle" /\ Moves(q, "index", Nothing, m, t)
    BY <1>2, StartsMoves DEF SendMessage, Typed, Labels
  <2>2. /\ text[m] = Nothing /\ text' = [text EXCEPT ![m] = t]
        /\ UNCHANGED <<indexed, unindexed, edited>>
    BY <1>2 DEF SendMessage
  <2>3. indexed[m] = Nothing /\ \A n \in Messages \ {m} : text'[n] = text[n]
    BY <2>2 DEF Typed, Tables
  <2>4. q \in Doing({"index"}, m)'
    BY <2>1 DEF Moves, Doing
  <2>5. Indexed(m)'
    BY <2>2, <2>3, <2>4 DEF Indexed
  <2>6. ASSUME NEW n \in Messages \ edited', n # m PROVE Indexed(n)'
    BY <2>1, <2>2, <2>3, <2>6, IndexKept DEF Moves, Doing
  <2> QED BY <2>5, <2>6 DEF SearchInv
<1>3. ASSUME NEW q \in Requests, NEW m \in Messages, NEW t \in Texts,
             ForwardMessage(q, m, t) \/ EditMessage(q, m, t)
      PROVE  SearchInv'
  <2>1. pc[q] = "idle" /\ Moves(q, "done", Nothing, Nothing, Nothing)
    BY <1>3, AtOnceMoves DEF ForwardMessage, EditMessage
  <2>2. /\ text' = [text EXCEPT ![m] = t]
        /\ UNCHANGED indexed
        /\ edited \subseteq edited' /\ unindexed \subseteq unindexed'
        /\ m \in edited' \/ (text[m] = Nothing /\ m \in unindexed')
    BY <1>3 DEF ForwardMessage, EditMessage
  <2>3. /\ text[m] = Nothing => indexed[m] = Nothing
        /\ \A n \in Messages \ {m} : text'[n] = text[n]
    BY <2>2 DEF Typed, Tables
  <2>4. ASSUME m \notin edited' PROVE Indexed(m)'
    BY <2>2, <2>3, <2>4 DEF Indexed
  <2>5. ASSUME NEW n \in Messages \ edited', n # m PROVE Indexed(n)'
    BY <2>1, <2>2, <2>3, <2>5, IndexKept DEF Moves, Doing
  <2> QED BY <2>4, <2>5 DEF SearchInv
<1>4. ASSUME NEW q \in Requests, IndexMessage(q)
      PROVE  SearchInv'
  <2>1. pc[q] = "index" /\ Moves(q, "done", Nothing, Nothing, Nothing)
    BY <1>4, EndsMoves DEF IndexMessage, Typed
  <2>2. PICK m \in Messages : m = on[q] /\ (copy[q] = text[m] \/ m \in edited)
    BY <2>1 DEF Typed, Holds
  <2>3. /\ UNCHANGED <<text, edited>>
        /\ \/ indexed' = [indexed EXCEPT ![m] = copy[q]] /\ unindexed' = unindexed
           \/ indexed' = indexed /\ unindexed' = unindexed \cup {m}
    BY <1>4, <2>2 DEF IndexMessage
  <2>4. /\ \A n \in Messages \ {m} : indexed'[n] = indexed[n]
        /\ indexed'[m] = copy[q] \/ (m \in unindexed' /\ indexed'[m] = indexed[m])
    BY <2>3 DEF Typed, Tables
  <2>5. ASSUME m \notin edited PROVE Indexed(m)'
    BY <2>2, <2>3, <2>4, <2>5 DEF SearchInv, Indexed
  <2>6. ASSUME NEW n \in Messages \ edited, n # m PROVE Indexed(n)'
    <3>1. Doing({"index"}, n)' = Doing({"index"}, n)
      BY <2>1, <2>2, <2>6 DEF Moves, Doing
    <3>2. Indexed(n) /\ indexed'[n] = indexed[n] /\ text'[n] = text[n] /\ unindexed \subseteq unindexed'
      BY <2>3, <2>4, <2>6 DEF SearchInv
    <3> QED BY <3>1, <3>2 DEF Indexed
  <2> QED BY <2>3, <2>5, <2>6 DEF SearchInv
<1>5. ASSUME NEW q \in Requests, NEW m \in Messages, NEW u \in Users,
             \/ \E e \in Emojis : StartReact(q, u, m, e)
             \/ AddBookmark(q, u, m) \/ FindBookmark(q, u, m)
      PROVE  SearchInv'
  <2>1. UNCHANGED <<text, indexed, unindexed, edited>>
    BY <1>5 DEF StartReact, AddBookmark, FindBookmark
  <2>2. \/ AtOnce(q)
        \/ \E label \in {"add", "remove", "delete"} : \E c : Starts(q, label, u, m, c)
    BY <1>5 DEF StartReact, AddBookmark, FindBookmark
  <2>3. pc[q] = "idle" /\ \E label, v, n, c : Moves(q, label, v, n, c)
    BY <2>2, AtOnceMoves, StartsMoves DEF Typed, Labels
  <2> QED BY <1>1, <2>1, <2>3
<1>6. ASSUME NEW q \in Requests,
             \/ ToggleReaction(q) \/ ListReactions(q) \/ BroadcastReactions(q)
             \/ DeleteBookmark(q)
      PROVE  SearchInv'
  <2>1. UNCHANGED <<text, indexed, unindexed, edited>> /\ pc[q] # "index"
    BY <1>6 DEF ToggleReaction, ListReactions, BroadcastReactions, DeleteBookmark
  <2>2. \/ Ends(q)
        \/ Goto(q, "list", Nothing)
        \/ \E seen : Goto(q, "broadcast", seen)
    BY <1>6 DEF ToggleReaction, ListReactions, BroadcastReactions, DeleteBookmark
  <2>3. \E label, u, m, c : Moves(q, label, u, m, c)
    BY <2>2, GotoMoves, EndsMoves DEF Typed, Labels
  <2> QED BY <1>1, <2>1, <2>3
<1>7. CASE \/ \E m \in Messages : DeleteMessage(m)
           \/ \E mark \in Messages \X Users \X Emojis : ReactionSettles(mark)
           \/ \E b \in Entries : IndexCatchesUp(b)
           \/ UNCHANGED vars
  <2>1. UNCHANGED <<text, indexed, unindexed, edited, request>>
    BY <1>7 DEF DeleteMessage, ReactionSettles, IndexCatchesUp, vars, request
  <2> QED BY <2>1 DEF SearchInv, Indexed, Doing, request
<1> QED BY <1>2, <1>3, <1>4, <1>5, <1>6, <1>7 DEF Next, Start, Step

LEMMA SearchInit == Init => SearchInv
BY DEF Init, SearchInv, Indexed

\* A message that was not edited is found by its text, unless its indexing is missing; then
\* its chat still finds it, as long as no other message has the text in the index.
THEOREM MessagesAreFound == Spec => []FoundByText
<1>1. Spec => []SearchInv
  BY TypedHolds, SearchInit, SearchNext, PTL DEF Spec
<1>2. SearchInv => FoundByText
  <2> SUFFICES ASSUME SearchInv, NEW m \in Messages \ (gone \cup edited), text[m] # Nothing
               PROVE  /\ \/ m \in SearchMessagesGlobal(text[m]) \/ m \in unindexed
                         \/ Doing({"index"}, m) # {}
                      /\ \/ m \in SearchMessages(text[m])
                         \/ /\ indexed[m] = Nothing
                            /\ \E n \in Messages \ {m} : indexed[n] = text[m]
    BY DEF FoundByText
  <2>1. Indexed(m)
    BY DEF SearchInv
  <2> QED BY <2>1 DEF Indexed, SearchMessagesGlobal, SearchMessages, InNeon, InStore
<1> QED BY <1>1, <1>2, PTL
=============================================================================
