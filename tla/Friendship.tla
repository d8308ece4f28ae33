----------------------------- MODULE Friendship -----------------------------
(***************************************************************************)
(* What the contact handlers of cmd/auth-service/main.go promise, without  *)
(* requests, statements and intermediate statuses: friendship takes the    *)
(* will of both, nothing ends it but a block, and a block is for good.     *)
(* Each user has an own view of the other, as in the table contacts.       *)
(* A pair may fall into dispute (requests cross, or a statement fails);    *)
(* then a block may be undone, by becoming friends and in no other way.    *)
(***************************************************************************)
CONSTANT Users

VARIABLES
    willing,   \* <<u, v>>: u has agreed to be a friend of v
    friends,   \* <<u, v>>: u sees v as a friend
    blocked,   \* <<u, v>>: u sees v as blocked
    disputed   \* {u, v}

vars == <<willing, friends, blocked, disputed>>

Init == willing = {} /\ friends = {} /\ blocked = {} /\ disputed = {}

Agree(u, v) ==
    /\ willing' = willing \cup {<<u, v>>}
    /\ disputed' \in {disputed, disputed \cup {{u, v}}}
    /\ UNCHANGED <<friends, blocked>>

Dispute(u, v) ==
    /\ disputed' = disputed \cup {{u, v}}
    /\ UNCHANGED <<willing, friends, blocked>>

Befriend(u, v) ==
    /\ {<<u, v>>, <<v, u>>} \subseteq willing
    /\ <<u, v>> \in blocked => {u, v} \in disputed
    /\ friends' = friends \cup {<<u, v>>}
    /\ blocked' = blocked \ {<<u, v>>}
    /\ UNCHANGED <<willing, disputed>>

Block(u, v) ==
    /\ blocked' = blocked \cup {<<u, v>>}
    /\ friends' = friends \ {<<u, v>>}
    /\ UNCHANGED <<willing, disputed>>

Next == \E u, v \in Users : Agree(u, v) \/ Dispute(u, v) \/ Befriend(u, v) \/ Block(u, v)

Spec == Init /\ [][Next]_vars
=============================================================================
