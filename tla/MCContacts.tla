----------------------------- MODULE MCContacts -----------------------------
(***************************************************************************)
(* Instances of Contacts for TLC: two users and the requests between them. *)
(***************************************************************************)
EXTENDS Contacts, TLC

CONSTANTS alice, bob, q1, q2, q3, q4, q5, c1, c2

\* Users, requests and conversations are each alike.
ContactsSymmetry ==
    Permutations(Users) \cup Permutations(Requests) \cup Permutations(Conversations)
=============================================================================
