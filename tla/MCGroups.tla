------------------------------ MODULE MCGroups ------------------------------
(***************************************************************************)
(* Instances of Groups for TLC: a creator and two users who may be members *)
(* from the start, and requests that race.                                 *)
(***************************************************************************)
EXTENDS Groups, TLC

CONSTANTS creator, u1, u2, q1, q2, q3

\* The users but the creator are alike, and so are the requests.
GroupsSymmetry == Permutations({u1, u2}) \cup Permutations(Requests)
=============================================================================
