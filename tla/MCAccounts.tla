----------------------------- MODULE MCAccounts -----------------------------
(***************************************************************************)
(* Instances of Accounts for TLC: one address, two names, two accounts.    *)
(***************************************************************************)
EXTENDS Accounts, TLC

CONSTANTS mail, u1, u2, ann, ben, q1, q2, q3

\* Ids, names and requests are each alike.
AccountsSymmetry == Permutations(Ids) \cup Permutations(Names) \cup Permutations(Requests)
=============================================================================
