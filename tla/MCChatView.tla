----------------------------- MODULE MCChatView -----------------------------
(***************************************************************************)
(* An instance of ChatView for TLC.                                        *)
(***************************************************************************)
EXTENDS ChatView, TLC

CONSTANTS f1, f2, s1

\* Fetches are alike.
ChatViewSymmetry == Permutations(Fetches)
=============================================================================
