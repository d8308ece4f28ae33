------------------------------ MODULE MCMarks -------------------------------
(***************************************************************************)
(* Instances of Marks for TLC.                                             *)
(***************************************************************************)
EXTENDS Marks, TLC

CONSTANTS m1, m2, alice, bob, like, hi, bye, q1, q2, q3

\* Users, messages, texts and requests are each alike.
MarksSymmetry ==
    Permutations(Users) \cup Permutations(Messages) \cup Permutations(Texts)
        \cup Permutations(Requests)
=============================================================================
