----------------------------- MODULE MCMessages -----------------------------
(***************************************************************************)
(* Instances of Messages for TLC: alice sends m1, bob can forward it as m2, *)
(* and a few requests of both race.                                        *)
(***************************************************************************)
EXTENDS Messages, TLC

CONSTANTS m1, m2, r1, r2, r3, alice, bob

MCSenderOf == (m1 :> alice) @@ (m2 :> bob)
MCUserOf   == (r1 :> alice) @@ (r2 :> alice) @@ (r3 :> bob)

\* The two requests of alice are alike.
MessagesSymmetry == Permutations({r1, r2})
=============================================================================
