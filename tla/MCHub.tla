------------------------------- MODULE MCHub -------------------------------
(***************************************************************************)
(* Instances of Hub for TLC.  As in a deployment no access token carries a *)
(* device id, so a user's connections share the slot "unknown-<user>".     *)
(***************************************************************************)
EXTENDS Hub, TLC

CONSTANTS c1, c2, g1, g2, alice, bob, d_alice, d_bob

MCUnknownDevice == (alice :> d_alice) @@ (bob :> d_bob)

MCUnknownDeviceAlice == (alice :> d_alice)

\* No connection and no chat is special, nor is a user together with his device.
HubSymmetry ==
    Permutations({c1, c2}) \cup Permutations({g1, g2})
        \cup {(alice :> bob) @@ (bob :> alice) @@ (d_alice :> d_bob) @@ (d_bob :> d_alice)}
=============================================================================
