------------------------------- MODULE MCThread -------------------------------
(***************************************************************************)
(* Two notes of different owners, two batons, two tx0s.                    *)
(***************************************************************************)
EXTENDS Thread, TLC

CONSTANTS alice, bob, toAlice, toBob

MCLeaf == {alice, bob}
MCNfOf == (alice :> 1) @@ (bob :> 2)
MCKeyOf == (1 :> 11) @@ (2 :> 12)
MCPayTo == (alice :> toAlice) @@ (bob :> toBob)
=============================================================================
