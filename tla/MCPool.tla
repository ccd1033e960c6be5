-------------------------------- MODULE MCPool --------------------------------
(***************************************************************************)
(* Small pools for TLC.  Notes a and b are two leaves of one nullifier     *)
(* (same nk, different r); c and k have different nullifiers whose 64-bit  *)
(* keys collide.                                                           *)
(***************************************************************************)
EXTENDS Pool, TLC

CONSTANTS a, b, c, k

MCLeaf == {a, b, c, k}
MCNote == {a, b, c, k}
MCNfOf == (a :> 1) @@ (b :> 1) @@ (c :> 2) @@ (k :> 3)
MCKeyOf == (1 :> 11) @@ (2 :> 12) @@ (3 :> 12)
MCNullifier == {1, 2, 3}
MCKey == {11, 12}
=============================================================================
