----------------------------- MODULE MCCovenant -----------------------------
(***************************************************************************)
(* A pool with batches of one leaf, two workers and two R inputs: small in *)
(* what it holds, since here the transactions are the large part.          *)
(***************************************************************************)
EXTENDS Covenant, TLC

CONSTANTS a, b

MCLeaf == {a, b}
MCNote == {a}
MCNfOf == a :> 1
MCKeyOf == 1 :> 11
MCNullifier == {1}
MCKey == {11}
=============================================================================
