-------------------------------- MODULE MCNode --------------------------------
(***************************************************************************)
(* A note, its nullifier and its key have one name.                        *)
(***************************************************************************)
EXTENDS Node, TLC

CONSTANTS alice, bob

\* Two wallets with a note each, interchangeable.
MCClient == {alice, bob}
MCSame == [n \in MCClient |-> n]
MCSymmetry == Permutations(MCClient)

\* A wallet with two notes.
MCLoner == [n \in MCClient |-> alice]
=============================================================================
