----------------------------- MODULE MCFrontier -----------------------------
(***************************************************************************)
(* Trees of depth 5 in batches of 4, one path level for each of workers 2, *)
(* 3 and 4, filled to the last leaf.  The batches: three different leaves  *)
(* and a zero leaf, and four zero leaves, whose nodes are zero hashes.     *)
(* Eight flushes turn the ring of four slots twice.                        *)
(***************************************************************************)
EXTENDS Frontier

CONSTANTS a, b, c

MCLeaf == {a, b, c, Z}
MCCuts == <<3, 4>>
MCBatches == {<<a, b, c, Z>>, <<Z, Z, Z, Z>>}
=============================================================================
