-------------------------------- MODULE Merkle --------------------------------
(***************************************************************************)
(* What the hash trees of the pool have in common: the ring and the        *)
(* nullifier set of W (w/smt.mjs), and the note tree of D (w/genesis.mjs). *)
(* SHA-256(l || r) and T(P(a || b)) are both an injective pairing.         *)
(***************************************************************************)
EXTENDS Integers

Z == <<>>           \* 32 zero bytes
Pair(x, y) == <<x, y>>

\* The powers of two, 2^l at l, and numbers as scripts shift them.
Two[l \in Nat] == IF l = 0 THEN 1 ELSE 2 * Two[l - 1]
Shift(n, l) == n \div Two[l]
Bit(n, l) == Shift(n, l) % 2

\* A full tree of n levels above a row of leaves: the nodes by level and place.
Rows(row, n) ==
    LET N[l \in 0 .. n] ==
          IF l = 0 THEN row
          ELSE [i \in 0 .. Two[n - l] - 1 |-> Pair(N[l - 1][2 * i], N[l - 1][2 * i + 1])]
    IN  N
=============================================================================
