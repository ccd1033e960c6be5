------------------------------- MODULE Glv -------------------------------
(***************************************************************************)
(* How the vectors' builder splits the two public inputs in halves for the *)
(* glv and grouped schedules of module Vkx                                 *)
(* (src/chunked/pairing/gen_vkx_glv.mjs): a lattice basis by Euclid's      *)
(* algorithm, the nearest-plane representative moved to the first quadrant,*)
(* and, over both inputs together, the representatives whose bits cost the *)
(* fewest table additions.                                                 *)
(***************************************************************************)
EXTENDS Jacobian, FiniteSets

CONSTANT ITERS      \* GLV_BOUND is 2^ITERS

(* The endomorphism phi(x, y) = (BETA x, y) is multiplication by LAM: the  *)
(* last pair of cube roots of unity that agrees on a point.                *)
BETA == (cru(P) * cru(P)) % P
phiPt(p) == <<(p[1] * BETA) % P, p[2]>>
LAM == CHOOSE la \in {cru(N), (cru(N) * cru(N)) % N} :
         phiPt(BASE) = multiply(la)

GLV_BOUND == twoTo[ITERS]

abs(a) == IF a < 0 THEN -a ELSE a

(* `/` of BigInt: towards zero.                                            *)
quotient(a, b) == IF a >= 0 THEN a \div b ELSE -((-a) \div b)

isqrt(n) == CHOOSE s \in 0..n : s * s <= n /\ (s + 1) * (s + 1) > n

(* The remainders of N and LAM by Euclid's algorithm, with their cofactors,*)
(* down to the first below the root of N.                                  *)
remainder[i \in 0..N] ==
  IF i = 0 THEN [r |-> N, t |-> 0]
  ELSE IF i = 1 THEN [r |-> LAM, t |-> 1]
  ELSE LET a == remainder[i - 2]
           b == remainder[i - 1]
           q == a.r \div b.r
       IN  IF b.r < isqrt(N) THEN b ELSE [r |-> a.r - q * b.r, t |-> a.t - q * b.t]

(* v1 is the first remainder below the root of N; v2, the shorter of its   *)
(* two neighbours, is the one before, the only one the loop leaves.        *)
glvBasis ==
  LET l == CHOOSE i \in 1..N : /\ remainder[i].r < isqrt(N)
                               /\ \A j \in 1..i - 1 : remainder[j].r >= isqrt(N)
      short == remainder[l]
      before == remainder[l - 1]
  IN  [a1 |-> short.r, b1 |-> -short.t, a2 |-> before.r, b2 |-> -before.t]

(* Division rounded to the nearest integer.                                *)
rnd(num, den) ==
  LET q == quotient(num, den)
  IN  IF 2 * abs(num - q * den) > den THEN (IF num < 0 THEN q - 1 ELSE q + 1) ELSE q

(* The representative n - c1 v1 - c2 v2 next to zero, moved by one vector  *)
(* of the basis v at most each way to the non-negative pair whose larger   *)
(* half is smallest; <<>> where there is none (the builder then throws).   *)
near(n, v) ==
  LET c1 == rnd(v.b2 * n, N)
      c2 == rnd(-v.b1 * n, N)
  IN  {<<n - c1 * v.a1 - c2 * v.a2 + i * v.a1 + j * v.a2,
         -c1 * v.b1 - c2 * v.b2 + i * v.b1 + j * v.b2>> : i, j \in -1..1}
larger(p) == IF p[1] > p[2] THEN p[1] ELSE p[2]
smallest(quadrant) ==
  IF quadrant = {} THEN <<>>
  ELSE CHOOSE p \in quadrant : \A q \in quadrant : larger(p) <= larger(q)
glvDecompose(n) == smallest({p \in near(n, glvBasis) : p[1] >= 0 /\ p[2] >= 0})

inBox(p) == p[1] >= 0 /\ p[1] < GLV_BOUND /\ p[2] >= 0 /\ p[2] < GLV_BOUND

bit(n, i) == (n \div twoTo[i]) % 2

(* The bit positions at which some half of either input has a one.         *)
union(h0, h1) ==
  {i \in 0..ITERS - 1 : \E x \in {h0[1], h0[2], h1[1], h1[2]} : bit(x, i) = 1}
length(h0, h1) ==
  LET u == union(h0, h1)
  IN  IF u = {} THEN 0 ELSE 1 + CHOOSE i \in u : \A j \in u : j <= i

(* Fewest additions, then shortest, then smallest halves in order.         *)
score(h0, h1) == <<Cardinality(union(h0, h1)), length(h0, h1)>> \o h0 \o h1
better(s, t) ==
  \E i \in DOMAIN s : s[i] < t[i] /\ \A j \in 1..i - 1 : s[j] = t[j]

(* How far from the seed the search goes along each vector: Cramer's rule  *)
(* over the box.                                                           *)
iBound(v) == (GLV_BOUND * (abs(v.a2) + abs(v.b2)) + N - 1) \div N + 1
jBound(v) == (GLV_BOUND * (abs(v.a1) + abs(v.b1)) + N - 1) \div N + 1

bounded(seed, v, iMax, jMax) ==
  {p \in {<<seed[1] + i * v.a1 + j * v.a2, seed[2] + i * v.b1 + j * v.b2>> :
            i \in -iMax..iMax, j \in -jMax..jMax} : inBox(p)}

(* Mutant: rows of the inverse matrix taken for its columns, rounded down. *)
CandidatesShort(seed, v) ==
  bounded(seed, v, (GLV_BOUND * abs(v.b2)) \div N, (GLV_BOUND * abs(v.b1)) \div N)

candidates(seed, v) == bounded(seed, v, iBound(v), jBound(v))
Candidates == [n \in 0..N-1 |-> candidates(glvDecompose(n), glvBasis)]

(* The builder throws on an input whose seed is not in the box.            *)
seeds(p) == p # <<>> /\ inBox(p)
splits(n) == seeds(glvDecompose(n))

cheapest(scores) == CHOOSE s \in scores : \A t \in scores : ~better(t, s)
glvDecomposeJoint(k0, k1) ==
  LET best == cheapest({score(p, q) : p \in Candidates[k0], q \in Candidates[k1]})
  IN  <<SubSeq(best, 3, 4), SubSeq(best, 5, 6)>>

=============================================================================
