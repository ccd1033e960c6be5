------------------------------ MODULE TreeProofs ------------------------------
(***************************************************************************)
(* Theorems about the hash trees of the pool: the nullifier set, for every *)
(* depth, set of keys, bitmap and siblings sent; the note tree and the     *)
(* ring of its roots, for every depth, batch and cut of the work, and      *)
(* whatever nodes, old entries and siblings a spender claims.              *)
(***************************************************************************)
EXTENDS Smt, Frontier, Induction, SequenceTheorems, FiniteSetTheorems

(***************************************************************************)
(* Powers of two and the bits of a number.                                 *)
(***************************************************************************)
LEMMA TwoUpTo ==
    ASSUME NEW n \in Nat
    PROVE  \E f \in [0..n -> Nat] : f[0] = 1 /\ \A l \in 1..n : f[l] = 2 * f[l - 1]
<1> DEFINE G == [q \in Nat \X (1..n) |-> 2 * q[1]]
<1>1. StaysIn(G, Nat, n) /\ \A q \in Nat, j \in 1..n : G[<<q, j>>] = 2 * q
  BY DEF StaysIn
<1> HIDE DEF G
<1>2. PICK f \in [0..n -> Nat] : Follows(f, 1, G, n)
  BY <1>1, Recursion
<1>3. ASSUME NEW l \in 1..n PROVE f[l] = 2 * f[l - 1]
  <2>1. l - 1 \in 0..n
    OBVIOUS
  <2> QED
    BY <1>1, <1>2, <2>1 DEF Follows
<1> QED
  BY <1>2, <1>3 DEF Follows

LEMMA TwoAgrees ==
    ASSUME NEW n \in Nat, NEW m \in Nat, n <= m,
           NEW f \in [0..n -> Nat], f[0] = 1 /\ \A l \in 1..n : f[l] = 2 * f[l - 1],
           NEW g \in [0..m -> Nat], g[0] = 1 /\ \A l \in 1..m : g[l] = 2 * g[l - 1]
    PROVE  \A l \in 0..n : f[l] = g[l]
<1> DEFINE T == {l \in 0..n : f[l] = g[l]}
<1>1. 0 \in T
  OBVIOUS
<1>2. \A k \in 0..n : k \in T /\ k < n => k + 1 \in T
  <2> SUFFICES ASSUME NEW k \in 0..n, k \in T, k < n PROVE k + 1 \in T
    OBVIOUS
  <2>1. k + 1 \in 1..n /\ k + 1 \in 1..m /\ (k + 1) - 1 = k /\ k + 1 \in 0..n
    OBVIOUS
  <2>2. f[k + 1] = 2 * f[k] /\ g[k + 1] = 2 * g[k]
    BY <2>1
  <2> QED
    BY <2>1, <2>2
<1> HIDE DEF T
<1>3. \A k \in 0..n : k \in T
  BY <1>1, <1>2, UpTo
<1> QED
  BY <1>3 DEF T

LEMMA TwoIs ==
    /\ Two[0] = 1
    /\ \A l \in Nat : Two[l] \in Nat \ {0} /\ Two[l + 1] = 2 * Two[l]
    /\ \A l \in Nat \ {0} : Two[l] = 2 * Two[l - 1]
<1> DEFINE Is(f, n) == f \in [0..n -> Nat] /\ f[0] = 1 /\ \A l \in 1..n : f[l] = 2 * f[l - 1]
           up == [n \in Nat |-> CHOOSE f : Is(f, n)]
           two == [l \in Nat |-> up[l][l]]
           Eqn(f) == f = [l \in Nat |-> IF l = 0 THEN 1 ELSE 2 * f[l - 1]]
<1>1. ASSUME NEW n \in Nat PROVE Is(up[n], n)
  <2>1. \E f : Is(f, n)
    BY TwoUpTo
  <2>2. up[n] = CHOOSE f : Is(f, n)
    OBVIOUS
  <2> HIDE DEF Is, up
  <2> QED
    BY <2>1, <2>2
<1>2. \A l \in Nat : two[l] = up[l][l]
  OBVIOUS
<1> HIDE DEF up
<1>3. ASSUME NEW l \in Nat PROVE two[l] = IF l = 0 THEN 1 ELSE 2 * two[l - 1]
  <2>1. CASE l = 0
    BY <1>1, <1>2, <2>1
  <2>2. CASE l # 0
    <3>1. l - 1 \in Nat /\ l - 1 <= l /\ l - 1 \in 0..l - 1 /\ l \in 1..l
      BY <2>2
    <3>2. Is(up[l - 1], l - 1) /\ Is(up[l], l)
      BY <1>1, <3>1
    <3>3. \A j \in 0..l - 1 : up[l - 1][j] = up[l][j]
      BY <3>1, <3>2, TwoAgrees
    <3>4. up[l][l] = 2 * up[l][l - 1] /\ up[l - 1][l - 1] = up[l][l - 1]
      BY <3>1, <3>2, <3>3
    <3>5. two[l] = up[l][l] /\ two[l - 1] = up[l - 1][l - 1]
      BY <1>2, <3>1
    <3> QED
      BY <2>2, <3>4, <3>5
  <2> QED
    BY <2>1, <2>2
<1>4. two = [l \in Nat |-> two[l]]
  OBVIOUS
<1> HIDE DEF two
<1>5. Eqn(two)
  BY <1>3, <1>4
<1>6. Two = CHOOSE f : Eqn(f)
  BY DEF Two
<1> HIDE DEF Eqn
<1>7. Eqn(Two)
  BY <1>5, <1>6
<1>8. \A l \in Nat : Two[l] = IF l = 0 THEN 1 ELSE 2 * Two[l - 1]
  BY <1>7 DEF Eqn
<1>9. \A l \in Nat : Two[l + 1] = 2 * Two[l]
  <2> SUFFICES ASSUME NEW l \in Nat PROVE Two[l + 1] = 2 * Two[l]
    OBVIOUS
  <2>1. l + 1 \in Nat /\ l + 1 # 0 /\ (l + 1) - 1 = l
    OBVIOUS
  <2> QED
    BY <1>8, <2>1
<1>10. ASSUME NEW n \in Nat PROVE Two[n] \in Nat \ {0}
  <2> DEFINE T == {l \in 0..n : Two[l] \in Nat \ {0}}
  <2>1. 0 \in T
    BY <1>8
  <2>2. \A k \in 0..n : k \in T /\ k < n => k + 1 \in T
    <3> SUFFICES ASSUME NEW k \in 0..n, k \in T, k < n PROVE k + 1 \in T
      OBVIOUS
    <3>1. Two[k + 1] = 2 * Two[k]
      BY <1>9
    <3> QED
      BY <3>1
  <2> HIDE DEF T
  <2>3. \A k \in 0..n : k \in T
    BY <2>1, <2>2, UpTo
  <2> QED
    BY <2>3 DEF T
<1> QED
  BY <1>8, <1>9, <1>10

LEMMA Halves ==
    ASSUME NEW n \in Nat, NEW p \in Nat \ {0}
    PROVE  /\ n \div p \in Nat /\ n \div (2 * p) = (n \div p) \div 2
           /\ n % (2 * p) = 0 <=> n % p = 0 /\ (n \div p) % 2 = 0
OBVIOUS

LEMMA ShiftIs ==
    ASSUME NEW n \in Nat
    PROVE  /\ Shift(n, 0) = n
           /\ \A l \in Nat : /\ Shift(n, l) \in Nat /\ Bit(n, l) \in {0, 1}
                             /\ Shift(n, l + 1) \in Nat
                             /\ Shift(n, l + 1) = Shift(n, l) \div 2
                             /\ Shift(n, l) = 2 * Shift(n, l + 1) + Bit(n, l)
<1>1. Shift(n, 0) = n
  BY TwoIs DEF Shift
<1>2. ASSUME NEW l \in Nat PROVE Shift(n, l) \in Nat /\ Bit(n, l) \in {0, 1}
  <2>1. Two[l] \in Nat \ {0}
    BY TwoIs
  <2>2. Shift(n, l) \in Nat
    BY <2>1, Halves DEF Shift
  <2> QED
    BY <2>2 DEF Bit
<1>3. ASSUME NEW l \in Nat
      PROVE  /\ Shift(n, l + 1) = Shift(n, l) \div 2
             /\ Shift(n, l) = 2 * Shift(n, l + 1) + Bit(n, l)
  <2>1. Two[l + 1] = 2 * Two[l] /\ Two[l] \in Nat \ {0}
    BY TwoIs
  <2>2. Shift(n, l + 1) = Shift(n, l) \div 2
    BY <2>1, Halves DEF Shift
  <2>3. Shift(n, l) \in Nat
    BY <1>2
  <2> QED
    BY <2>2, <2>3 DEF Bit
<1>4. \A l \in Nat : l + 1 \in Nat
  OBVIOUS
<1> QED
  BY <1>1, <1>2, <1>3, <1>4

\* Shifted by l, a number below 2^d is below 2^(d - l).
LEMMA ShiftInRow ==
    ASSUME NEW d \in Nat, NEW n \in 0..Two[d] - 1
    PROVE  \A l \in 0..d : Shift(n, l) \in 0..Two[d - l] - 1
<1> DEFINE T == {l \in 0..d : Shift(n, l) \in 0..Two[d - l] - 1}
<1>1. d \in Nat /\ n \in Nat
  BY TwoIs
<1>2. 0 \in T
  <2>1. Shift(n, 0) = n /\ d - 0 = d /\ 0 \in 0..d
    BY <1>1, ShiftIs
  <2> QED
    BY <2>1
<1>3. \A k \in 0..d : k \in T /\ k < d => k + 1 \in T
  <2> SUFFICES ASSUME NEW k \in 0..d, k \in T, k < d PROVE k + 1 \in T
    OBVIOUS
  <2>1. /\ k \in Nat /\ k + 1 \in 0..d /\ d - k \in Nat \ {0}
        /\ d - (k + 1) = (d - k) - 1 /\ d - (k + 1) \in Nat
    BY <1>1
  <2>2. Two[d - k] = 2 * Two[d - (k + 1)] /\ Two[d - (k + 1)] \in Nat
    BY <2>1, TwoIs
  <2>3. Shift(n, k + 1) = Shift(n, k) \div 2 /\ Shift(n, k) \in Nat
    BY <1>1, <2>1, ShiftIs
  <2> QED
    BY <2>1, <2>2, <2>3
<1> HIDE DEF T
<1>4. \A k \in 0..d : k \in T
  BY <1>1, <1>2, <1>3, UpTo
<1> QED
  BY <1>4 DEF T

LEMMA ShiftPlus ==
    ASSUME NEW d \in Nat, NEW n \in Nat
    PROVE  \A l \in 0..d : Shift(n + Two[d], l) = Shift(n, l) + Two[d - l]
<1> DEFINE T == {l \in 0..d : Shift(n + Two[d], l) = Shift(n, l) + Two[d - l]}
<1>1. d \in Nat /\ n + Two[d] \in Nat /\ Two[d] \in Nat
  BY TwoIs
<1>2. 0 \in T
  <2>1. Shift(n + Two[d], 0) = n + Two[d] /\ Shift(n, 0) = n /\ d - 0 = d /\ 0 \in 0..d
    BY <1>1, ShiftIs
  <2> QED
    BY <2>1
<1>3. \A k \in 0..d : k \in T /\ k < d => k + 1 \in T
  <2> SUFFICES ASSUME NEW k \in 0..d, k \in T, k < d PROVE k + 1 \in T
    OBVIOUS
  <2>1. /\ k \in Nat /\ k + 1 \in 0..d /\ d - k \in Nat \ {0}
        /\ d - (k + 1) = (d - k) - 1 /\ d - (k + 1) \in Nat
    BY <1>1
  <2>2. Two[d - k] = 2 * Two[d - (k + 1)] /\ Two[d - (k + 1)] \in Nat
    BY <2>1, TwoIs
  <2>3. Shift(n, k + 1) = Shift(n, k) \div 2 /\ Shift(n, k) \in Nat
    BY <2>1, ShiftIs
  <2>4. Shift(n + Two[d], k + 1) = Shift(n + Two[d], k) \div 2
    BY <1>1, <2>1, ShiftIs
  <2> QED
    BY <2>1, <2>2, <2>3, <2>4
<1> HIDE DEF T
<1>4. \A k \in 0..d : k \in T
  BY <1>1, <1>2, <1>3, UpTo
<1> QED
  BY <1>4 DEF T

\* The low d bits of n are zero iff 2^d divides it.
LEMMA LowZeros ==
    ASSUME NEW d \in Nat, NEW n \in Nat
    PROVE  \A L \in 0..d : n % Two[L] = 0 <=> \A l \in 0..L - 1 : Bit(n, l) = 0
<1> DEFINE T == {L \in 0..d : n % Two[L] = 0 <=> \A l \in 0..L - 1 : Bit(n, l) = 0}
<1>1. d \in Nat
  OBVIOUS
<1>2. 0 \in T
  BY <1>1, TwoIs
<1>3. \A k \in 0..d : k \in T /\ k < d => k + 1 \in T
  <2> SUFFICES ASSUME NEW k \in 0..d, k \in T, k < d PROVE k + 1 \in T
    OBVIOUS
  <2>1. k \in Nat /\ k + 1 \in 0..d
    BY <1>1
  <2>2. Two[k + 1] = 2 * Two[k] /\ Two[k] \in Nat \ {0}
    BY <2>1, TwoIs
  <2>3. n % Two[k + 1] = 0 <=> n % Two[k] = 0 /\ (n \div Two[k]) % 2 = 0
    BY <2>2, Halves
  <2>4. n % Two[k + 1] = 0 <=> n % Two[k] = 0 /\ Bit(n, k) = 0
    BY <2>3 DEF Bit, Shift
  <2>5. \A l : l \in 0..(k + 1) - 1 <=> l \in 0..k - 1 \/ l = k
    BY <1>1
  <2> QED
    BY <1>1, <2>4, <2>5
<1> HIDE DEF T
<1>4. \A k \in 0..d : k \in T
  BY <1>1, <1>2, <1>3, UpTo
<1> QED
  BY <1>4 DEF T

LEMMA LevelIsNat == \A l \in 0..DEPTH : l \in Nat
BY KeyAssumption

\* What the script checks of L: it is the lowest bit of B that is set.
LEMMA LowBitIs ==
    ASSUME NEW B \in Nat, Shift(B, DEPTH) = 0, NEW L
    PROVE  LowBit(B, L) <=> /\ L \in 0..DEPTH
                            /\ \A l \in 0..L - 1 : Bit(B, l) = 0
                            /\ L < DEPTH => Bit(B, L) = 1
<1> SUFFICES ASSUME L \in 0..DEPTH
             PROVE  /\ (B + Two[DEPTH]) % Two[L] = 0 <=> \A l \in 0..L - 1 : Bit(B, l) = 0
                    /\ Bit(B + Two[DEPTH], L) = 1 <=> (L < DEPTH => Bit(B, L) = 1)
  BY DEF LowBit
<1>1. DEPTH \in Nat /\ B + Two[DEPTH] \in Nat
  BY KeyAssumption, TwoIs
<1>2. ASSUME NEW l \in 0..DEPTH, l < DEPTH PROVE Bit(B + Two[DEPTH], l) = Bit(B, l)
  <2>1. DEPTH - l \in 1..DEPTH /\ (DEPTH - l) - 1 \in 0..DEPTH
    BY <1>1, <1>2
  <2>2. Two[DEPTH - l] = 2 * Two[(DEPTH - l) - 1] /\ Two[(DEPTH - l) - 1] \in Nat
    BY <2>1, TwoIs
  <2>3. Shift(B + Two[DEPTH], l) = Shift(B, l) + Two[DEPTH - l] /\ Shift(B, l) \in Nat
    <3>1. Shift(B, l) \in Nat
      BY LevelIsNat, ShiftIs
    <3> QED
      BY <1>1, <3>1, ShiftPlus
  <2> QED
    BY <2>2, <2>3 DEF Bit
<1>3. Bit(B + Two[DEPTH], DEPTH) = 1
  <2>1. DEPTH \in 0..DEPTH /\ DEPTH - DEPTH = 0
    BY <1>1
  <2>2. Shift(B + Two[DEPTH], DEPTH) = 0 + 1
    BY <1>1, <2>1, ShiftPlus, TwoIs
  <2> QED
    BY <2>2 DEF Bit
<1>4. \A l \in 0..L - 1 : l \in 0..DEPTH /\ l < DEPTH
  BY <1>1
<1>5. (B + Two[DEPTH]) % Two[L] = 0 <=> \A l \in 0..L - 1 : Bit(B + Two[DEPTH], l) = 0
  BY <1>1, LowZeros
<1>6. (\A l \in 0..L - 1 : Bit(B + Two[DEPTH], l) = 0) <=> \A l \in 0..L - 1 : Bit(B, l) = 0
  BY <1>2, <1>4
<1>7. Bit(B + Two[DEPTH], L) = 1 <=> (L < DEPTH => Bit(B, L) = 1)
  BY <1>1, <1>2, <1>3
<1> QED
  BY <1>5, <1>6, <1>7

(***************************************************************************)
(* The tree.  On(S, K, l) is the node of level l above key K.              *)
(***************************************************************************)
Leaves(S) == [i \in 0..Two[DEPTH] - 1 |-> IF i \in S THEN ONE ELSE Z]
Parents(row, l) == [i \in 0..Two[DEPTH - l] - 1 |-> H(row[2 * i], row[2 * i + 1])]
On(S, K, l) == Node(S)[l][Shift(K, l)]

LEMMA NodeIs ==
    ASSUME NEW S
    PROVE  /\ Node(S)[0] = Leaves(S)
           /\ \A l \in 1..DEPTH : Node(S)[l] = Parents(Node(S)[l - 1], l)
<1> DEFINE Row(f, l) == IF l = 0 THEN Leaves(S) ELSE Parents(f[l - 1], l)
           T == {m \in 0..DEPTH : \E h : \A l \in 0..m : h[l] = Row(h, l)}
           Eqn(f) == f = [l \in 0..DEPTH |->
              IF l = 0 THEN [i \in 0..Two[DEPTH] - 1 |-> IF i \in S THEN ONE ELSE Z]
              ELSE [i \in 0..Two[DEPTH - l] - 1 |-> H(f[l - 1][2 * i], f[l - 1][2 * i + 1])]]
<1>1. DEPTH \in Nat
  BY KeyAssumption
<1>2. 0 \in T
  <2> DEFINE h == [l \in 0..0 |-> Leaves(S)]
  <2>1. \A l \in 0..0 : h[l] = Row(h, l)
    OBVIOUS
  <2> HIDE DEF h
  <2> QED
    BY <1>1, <2>1
<1>3. \A k \in 0..DEPTH : k \in T /\ k < DEPTH => k + 1 \in T
  <2> SUFFICES ASSUME NEW k \in 0..DEPTH, k \in T, k < DEPTH PROVE k + 1 \in T
    OBVIOUS
  <2>1. PICK h : \A l \in 0..k : h[l] = Row(h, l)
    OBVIOUS
  <2> DEFINE g == [l \in 0..k + 1 |-> IF l = k + 1 THEN Parents(h[k], k + 1) ELSE h[l]]
  <2>2. ASSUME NEW l \in 0..k + 1 PROVE g[l] = Row(g, l)
    <3>1. CASE l = k + 1
      <4>1. l # 0 /\ l - 1 = k /\ k \in 0..k + 1 /\ k # k + 1
        BY <1>1, <3>1
      <4>2. g[l - 1] = h[k] /\ g[l] = Parents(h[k], l)
        BY <3>1, <4>1
      <4> QED
        BY <4>1, <4>2
    <3>2. CASE l # k + 1
      <4>1. l \in 0..k /\ (l # 0 => l - 1 \in 0..k)
        BY <1>1, <3>2
      <4>2. g[l] = h[l] /\ (l # 0 => g[l - 1] = h[l - 1])
        BY <1>1, <4>1
      <4> QED
        BY <2>1, <4>1, <4>2
    <3> QED
      BY <3>1, <3>2
  <2> HIDE DEF g
  <2>3. k + 1 \in 0..DEPTH
    BY <1>1
  <2> QED
    BY <2>2, <2>3
<1> HIDE DEF T
<1>4. DEPTH \in T
  BY <1>1, <1>2, <1>3, UpTo
<1>5. PICK h : \A l \in 0..DEPTH : h[l] = Row(h, l)
  BY <1>4 DEF T
<1>6. Eqn([l \in 0..DEPTH |-> h[l]])
  <2> DEFINE f == [l \in 0..DEPTH |-> h[l]]
  <2>1. ASSUME NEW l \in 0..DEPTH PROVE f[l] = Row(f, l)
    <3>1. l # 0 => l - 1 \in 0..DEPTH
      BY <1>1
    <3> QED
      BY <1>5, <3>1
  <2>2. f = [l \in 0..DEPTH |-> f[l]]
    OBVIOUS
  <2> HIDE DEF f
  <2>3. f = [l \in 0..DEPTH |-> Row(f, l)]
    BY <2>1, <2>2
  <2>4. Eqn(f)
    BY <2>3 DEF Leaves, Parents
  <2> QED
    BY <2>4 DEF f
<1>7. Node(S) = CHOOSE f : Eqn(f)
  BY DEF Node
<1> HIDE DEF Eqn
<1>8. Eqn(Node(S))
  BY <1>6, <1>7
<1>9. \A l \in 0..DEPTH : Node(S)[l] = Row(Node(S), l)
  BY <1>8 DEF Eqn, Leaves, Parents
<1>10. 0 \in 0..DEPTH /\ \A l \in 1..DEPTH : l \in 0..DEPTH /\ l # 0
  BY <1>1
<1> QED
  BY <1>9, <1>10

LEMMA NodeAt ==
    ASSUME NEW S
    PROVE  /\ \A i \in 0..Two[DEPTH] - 1 : Node(S)[0][i] = IF i \in S THEN ONE ELSE Z
           /\ \A l \in 0..DEPTH - 1 : \A i \in 0..Two[DEPTH - (l + 1)] - 1 :
                 Node(S)[l + 1][i] = H(Node(S)[l][2 * i], Node(S)[l][2 * i + 1])
<1>1. \A i \in 0..Two[DEPTH] - 1 : Node(S)[0][i] = IF i \in S THEN ONE ELSE Z
  <2>1. Node(S)[0] = Leaves(S)
    BY NodeIs
  <2>2. \A i \in 0..Two[DEPTH] - 1 : Leaves(S)[i] = IF i \in S THEN ONE ELSE Z
    BY DEF Leaves
  <2> QED
    BY <2>1, <2>2
<1>2. ASSUME NEW l \in 0..DEPTH - 1, NEW i \in 0..Two[DEPTH - (l + 1)] - 1
      PROVE  Node(S)[l + 1][i] = H(Node(S)[l][2 * i], Node(S)[l][2 * i + 1])
  <2>1. l + 1 \in 1..DEPTH /\ (l + 1) - 1 = l
    BY KeyAssumption
  <2>2. Node(S)[l + 1] = Parents(Node(S)[l], l + 1)
    BY <2>1, NodeIs
  <2> QED
    BY <2>2 DEF Parents
<1> QED
  BY <1>1, <1>2

LEMMA Apart ==
    /\ ONE # Z
    /\ \A l, r : Pair(l, r) # Z
    /\ \A l, r, m, s : Pair(l, r) = Pair(m, s) => l = m /\ r = s
BY DEF Z, ONE, Pair

LEMMA OrderedIs ==
    ASSUME NEW b \in {0, 1}
    PROVE  /\ \A x, s : Ordered(b, x, s) # Z
           /\ \A x, s, y, t : Ordered(b, x, s) = Ordered(b, y, t) => x = y /\ s = t
BY Apart DEF Ordered

\* A key's node, its sibling and the node above them.
LEMMA Family ==
    ASSUME NEW S, NEW K \in 0..Two[DEPTH] - 1, NEW l \in 0..DEPTH - 1
    PROVE  On(S, K, l + 1) = IF On(S, K, l) = Z /\ Sibling(S, K, l) = Z THEN Z
                             ELSE Ordered(Bit(K, l), On(S, K, l), Sibling(S, K, l))
<1> DEFINE i == Shift(K, l + 1)
           N == Node(S)[l]
<1>1. DEPTH \in Nat /\ K \in Nat /\ l + 1 \in 1..DEPTH /\ (l + 1) - 1 = l /\ l + 1 \in 0..DEPTH
      /\ l \in 0..DEPTH
  BY KeyAssumption, TwoIs
<1>2. i \in 0..Two[DEPTH - (l + 1)] - 1
  BY <1>1, ShiftInRow
<1>3. On(S, K, l + 1) = H(N[2 * i], N[2 * i + 1])
  BY <1>2, NodeAt DEF On
<1>4. Shift(K, l) = 2 * i + Bit(K, l) /\ Bit(K, l) \in {0, 1} /\ i \in Nat
  BY <1>1, LevelIsNat, ShiftIs
<1> HIDE DEF i, N
<1>5. CASE Bit(K, l) = 0
  <2>1. Shift(K, l) = 2 * i /\ (2 * i) % 2 = 0
    BY <1>4, <1>5
  <2>2. On(S, K, l) = N[2 * i] /\ Sibling(S, K, l) = N[2 * i + 1]
    BY <2>1 DEF On, Sibling, N
  <2> QED
    BY <1>3, <1>5, <2>2 DEF H, Ordered
<1>6. CASE Bit(K, l) = 1
  <2>1. Shift(K, l) = 2 * i + 1 /\ (2 * i + 1) % 2 # 0 /\ (2 * i + 1) - 1 = 2 * i
    BY <1>4, <1>6
  <2>2. On(S, K, l) = N[2 * i + 1] /\ Sibling(S, K, l) = N[2 * i]
    BY <2>1 DEF On, Sibling, N
  <2> QED
    BY <1>3, <1>6, <2>2 DEF H, Ordered
<1> QED
  BY <1>4, <1>5, <1>6

LEMMA Ends ==
    ASSUME NEW S, NEW K \in 0..Two[DEPTH] - 1
    PROVE  /\ On(S, K, 0) = (IF K \in S THEN ONE ELSE Z)
           /\ On(S, K, DEPTH) = RootOf(S)
           /\ Shift(K, DEPTH) = 0
<1>1. DEPTH \in Nat /\ K \in Nat /\ DEPTH \in 0..DEPTH /\ DEPTH - DEPTH = 0
  BY KeyAssumption, TwoIs
<1>2. Shift(K, DEPTH) = 0
  <2>1. Shift(K, DEPTH) \in 0..1 - 1
    BY <1>1, ShiftInRow, TwoIs
  <2> QED
    BY <2>1
<1>3. On(S, K, 0) = (IF K \in S THEN ONE ELSE Z)
  <2>1. Shift(K, 0) = K
    BY <1>1, ShiftIs
  <2> QED
    BY <2>1, NodeAt DEF On
<1> QED
  BY <1>2, <1>3 DEF On, RootOf

\* A new key changes the nodes above it and no others.
LEMMA InsertIs ==
    ASSUME NEW S, NEW K \in 0..Two[DEPTH] - 1
    PROVE  \A l \in 0..DEPTH : \A i \in 0..Two[DEPTH - l] - 1 :
               i # Shift(K, l) => Node(S \cup {K})[l][i] = Node(S)[l][i]
<1> DEFINE Same(l) == \A i \in 0..Two[DEPTH - l] - 1 :
                         i # Shift(K, l) => Node(S \cup {K})[l][i] = Node(S)[l][i]
           T == {l \in 0..DEPTH : Same(l)}
<1>1. DEPTH \in Nat /\ K \in Nat
  BY KeyAssumption, TwoIs
<1>2. 0 \in T
  <2>1. Same(0)
    <3>1. DEPTH - 0 = DEPTH /\ Shift(K, 0) = K
      BY <1>1, ShiftIs
    <3> QED
      BY <3>1, NodeAt
  <2> HIDE DEF Same
  <2> QED
    BY <1>1, <2>1
<1>3. \A k \in 0..DEPTH : k \in T /\ k < DEPTH => k + 1 \in T
  <2> SUFFICES ASSUME NEW k \in 0..DEPTH, k \in T, k < DEPTH PROVE k + 1 \in T
    OBVIOUS
  <2>1. /\ k \in 0..DEPTH - 1 /\ k + 1 \in 1..DEPTH /\ k + 1 \in 0..DEPTH /\ (k + 1) - 1 = k
        /\ DEPTH - k \in 1..DEPTH /\ DEPTH - (k + 1) = (DEPTH - k) - 1
        /\ DEPTH - (k + 1) \in 0..DEPTH
    BY <1>1
  <2>2. Two[DEPTH - k] = 2 * Two[DEPTH - (k + 1)] /\ Two[DEPTH - (k + 1)] \in Nat
    BY <2>1, TwoIs
  <2>3. Same(k)
    OBVIOUS
  <2> HIDE DEF T
  <2>4. ASSUME NEW i \in 0..Two[DEPTH - (k + 1)] - 1, i # Shift(K, k + 1)
        PROVE  Node(S \cup {K})[k + 1][i] = Node(S)[k + 1][i]
    <3>1. Shift(K, k) = 2 * Shift(K, k + 1) + Bit(K, k) /\ Bit(K, k) \in {0, 1}
          /\ Shift(K, k + 1) \in Nat
      BY <1>1, <2>1, LevelIsNat, ShiftIs
    <3>2. 2 * i # Shift(K, k) /\ 2 * i + 1 # Shift(K, k) /\ i \in Int
      BY <2>4, <3>1
    <3>3. 2 * i \in 0..Two[DEPTH - k] - 1 /\ 2 * i + 1 \in 0..Two[DEPTH - k] - 1
      BY <2>2, <3>2
    <3>4. /\ Node(S \cup {K})[k][2 * i] = Node(S)[k][2 * i]
          /\ Node(S \cup {K})[k][2 * i + 1] = Node(S)[k][2 * i + 1]
      BY <2>3, <3>2, <3>3
    <3>5. /\ Node(S \cup {K})[k + 1][i]
                = H(Node(S \cup {K})[k][2 * i], Node(S \cup {K})[k][2 * i + 1])
          /\ Node(S)[k + 1][i] = H(Node(S)[k][2 * i], Node(S)[k][2 * i + 1])
      BY <2>1, NodeAt
    <3> QED
      BY <3>4, <3>5
  <2>5. Same(k + 1)
    BY <2>4
  <2> QED
    BY <2>1, <2>5 DEF T
<1> HIDE DEF T
<1>4. \A k \in 0..DEPTH : k \in T
  BY <1>1, <1>2, <1>3, UpTo
<1> QED
  BY <1>4 DEF T

LEMMA SiblingsStay ==
    ASSUME NEW S, NEW K \in 0..Two[DEPTH] - 1, NEW l \in 0..DEPTH - 1
    PROVE  Sibling(S \cup {K}, K, l) = Sibling(S, K, l)
<1>1. DEPTH \in Nat /\ K \in Nat /\ l \in 0..DEPTH
  BY KeyAssumption, TwoIs
<1>2. PICK i : i = Shift(K, l)
  OBVIOUS
<1>3. PICK m : m = Two[DEPTH - l]
  OBVIOUS
<1>4. i \in 0..m - 1 /\ i \in Nat /\ m \in Nat
  <2>1. Shift(K, l) \in 0..Two[DEPTH - l] - 1 /\ Shift(K, l) \in Nat
    BY <1>1, LevelIsNat, ShiftInRow, ShiftIs
  <2>2. DEPTH - l \in 0..DEPTH
    BY <1>1
  <2>3. m \in Nat
    BY <1>3, <2>2, TwoIs
  <2> QED
    BY <1>2, <1>3, <2>1, <2>3
<1>5. m % 2 = 0
  <2>1. DEPTH - l \in 1..DEPTH /\ (DEPTH - l) - 1 \in 0..DEPTH
    BY <1>1
  <2>2. m = 2 * Two[(DEPTH - l) - 1] /\ Two[(DEPTH - l) - 1] \in Nat
    BY <1>3, <2>1, TwoIs
  <2> QED
    BY <2>2
<1>6. PICK j : j = IF i % 2 = 0 THEN i + 1 ELSE i - 1
  OBVIOUS
<1>7. j \in 0..m - 1 /\ j # i
  BY <1>4, <1>5, <1>6
<1>8. Node(S \cup {K})[l][j] = Node(S)[l][j]
  BY <1>1, <1>2, <1>3, <1>7, InsertIs
<1> QED
  BY <1>2, <1>6, <1>8 DEF Sibling

(***************************************************************************)
(* The walk and the path, level by level.                                  *)
(***************************************************************************)
Start(S) == [ok |-> TRUE, O |-> Z, N |-> ONE, S |-> S]
Level(q, l, K, B, L) == IF l <= L THEN LevelA(q, l - 1, K) ELSE LevelB(q, l - 1, K, B)

LEMMA ChainsIs ==
    ASSUME NEW K, NEW B, NEW L, NEW S
    PROVE  /\ Chains(K, B, L, S)[0] = Start(S)
           /\ \A l \in 1..DEPTH :
                 Chains(K, B, L, S)[l] = Level(Chains(K, B, L, S)[l - 1], l, K, B, L)
<1> DEFINE Row(f, l) == IF l = 0 THEN Start(S) ELSE Level(f[l - 1], l, K, B, L)
           T == {m \in 0..DEPTH : \E h : \A l \in 0..m : h[l] = Row(h, l)}
           Eqn(f) == f = [l \in 0..DEPTH |->
              IF l = 0 THEN [ok |-> TRUE, O |-> Z, N |-> ONE, S |-> S]
              ELSE IF l <= L THEN LevelA(f[l - 1], l - 1, K)
              ELSE LevelB(f[l - 1], l - 1, K, B)]
<1>1. DEPTH \in Nat
  BY KeyAssumption
<1>2. 0 \in T
  <2> DEFINE h == [l \in 0..0 |-> Start(S)]
  <2>1. \A l \in 0..0 : h[l] = Row(h, l)
    OBVIOUS
  <2> HIDE DEF h
  <2> QED
    BY <1>1, <2>1
<1>3. \A k \in 0..DEPTH : k \in T /\ k < DEPTH => k + 1 \in T
  <2> SUFFICES ASSUME NEW k \in 0..DEPTH, k \in T, k < DEPTH PROVE k + 1 \in T
    OBVIOUS
  <2>1. PICK h : \A l \in 0..k : h[l] = Row(h, l)
    OBVIOUS
  <2> DEFINE g == [l \in 0..k + 1 |-> IF l = k + 1 THEN Level(h[k], k + 1, K, B, L) ELSE h[l]]
  <2>2. ASSUME NEW l \in 0..k + 1 PROVE g[l] = Row(g, l)
    <3>1. CASE l = k + 1
      <4>1. l # 0 /\ l - 1 = k /\ k \in 0..k + 1 /\ k # k + 1
        BY <1>1, <3>1
      <4>2. g[l - 1] = h[k] /\ g[l] = Level(h[k], l, K, B, L)
        BY <3>1, <4>1
      <4> QED
        BY <4>1, <4>2
    <3>2. CASE l # k + 1
      <4>1. l \in 0..k /\ (l # 0 => l - 1 \in 0..k)
        BY <1>1, <3>2
      <4>2. g[l] = h[l] /\ (l # 0 => g[l - 1] = h[l - 1])
        BY <1>1, <4>1
      <4> QED
        BY <2>1, <4>1, <4>2
    <3> QED
      BY <3>1, <3>2
  <2> HIDE DEF g
  <2>3. k + 1 \in 0..DEPTH
    BY <1>1
  <2> QED
    BY <2>2, <2>3
<1> HIDE DEF T
<1>4. DEPTH \in T
  BY <1>1, <1>2, <1>3, UpTo
<1>5. PICK h : \A l \in 0..DEPTH : h[l] = Row(h, l)
  BY <1>4 DEF T
<1>6. Eqn([l \in 0..DEPTH |-> h[l]])
  <2> DEFINE f == [l \in 0..DEPTH |-> h[l]]
  <2>1. ASSUME NEW l \in 0..DEPTH PROVE f[l] = Row(f, l)
    <3>1. l # 0 => l - 1 \in 0..DEPTH
      BY <1>1
    <3> QED
      BY <1>5, <3>1
  <2>2. f = [l \in 0..DEPTH |-> f[l]]
    OBVIOUS
  <2> HIDE DEF f
  <2>3. f = [l \in 0..DEPTH |-> Row(f, l)]
    BY <2>1, <2>2
  <2>4. Eqn(f)
    BY <2>3 DEF Start, Level
  <2> QED
    BY <2>4 DEF f
<1>7. Chains(K, B, L, S) = CHOOSE f : Eqn(f)
  BY DEF Chains
<1> HIDE DEF Eqn
<1>8. Eqn(Chains(K, B, L, S))
  BY <1>6, <1>7
<1>9. \A l \in 0..DEPTH : Chains(K, B, L, S)[l] = Row(Chains(K, B, L, S), l)
  BY <1>8 DEF Eqn, Start, Level
<1>10. 0 \in 0..DEPTH /\ \A l \in 1..DEPTH : l \in 0..DEPTH /\ l # 0
  BY <1>1
<1> QED
  BY <1>9, <1>10

NoPath == [B |-> 0, L |-> DEPTH, S |-> <<>>]
Longer(p, sib, l) ==
    IF sib = Z THEN [B |-> 2 * p.B, L |-> p.L, S |-> p.S]
    ELSE [B |-> 2 * p.B + 1, L |-> l, S |-> <<sib>> \o p.S]

LEMMA PathFromIs ==
    ASSUME NEW S, NEW K
    PROVE  /\ PathFrom(S, K)[DEPTH] = NoPath
           /\ \A l \in 0..DEPTH - 1 :
                 PathFrom(S, K)[l] = Longer(PathFrom(S, K)[l + 1], Sibling(S, K, l), l)
<1> DEFINE Row(f, l) == IF l = DEPTH THEN NoPath ELSE Longer(f[l + 1], Sibling(S, K, l), l)
           T == {m \in 0..DEPTH : \E h : \A l \in m..DEPTH : h[l] = Row(h, l)}
           Eqn(P) == P = [l \in 0..DEPTH |->
              IF l = DEPTH THEN [B |-> 0, L |-> DEPTH, S |-> <<>>]
              ELSE IF Sibling(S, K, l) = Z
              THEN [B |-> 2 * P[l + 1].B, L |-> P[l + 1].L, S |-> P[l + 1].S]
              ELSE [B |-> 2 * P[l + 1].B + 1, L |-> l, S |-> <<Sibling(S, K, l)>> \o P[l + 1].S]]
<1>1. DEPTH \in Nat
  BY KeyAssumption
<1>2. DEPTH \in T
  <2> DEFINE h == [l \in DEPTH..DEPTH |-> NoPath]
  <2>1. \A l \in DEPTH..DEPTH : h[l] = Row(h, l)
    BY <1>1
  <2> HIDE DEF h
  <2> QED
    BY <1>1, <2>1
<1>3. \A k \in 0..DEPTH : k + 1 \in T /\ k < DEPTH => k \in T
  <2> SUFFICES ASSUME NEW k \in 0..DEPTH, k + 1 \in T, k < DEPTH PROVE k \in T
    OBVIOUS
  <2>1. PICK h : \A l \in k + 1..DEPTH : h[l] = Row(h, l)
    OBVIOUS
  <2> DEFINE g == [l \in k..DEPTH |->
                     IF l = k THEN Longer(h[k + 1], Sibling(S, K, k), k) ELSE h[l]]
  <2>2. ASSUME NEW l \in k..DEPTH PROVE g[l] = Row(g, l)
    <3>1. CASE l = k
      <4>1. l # DEPTH /\ k + 1 \in k..DEPTH /\ k # k + 1
        BY <1>1, <3>1
      <4>2. g[l + 1] = h[k + 1] /\ g[l] = Longer(h[k + 1], Sibling(S, K, l), l)
        BY <3>1, <4>1
      <4> QED
        BY <4>1, <4>2
    <3>2. CASE l # k
      <4>1. l \in k + 1..DEPTH /\ (l # DEPTH => l + 1 \in k + 1..DEPTH)
        BY <1>1, <3>2
      <4>2. g[l] = h[l] /\ (l # DEPTH => g[l + 1] = h[l + 1])
        BY <1>1, <4>1
      <4> QED
        BY <2>1, <4>1, <4>2
    <3> QED
      BY <3>1, <3>2
  <2> HIDE DEF g
  <2> QED
    BY <2>2
<1> HIDE DEF T
<1>4. 0 \in T
  BY <1>1, <1>2, <1>3, DownTo
<1>5. PICK h : \A l \in 0..DEPTH : h[l] = Row(h, l)
  BY <1>4 DEF T
<1>6. Eqn([l \in 0..DEPTH |-> h[l]])
  <2> DEFINE f == [l \in 0..DEPTH |-> h[l]]
  <2>1. ASSUME NEW l \in 0..DEPTH PROVE f[l] = Row(f, l)
    <3>1. l # DEPTH => l + 1 \in 0..DEPTH
      BY <1>1
    <3> QED
      BY <1>5, <3>1
  <2>2. f = [l \in 0..DEPTH |-> f[l]]
    OBVIOUS
  <2> HIDE DEF f
  <2>3. f = [l \in 0..DEPTH |-> Row(f, l)]
    BY <2>1, <2>2
  <2>4. Eqn(f)
    BY <2>3 DEF NoPath, Longer
  <2> QED
    BY <2>4 DEF f
<1>7. PathFrom(S, K) = CHOOSE P : Eqn(P)
  BY DEF PathFrom
<1> HIDE DEF Eqn
<1>8. Eqn(PathFrom(S, K))
  BY <1>6, <1>7
<1>9. \A l \in 0..DEPTH : PathFrom(S, K)[l] = Row(PathFrom(S, K), l)
  BY <1>8 DEF Eqn, NoPath, Longer
<1>10. DEPTH \in 0..DEPTH /\ \A l \in 0..DEPTH - 1 : l \in 0..DEPTH /\ l # DEPTH
  BY <1>1
<1> QED
  BY <1>9, <1>10

\* Loop B passes a level from q to r: which sibling it hashed, and what is left.
Hashes(q, r, sib, l, K, B) ==
    /\ r.O = Ordered(Bit(K, l), q.O, sib) /\ r.N = Ordered(Bit(K, l), q.N, sib)
    /\ \/ Bit(B, l) = 1 /\ sib # Z /\ q.S = <<sib>> \o r.S
       \/ Bit(B, l) # 1 /\ sib = Z /\ q.S = r.S

LEMMA LevelBIs ==
    ASSUME NEW X, NEW q, q.S \in Seq(X), NEW l, NEW K, NEW B, NEW r, r = LevelB(q, l, K, B)
    PROVE  /\ r.S \in Seq(X)
           /\ r.ok => q.ok /\ \E sib : Hashes(q, r, sib, l, K, B)
<1> DEFINE sib == IF Bit(B, l) = 1 /\ q.S # <<>> THEN Head(q.S) ELSE Z
           rest == IF Bit(B, l) = 1 /\ q.S # <<>> THEN Tail(q.S) ELSE q.S
<1>1. /\ r.O = Ordered(Bit(K, l), q.O, sib) /\ r.N = Ordered(Bit(K, l), q.N, sib)
      /\ r.S = rest
      /\ r.ok => q.ok /\ (Bit(B, l) = 1 => q.S # <<>> /\ sib # Z)
  BY DEF LevelB
<1>2. q.S # <<>> => Tail(q.S) \in Seq(X) /\ q.S = <<Head(q.S)>> \o Tail(q.S)
  BY HeadTailProperties
<1>3. rest \in Seq(X)
  BY <1>2
<1>4. r.ok => \/ Bit(B, l) = 1 /\ sib # Z /\ q.S = <<sib>> \o rest
              \/ Bit(B, l) # 1 /\ sib = Z /\ q.S = rest
  BY <1>1, <1>2
<1> HIDE DEF sib, rest
<1>5. r.ok => Hashes(q, r, sib, l, K, B)
  BY <1>1, <1>4 DEF Hashes
<1> QED
  BY <1>1, <1>3, <1>5

\* What loop B does with the next sibling of a path.
Comes(q, sib, rest, l, B) ==
    \/ Bit(B, l) = 1 /\ sib # Z /\ q.S = <<sib>> \o rest
    \/ Bit(B, l) = 0 /\ sib = Z /\ q.S = rest

LEMMA LevelBTakes ==
    ASSUME NEW X, NEW q, q.ok, NEW rest \in Seq(X), NEW sib \in X,
           NEW l, NEW K, NEW B, Comes(q, sib, rest, l, B),
           NEW r, r = LevelB(q, l, K, B)
    PROVE  /\ r.ok /\ r.S = rest
           /\ r.O = Ordered(Bit(K, l), q.O, sib)
           /\ r.N = Ordered(Bit(K, l), q.N, sib)
<1>1. LET p == <<sib>> \o rest IN p # <<>> /\ Head(p) = sib /\ Tail(p) = rest
  OBVIOUS
<1>2. CASE Bit(B, l) = 1 /\ sib # Z /\ q.S = <<sib>> \o rest
  BY <1>1, <1>2 DEF LevelB
<1>3. CASE Bit(B, l) = 0 /\ sib = Z /\ q.S = rest
  <2>1. ~(Bit(B, l) = 1)
    BY <1>3
  <2> QED
    BY <1>3, <2>1, Zenon DEF LevelB
<1> QED
  BY <1>2, <1>3 DEF Comes

LEMMA LevelAIs ==
    ASSUME NEW q, NEW l, NEW K, NEW r, r = LevelA(q, l, K)
    PROVE  r.ok = q.ok /\ r.O = q.O /\ r.S = q.S /\ r.N = Ordered(Bit(K, l), q.N, Z)
BY DEF LevelA

\* The siblings left are always a list of those sent; below L the old chain is Z.
LEMMA Rests ==
    ASSUME NEW X, NEW S \in Seq(X), NEW K, NEW B, NEW L \in 0..DEPTH,
           NEW q, q = Chains(K, B, L, S)
    PROVE  \A l \in 0..DEPTH : q[l].S \in Seq(X) /\ (l <= L => q[l].O = Z)
<1> DEFINE T == {l \in 0..DEPTH : q[l].S \in Seq(X) /\ (l <= L => q[l].O = Z)}
<1>1. DEPTH \in Nat
  BY KeyAssumption
<1>2. 0 \in T
  <2>1. q[0] = Start(S)
    BY ChainsIs
  <2>2. q[0].S = S /\ q[0].O = Z
    BY <2>1 DEF Start
  <2> QED
    BY <1>1, <2>2
<1>3. \A k \in 0..DEPTH : k \in T /\ k < DEPTH => k + 1 \in T
  <2> SUFFICES ASSUME NEW k \in 0..DEPTH, k \in T, k < DEPTH PROVE k + 1 \in T
    OBVIOUS
  <2>1. k + 1 \in 1..DEPTH /\ (k + 1) - 1 = k /\ k + 1 \in 0..DEPTH
    BY <1>1
  <2>2. PICK a, r : a = q[k] /\ r = q[k + 1]
    OBVIOUS
  <2>3. r = Level(a, k + 1, K, B, L)
    BY <2>1, <2>2, ChainsIs
  <2>4. CASE k + 1 <= L
    <3>1. r = LevelA(a, k, K)
      BY <2>1, <2>3, <2>4 DEF Level
    <3>2. r.O = a.O /\ r.S = a.S
      BY <3>1, LevelAIs
    <3>3. k <= L
      BY <2>4
    <3> QED
      BY <2>1, <2>2, <3>2, <3>3
  <2>5. CASE ~(k + 1 <= L)
    <3>1. r = LevelB(a, k, K, B)
      BY <2>1, <2>3, <2>5 DEF Level
    <3>2. r.S \in Seq(X)
      BY <2>2, <3>1, LevelBIs
    <3> QED
      BY <2>1, <2>2, <2>5, <3>2
  <2> QED
    BY <2>4, <2>5
<1> HIDE DEF T
<1>4. \A k \in 0..DEPTH : k \in T
  BY <1>1, <1>2, <1>3, UpTo
<1> QED
  BY <1>4 DEF T

LEMMA PathLevels ==
    ASSUME NEW S, NEW K, NEW P, P = PathFrom(S, K)
    PROVE  \A l \in 0..DEPTH :
             /\ P[l].B \in Nat /\ P[l].L \in l..DEPTH
             /\ P[l].S \in Seq({Sibling(S, K, j) : j \in 0..DEPTH - 1})
<1> DEFINE X == {Sibling(S, K, j) : j \in 0..DEPTH - 1}
           T == {l \in 0..DEPTH : P[l].B \in Nat /\ P[l].L \in l..DEPTH /\ P[l].S \in Seq(X)}
<1>1. DEPTH \in Nat
  BY KeyAssumption
<1>2. DEPTH \in T
  <2>1. P[DEPTH].B = 0 /\ P[DEPTH].L = DEPTH /\ P[DEPTH].S = <<>>
    BY PathFromIs DEF NoPath
  <2>2. P[DEPTH].S \in Seq(X)
    BY <2>1
  <2>3. DEPTH \in 0..DEPTH /\ P[DEPTH].B \in Nat /\ P[DEPTH].L \in DEPTH..DEPTH
    BY <1>1, <2>1
  <2> QED
    BY <2>2, <2>3
<1>3. \A k \in 0..DEPTH : k + 1 \in T /\ k < DEPTH => k \in T
  <2> SUFFICES ASSUME NEW k \in 0..DEPTH, k + 1 \in T, k < DEPTH PROVE k \in T
    OBVIOUS
  <2>1. k \in 0..DEPTH - 1
    BY <1>1
  <2>2. PICK sib, p, r : sib = Sibling(S, K, k) /\ p = P[k + 1] /\ r = P[k]
    OBVIOUS
  <2>3. sib \in X
    BY <2>1, <2>2
  <2> HIDE DEF X
  <2>4. p.B \in Nat /\ p.L \in k + 1..DEPTH /\ p.S \in Seq(X)
    BY <2>2
  <2>5. r = Longer(p, sib, k)
    BY <2>1, <2>2, PathFromIs
  <2>6. <<sib>> \o p.S \in Seq(X)
    BY <2>3, <2>4
  <2>7. r.B \in Nat /\ r.L \in k..DEPTH /\ r.S \in Seq(X)
    <3>1. CASE sib = Z
      <4>1. r.B = 2 * p.B /\ r.L = p.L /\ r.S = p.S
        BY <2>5, <3>1 DEF Longer
      <4> QED
        BY <1>1, <2>4, <4>1
    <3>2. CASE sib # Z
      <4>1. r.B = 2 * p.B + 1 /\ r.L = k /\ r.S = <<sib>> \o p.S
        BY <2>5, <3>2 DEF Longer
      <4> QED
        BY <1>1, <2>4, <2>6, <4>1
    <3> QED
      BY <3>1, <3>2
  <2> QED
    BY <2>2, <2>7
<1> HIDE DEF T
<1>4. \A k \in 0..DEPTH : k \in T
  BY <1>1, <1>2, <1>3, DownTo
<1> QED
  BY <1>4 DEF T, X

(***************************************************************************)
(* Soundness.  From the root down: a pair is the hash of one pair only, so *)
(* a walk that ends in the root has gone through the nodes of the tree.    *)
(***************************************************************************)
HashesSiblings(D, K, q) ==
    \A l \in 0..DEPTH - 1 : q[l + 1].N = Ordered(Bit(K, l), q[l].N, Sibling(D, K, l))

LEMMA WitnessIsPath ==
    ASSUME NEW D, NEW X, NEW S \in Seq(X), NEW K \in 0..Two[DEPTH] - 1,
           NEW B \in 0..Two[DEPTH] - 1, NEW L, LowBit(B, L),
           NEW q, q = Chains(K, B, L, S),
           q[DEPTH].ok, q[DEPTH].S = <<>>, q[DEPTH].O = RootOf(D)
    PROVE  /\ K \notin D /\ HashesSiblings(D, K, q)
           /\ Path(D, K).B = B /\ Path(D, K).L = L /\ Path(D, K).S = S
<1>1. PICK P : P = PathFrom(D, K)
  OBVIOUS
<1> DEFINE T == {l \in 0..DEPTH :
                   /\ q[l].ok /\ q[l].O = On(D, K, l)
                   /\ q[l].S = P[l].S /\ Shift(B, l) = P[l].B /\ (l <= L => P[l].L = L)
                   /\ l < DEPTH => q[l + 1].N = Ordered(Bit(K, l), q[l].N, Sibling(D, K, l))}
<1>2. DEPTH \in Nat /\ B \in Nat /\ K \in Nat
  BY KeyAssumption, TwoIs
<1>3. Shift(B, DEPTH) = 0
  BY Ends
<1>4. /\ L \in 0..DEPTH /\ \A l \in 0..L - 1 : Bit(B, l) = 0
      /\ L < DEPTH => Bit(B, L) = 1
  BY <1>2, <1>3, LowBitIs
<1>5. DEPTH \in T
  <2>1. P[DEPTH].B = 0 /\ P[DEPTH].L = DEPTH /\ P[DEPTH].S = <<>>
    BY <1>1, PathFromIs DEF NoPath
  <2>2. q[DEPTH].O = On(D, K, DEPTH)
    BY Ends
  <2>3. DEPTH \in 0..DEPTH /\ (DEPTH <= L => L = DEPTH) /\ ~(DEPTH < DEPTH)
    BY <1>2, <1>4
  <2> QED
    BY <1>3, <2>1, <2>2, <2>3
<1>6. \A k \in 0..DEPTH : k + 1 \in T /\ k < DEPTH => k \in T
  <2> SUFFICES ASSUME NEW k \in 0..DEPTH, k + 1 \in T, k < DEPTH PROVE k \in T
    OBVIOUS
  <2>1. /\ k \in 0..DEPTH - 1 /\ k + 1 \in 1..DEPTH /\ k + 1 \in 0..DEPTH /\ (k + 1) - 1 = k
    BY <1>2
  <2>2. PICK a, r, p, s, o, t, i :
          /\ a = q[k] /\ r = q[k + 1] /\ p = P[k] /\ s = P[k + 1]
          /\ o = On(D, K, k) /\ t = Sibling(D, K, k) /\ i = Bit(K, k)
    OBVIOUS
  <2>3. /\ r.ok /\ r.O = On(D, K, k + 1) /\ r.S = s.S /\ Shift(B, k + 1) = s.B
        /\ k + 1 <= L => s.L = L
    BY <2>2
  <2> SUFFICES /\ a.ok /\ a.O = o /\ a.S = p.S /\ Shift(B, k) = p.B /\ (k <= L => p.L = L)
               /\ r.N = Ordered(i, a.N, t)
    BY <2>2
  <2> HIDE DEF T
  <2>4. r = Level(a, k + 1, K, B, L)
    BY <2>1, <2>2, ChainsIs
  <2>5. p = Longer(s, t, k)
    BY <1>1, <2>1, <2>2, PathFromIs
  <2>6. On(D, K, k + 1) = IF o = Z /\ t = Z THEN Z ELSE Ordered(i, o, t)
    BY <2>1, <2>2, Family
  <2>7. i \in {0, 1}
    BY <1>2, <2>1, <2>2, ShiftIs
  <2>8. Shift(B, k) = 2 * Shift(B, k + 1) + Bit(B, k) /\ Bit(B, k) \in {0, 1}
        /\ Shift(B, k + 1) \in Nat
    BY <1>2, <2>1, LevelIsNat, ShiftIs
  <2>9. CASE k + 1 <= L
    <3>1. a.ok = r.ok /\ a.S = r.S /\ r.N = Ordered(i, a.N, Z)
      <4>1. r = LevelA(a, k, K)
        BY <2>1, <2>4, <2>9 DEF Level
      <4> QED
        BY <2>2, <4>1, LevelAIs
    <3>2. k <= L /\ k \in 0..L - 1
      BY <1>4, <2>9
    <3>3. a.O = Z /\ r.O = Z
      BY <1>4, <2>1, <2>2, <2>9, <3>2, Rests
    <3>4. o = Z /\ t = Z
      BY <2>3, <2>6, <2>7, <3>3, OrderedIs
    <3>5. p.B = 2 * s.B /\ p.L = s.L /\ p.S = s.S
      BY <2>5, <3>4 DEF Longer
    <3>6. Bit(B, k) = 0
      BY <1>4, <3>2
    <3> QED
      BY <2>3, <2>8, <2>9, <3>1, <3>3, <3>4, <3>5, <3>6
  <2>10. CASE ~(k + 1 <= L)
    <3>1. r = LevelB(a, k, K, B)
      BY <2>1, <2>4, <2>10 DEF Level
    <3>2. a.S \in Seq(X)
      BY <1>4, <2>2, Rests
    <3>3. PICK sib : Hashes(a, r, sib, k, K, B)
      BY <2>3, <3>1, <3>2, LevelBIs
    <3>4. a.ok
      BY <2>3, <3>1, <3>2, LevelBIs
    <3>5. a.O = o /\ sib = t /\ r.N = Ordered(i, a.N, t)
      BY <2>2, <2>3, <2>6, <2>7, <3>3, OrderedIs DEF Hashes
    <3>6. k <= L => k = L
      BY <1>4, <2>10
    <3>7. CASE Bit(B, k) = 1 /\ sib # Z /\ a.S = <<sib>> \o r.S
      <4>1. p.B = 2 * s.B + 1 /\ p.L = k /\ p.S = <<sib>> \o s.S
        BY <2>5, <3>5, <3>7 DEF Longer
      <4> QED
        BY <2>3, <2>8, <3>3, <3>4, <3>5, <3>6, <3>7, <4>1
    <3>8. CASE Bit(B, k) # 1 /\ sib = Z /\ a.S = r.S
      <4>1. p.B = 2 * s.B /\ p.L = s.L /\ p.S = s.S
        BY <2>5, <3>5, <3>8 DEF Longer
      <4>2. ~(k <= L)
        BY <1>4, <3>6, <3>8
      <4> QED
        BY <2>3, <2>8, <3>3, <3>4, <3>5, <3>8, <4>1, <4>2
    <3> QED
      BY <3>3, <3>7, <3>8 DEF Hashes
  <2> QED
    BY <2>9, <2>10
<1> HIDE DEF T
<1>7. \A k \in 0..DEPTH : k \in T
  BY <1>2, <1>5, <1>6, DownTo
<1> USE DEF T
<1>8. 0 \in 0..DEPTH
  BY <1>2
<1>9. q[0].S = S /\ q[0].O = Z
  <2>1. q[0] = Start(S)
    BY ChainsIs
  <2> QED
    BY <2>1 DEF Start
<1>10. K \notin D
  BY <1>7, <1>8, <1>9, Ends, Apart
<1>11. Shift(B, 0) = B
  BY <1>2, ShiftIs
<1>12. Path(D, K).B = B /\ Path(D, K).L = L /\ Path(D, K).S = S
  BY <1>1, <1>4, <1>7, <1>8, <1>9, <1>11 DEF Path
<1>13. HashesSiblings(D, K, q)
  <2> SUFFICES ASSUME NEW l \in 0..DEPTH - 1
               PROVE  q[l + 1].N = Ordered(Bit(K, l), q[l].N, Sibling(D, K, l))
    BY DEF HashesSiblings
  <2>1. l \in 0..DEPTH /\ l < DEPTH
    BY <1>2
  <2> QED
    BY <1>7, <2>1
<1> QED
  BY <1>10, <1>12, <1>13

\* The other chain: with K's leaf present it goes up to the new root.
LEMMA NewRoot ==
    ASSUME NEW D, NEW K \in 0..Two[DEPTH] - 1,
           NEW q, q[0].N = ONE, HashesSiblings(D, K, q)
    PROVE  q[DEPTH].N = RootOf(D \cup {K})
<1> DEFINE E == D \cup {K}
           T == {l \in 0..DEPTH : q[l].N = On(E, K, l) /\ q[l].N # Z}
<1>1. DEPTH \in Nat /\ K \in Nat
  BY KeyAssumption, TwoIs
<1>2. 0 \in T
  BY <1>1, Ends, Apart
<1>3. \A k \in 0..DEPTH : k \in T /\ k < DEPTH => k + 1 \in T
  <2> SUFFICES ASSUME NEW k \in 0..DEPTH, k \in T, k < DEPTH PROVE k + 1 \in T
    OBVIOUS
  <2>1. k \in 0..DEPTH - 1 /\ k + 1 \in 0..DEPTH
    BY <1>1
  <2>2. q[k].N = On(E, K, k) /\ q[k].N # Z
    OBVIOUS
  <2>3. Sibling(E, K, k) = Sibling(D, K, k)
    BY <2>1, SiblingsStay
  <2> HIDE DEF E
  <2>4. On(E, K, k + 1) = Ordered(Bit(K, k), On(E, K, k), Sibling(E, K, k))
    BY <2>1, <2>2, Family
  <2>5. q[k + 1].N = Ordered(Bit(K, k), q[k].N, Sibling(D, K, k))
    BY <2>1 DEF HashesSiblings
  <2>6. Bit(K, k) \in {0, 1}
    BY <1>1, <2>1, ShiftIs
  <2>7. q[k + 1].N # Z
    BY <2>5, <2>6, OrderedIs
  <2> QED
    BY <2>1, <2>2, <2>3, <2>4, <2>5, <2>7
<1> HIDE DEF T
<1>4. DEPTH \in T
  BY <1>1, <1>2, <1>3, UpTo
<1>5. On(E, K, DEPTH) = RootOf(E)
  BY Ends
<1> QED
  BY <1>4, <1>5 DEF T

(***************************************************************************)
(* Completeness.  From the leaf up: the path of an absent key is accepted. *)
(***************************************************************************)
\* Below L every node above the key is absent, and so is its sibling.
LEMMA LowestSibling ==
    ASSUME NEW D, NEW K \in 0..Two[DEPTH] - 1, K \notin D, NEW P, P = PathFrom(D, K),
           NEW L, L = P[0].L
    PROVE  /\ L \in 0..DEPTH
           /\ \A l \in 0..DEPTH : l <= L => On(D, K, l) = Z
           /\ \A l \in 0..DEPTH - 1 : l < L => Sibling(D, K, l) = Z
           /\ L < DEPTH => Sibling(D, K, L) # Z
<1> DEFINE T == {l \in 0..DEPTH :
                   l <= L => /\ P[l].L = L /\ On(D, K, l) = Z
                             /\ \A j \in 0..l - 1 : Sibling(D, K, j) = Z}
<1>1. DEPTH \in Nat /\ 0 \in 0..DEPTH
  BY KeyAssumption
<1>2. L \in 0..DEPTH
  BY <1>1, PathLevels
<1>3. 0 \in T
  BY <1>1, Ends
<1>4. ASSUME NEW k \in 0..DEPTH - 1, P[k].L = L
      PROVE  /\ Sibling(D, K, k) = Z => P[k + 1].L = L /\ k < L
             /\ Sibling(D, K, k) # Z => k = L
  <2>1. P[k] = Longer(P[k + 1], Sibling(D, K, k), k)
    BY PathFromIs
  <2>2. k + 1 \in 0..DEPTH
    BY <1>1
  <2>3. P[k + 1].L \in k + 1..DEPTH
    BY <2>2, PathLevels
  <2>4. P[k].L = IF Sibling(D, K, k) = Z THEN P[k + 1].L ELSE k
    BY <2>1 DEF Longer
  <2> QED
    BY <1>1, <1>4, <2>3, <2>4
<1>5. \A k \in 0..DEPTH : k \in T /\ k < DEPTH => k + 1 \in T
  <2> SUFFICES ASSUME NEW k \in 0..DEPTH, k \in T, k < DEPTH, k + 1 <= L PROVE k + 1 \in T
    BY <1>1
  <2>1. k \in 0..DEPTH - 1 /\ k + 1 \in 0..DEPTH /\ k <= L /\ k # L
    BY <1>1, <1>2
  <2>2. P[k].L = L /\ On(D, K, k) = Z /\ \A j \in 0..k - 1 : Sibling(D, K, j) = Z
    BY <2>1
  <2>3. Sibling(D, K, k) = Z /\ P[k + 1].L = L
    BY <1>4, <2>1, <2>2
  <2>4. On(D, K, k + 1) = Z
    BY <2>1, <2>2, <2>3, Family
  <2>5. \A j \in 0..(k + 1) - 1 : j \in 0..k - 1 \/ j = k
    BY <1>1
  <2> QED
    BY <2>1, <2>2, <2>3, <2>4, <2>5
<1> HIDE DEF T
<1>6. \A k \in 0..DEPTH : k \in T
  BY <1>1, <1>3, <1>5, UpTo
<1> USE DEF T
<1>7. \A l \in 0..DEPTH : l <= L => On(D, K, l) = Z
  BY <1>6
<1>8. \A l \in 0..DEPTH - 1 : l < L => Sibling(D, K, l) = Z
  BY <1>1, <1>2, <1>6
<1>9. L < DEPTH => Sibling(D, K, L) # Z
  <2> SUFFICES ASSUME L < DEPTH, Sibling(D, K, L) = Z PROVE FALSE
    OBVIOUS
  <2>1. P[L].L = L /\ L \in 0..DEPTH - 1
    BY <1>1, <1>2, <1>6
  <2> QED
    BY <1>2, <1>4, <2>1
<1> QED
  BY <1>2, <1>7, <1>8, <1>9

\* The bits of a path's bitmap are its siblings.
LEMMA PathBits ==
    ASSUME NEW D, NEW K, NEW P, P = PathFrom(D, K), NEW B, B = P[0].B
    PROVE  /\ \A l \in 0..DEPTH : Shift(B, l) = P[l].B
           /\ \A l \in 0..DEPTH - 1 : Bit(B, l) = IF Sibling(D, K, l) = Z THEN 0 ELSE 1
<1> DEFINE T == {l \in 0..DEPTH : Shift(B, l) = P[l].B}
<1>1. DEPTH \in Nat /\ 0 \in 0..DEPTH
  BY KeyAssumption
<1>2. B \in Nat
  BY <1>1, PathLevels
<1>3. 0 \in T
  BY <1>1, <1>2, ShiftIs
<1>4. ASSUME NEW k \in 0..DEPTH - 1
      PROVE  /\ P[k].B = 2 * P[k + 1].B + (IF Sibling(D, K, k) = Z THEN 0 ELSE 1)
             /\ P[k + 1].B \in Nat
  <2>1. P[k] = Longer(P[k + 1], Sibling(D, K, k), k) /\ k + 1 \in 0..DEPTH
    BY <1>1, PathFromIs
  <2>2. P[k + 1].B \in Nat
    BY <2>1, PathLevels
  <2>3. CASE Sibling(D, K, k) = Z
    <3>1. P[k].B = 2 * P[k + 1].B
      BY <2>1, <2>3 DEF Longer
    <3> QED
      BY <2>2, <2>3, <3>1
  <2>4. CASE Sibling(D, K, k) # Z
    <3>1. P[k].B = 2 * P[k + 1].B + 1
      BY <2>1, <2>4 DEF Longer
    <3> QED
      BY <2>2, <2>4, <3>1
  <2> QED
    BY <2>3, <2>4
<1>5. \A k \in 0..DEPTH : k \in T /\ k < DEPTH => k + 1 \in T
  <2> SUFFICES ASSUME NEW k \in 0..DEPTH, k \in T, k < DEPTH PROVE k + 1 \in T
    OBVIOUS
  <2>1. k \in 0..DEPTH - 1 /\ k + 1 \in 0..DEPTH
    BY <1>1
  <2>2. Shift(B, k + 1) = Shift(B, k) \div 2
    BY <1>2, <2>1, LevelIsNat, ShiftIs
  <2>3. P[k].B \div 2 = P[k + 1].B
    BY <1>4, <2>1
  <2> QED
    BY <2>1, <2>2, <2>3
<1> HIDE DEF T
<1>6. \A k \in 0..DEPTH : k \in T
  BY <1>1, <1>3, <1>5, UpTo
<1>7. \A l \in 0..DEPTH : Shift(B, l) = P[l].B
  BY <1>6 DEF T
<1>8. ASSUME NEW l \in 0..DEPTH - 1 PROVE Bit(B, l) = IF Sibling(D, K, l) = Z THEN 0 ELSE 1
  <2>1. l \in 0..DEPTH
    BY <1>1
  <2>2. Bit(B, l) = P[l].B % 2
    BY <1>7, <2>1 DEF Bit
  <2> QED
    BY <1>4, <2>2
<1> QED
  BY <1>7, <1>8

LEMMA PathWalks ==
    ASSUME NEW D, NEW K \in 0..Two[DEPTH] - 1, K \notin D,
           NEW p, p = Path(D, K), NEW q, q = Chains(K, p.B, p.L, p.S)
    PROVE  /\ LowBit(p.B, p.L) /\ HashesSiblings(D, K, q)
           /\ q[DEPTH].ok /\ q[DEPTH].S = <<>> /\ q[DEPTH].O = RootOf(D)
<1>1. PICK P : P = PathFrom(D, K)
  OBVIOUS
<1>2. PICK B, L, S, X : /\ B = P[0].B /\ L = P[0].L /\ S = P[0].S
                        /\ X = {Sibling(D, K, j) : j \in 0..DEPTH - 1}
  OBVIOUS
<1>3. p.B = B /\ p.L = L /\ p.S = S /\ q = Chains(K, B, L, S)
  BY <1>1, <1>2 DEF Path
<1>4. DEPTH \in Nat /\ 0 \in 0..DEPTH /\ DEPTH \in 0..DEPTH /\ K \in Nat
  BY KeyAssumption, TwoIs
<1>5. /\ L \in 0..DEPTH
      /\ \A l \in 0..DEPTH : l <= L => On(D, K, l) = Z
      /\ \A l \in 0..DEPTH - 1 : l < L => Sibling(D, K, l) = Z
      /\ L < DEPTH => Sibling(D, K, L) # Z
  BY <1>1, <1>2, LowestSibling
<1>6. /\ \A l \in 0..DEPTH : Shift(B, l) = P[l].B
      /\ \A l \in 0..DEPTH - 1 : Bit(B, l) = IF Sibling(D, K, l) = Z THEN 0 ELSE 1
  BY <1>1, <1>2, PathBits
<1>7. \A l \in 0..DEPTH : P[l].B \in Nat /\ P[l].S \in Seq(X)
  BY <1>1, <1>2, PathLevels
<1>8. P[DEPTH].B = 0 /\ P[DEPTH].S = <<>>
  BY <1>1, PathFromIs DEF NoPath
<1>9. LowBit(B, L)
  <2>1. Shift(B, DEPTH) = 0 /\ B \in Nat
    BY <1>2, <1>4, <1>6, <1>7, <1>8
  <2>2. \A l \in 0..L - 1 : l \in 0..DEPTH - 1 /\ l < L
    BY <1>4, <1>5
  <2>3. L < DEPTH => L \in 0..DEPTH - 1
    BY <1>4, <1>5
  <2>4. (\A l \in 0..L - 1 : Bit(B, l) = 0) /\ (L < DEPTH => Bit(B, L) = 1)
    BY <1>5, <1>6, <2>2, <2>3
  <2> QED
    BY <1>5, <2>1, <2>4, LowBitIs
<1> DEFINE T == {l \in 0..DEPTH :
                   /\ q[l].ok /\ q[l].S = P[l].S /\ q[l].O = On(D, K, l)
                   /\ l > L => On(D, K, l) # Z
                   /\ l > 0 => q[l].N = Ordered(Bit(K, l - 1), q[l - 1].N, Sibling(D, K, l - 1))}
<1>10. 0 \in T
  <2>1. q[0] = Start(S)
    BY <1>3, ChainsIs
  <2>2. q[0].ok /\ q[0].S = S /\ q[0].O = Z
    BY <2>1 DEF Start
  <2>3. On(D, K, 0) = Z /\ ~(0 > L) /\ ~(0 > 0)
    BY <1>4, <1>5
  <2> QED
    BY <1>2, <1>4, <2>2, <2>3
<1>11. \A k \in 0..DEPTH : k \in T /\ k < DEPTH => k + 1 \in T
  <2> SUFFICES ASSUME NEW k \in 0..DEPTH, k \in T, k < DEPTH PROVE k + 1 \in T
    OBVIOUS
  <2>1. /\ k \in 0..DEPTH - 1 /\ k + 1 \in 1..DEPTH /\ k + 1 \in 0..DEPTH /\ (k + 1) - 1 = k
    BY <1>4
  <2>2. PICK a, r, s, o, t, i :
          /\ a = q[k] /\ r = q[k + 1] /\ s = P[k + 1]
          /\ o = On(D, K, k) /\ t = Sibling(D, K, k) /\ i = Bit(K, k)
    OBVIOUS
  <2>3. a.ok /\ a.S = P[k].S /\ a.O = o /\ (k > L => o # Z)
    BY <2>2
  <2> SUFFICES /\ r.ok /\ r.S = s.S /\ r.O = On(D, K, k + 1)
               /\ k + 1 > L => On(D, K, k + 1) # Z
               /\ r.N = Ordered(i, a.N, t)
    BY <2>1, <2>2
  <2> HIDE DEF T
  <2>4. r = Level(a, k + 1, K, B, L)
    BY <1>3, <2>1, <2>2, ChainsIs
  <2>5. P[k] = Longer(s, t, k)
    BY <1>1, <2>1, <2>2, PathFromIs
  <2>6. CASE k + 1 <= L
    <3>1. r = LevelA(a, k, K)
      BY <2>1, <2>4, <2>6 DEF Level
    <3>2. r.ok = a.ok /\ r.O = a.O /\ r.S = a.S /\ r.N = Ordered(i, a.N, Z)
      BY <2>2, <3>1, LevelAIs
    <3>3. k <= L /\ k < L /\ ~(k + 1 > L)
      BY <1>5, <2>6
    <3>4. t = Z /\ o = Z /\ On(D, K, k + 1) = Z
      BY <1>5, <2>1, <2>2, <2>6, <3>3
    <3>5. P[k].S = s.S
      BY <2>5, <3>4 DEF Longer
    <3> QED
      BY <2>3, <3>2, <3>3, <3>4, <3>5
  <2>7. CASE ~(k + 1 <= L)
    <3>1. r = LevelB(a, k, K, B)
      BY <2>1, <2>4, <2>7 DEF Level
    <3>2. s.S \in Seq(X) /\ t \in X
      BY <1>2, <1>7, <2>1, <2>2
    <3>3. PICK rest \in Seq(X) : rest = s.S
      BY <3>2
    <3>4. Comes(a, t, rest, k, B)
      <4>1. CASE t = Z
        <5>1. P[k].S = s.S
          BY <2>5, <4>1 DEF Longer
        <5> QED
          BY <1>6, <2>1, <2>2, <2>3, <3>3, <4>1, <5>1 DEF Comes
      <4>2. CASE t # Z
        <5>1. P[k].S = <<t>> \o s.S
          BY <2>5, <4>2 DEF Longer
        <5> QED
          BY <1>6, <2>1, <2>2, <2>3, <3>3, <4>2, <5>1 DEF Comes
      <4> QED
        BY <4>1, <4>2
    <3>5. /\ r.ok /\ r.S = rest
          /\ r.O = Ordered(Bit(K, k), a.O, t) /\ r.N = Ordered(Bit(K, k), a.N, t)
      BY <2>3, <3>1, <3>2, <3>4, LevelBTakes
    <3>6. i \in {0, 1}
      BY <1>4, <2>1, <2>2, ShiftIs
    <3>7. o # Z \/ t # Z
      <4>1. k > L \/ (k = L /\ L < DEPTH)
        BY <1>4, <1>5, <2>7
      <4> QED
        BY <1>5, <2>2, <2>3, <4>1
    <3>8. On(D, K, k + 1) = Ordered(i, o, t)
      BY <2>1, <2>2, <3>7, Family
    <3>9. On(D, K, k + 1) # Z
      BY <3>6, <3>8, OrderedIs
    <3> QED
      BY <2>2, <2>3, <3>3, <3>5, <3>8, <3>9
  <2> QED
    BY <2>6, <2>7
<1> HIDE DEF T
<1>12. \A k \in 0..DEPTH : k \in T
  BY <1>4, <1>10, <1>11, UpTo
<1>13. q[DEPTH].ok /\ q[DEPTH].S = <<>> /\ q[DEPTH].O = RootOf(D)
  BY <1>4, <1>8, <1>12, Ends DEF T
<1>14. HashesSiblings(D, K, q)
  <2> SUFFICES ASSUME NEW l \in 0..DEPTH - 1
               PROVE  q[l + 1].N = Ordered(Bit(K, l), q[l].N, Sibling(D, K, l))
    BY DEF HashesSiblings
  <2>1. l + 1 \in 0..DEPTH /\ l + 1 > 0 /\ (l + 1) - 1 = l
    BY <1>4
  <2>2. PICK m : m = l + 1
    OBVIOUS
  <2>3. q[m].N = Ordered(Bit(K, m - 1), q[m - 1].N, Sibling(D, K, m - 1))
    BY <1>12, <2>1, <2>2 DEF T
  <2> QED
    BY <2>1, <2>2, <2>3
<1> QED
  BY <1>3, <1>9, <1>13, <1>14

LEMMA EmptyTree == RootOf({}) = Z
<1> DEFINE T == {l \in 0..DEPTH : \A i \in 0..Two[DEPTH - l] - 1 : Node({})[l][i] = Z}
<1>1. DEPTH \in Nat
  BY KeyAssumption
<1>2. 0 \in T
  <2>1. DEPTH - 0 = DEPTH
    BY <1>1
  <2> QED
    BY <1>1, <2>1, NodeAt
<1>3. \A k \in 0..DEPTH : k \in T /\ k < DEPTH => k + 1 \in T
  <2> SUFFICES ASSUME NEW k \in 0..DEPTH, k \in T, k < DEPTH PROVE k + 1 \in T
    OBVIOUS
  <2>1. /\ k \in 0..DEPTH - 1 /\ k + 1 \in 0..DEPTH /\ DEPTH - k \in 1..DEPTH
        /\ DEPTH - (k + 1) = (DEPTH - k) - 1 /\ DEPTH - (k + 1) \in 0..DEPTH
    BY <1>1
  <2>2. Two[DEPTH - k] = 2 * Two[DEPTH - (k + 1)] /\ Two[DEPTH - (k + 1)] \in Nat
    BY <2>1, TwoIs
  <2>3. ASSUME NEW i \in 0..Two[DEPTH - (k + 1)] - 1 PROVE Node({})[k + 1][i] = Z
    <3>1. 2 * i \in 0..Two[DEPTH - k] - 1 /\ 2 * i + 1 \in 0..Two[DEPTH - k] - 1
      BY <2>2
    <3>2. Node({})[k][2 * i] = Z /\ Node({})[k][2 * i + 1] = Z
      BY <3>1
    <3>3. Node({})[k + 1][i] = H(Node({})[k][2 * i], Node({})[k][2 * i + 1])
      BY <2>1, NodeAt
    <3> QED
      BY <3>2, <3>3 DEF H
  <2> QED
    BY <2>1, <2>3
<1> HIDE DEF T
<1>4. DEPTH \in T
  BY <1>1, <1>2, <1>3, UpTo
<1>5. DEPTH - DEPTH = 0 /\ 0 \in 0..1 - 1
  BY <1>1
<1>6. 0 \in 0..Two[DEPTH - DEPTH] - 1
  BY <1>5, TwoIs
<1> QED
  BY <1>4, <1>6 DEF T, RootOf

(***************************************************************************)
(* The theorems.                                                           *)
(***************************************************************************)
SetInv == /\ spent \subseteq Keys
        /\ nfRoot = RootOf(spent)
        /\ accepted = Cardinality(spent)
        /\ OneEncoding

LEMMA KeyIs == \A K \in Keys : K \in 0..Two[DEPTH] - 1
BY KeyAssumption

LEMMA FiniteKeys == ASSUME NEW D \in SUBSET Keys PROVE IsFiniteSet(D)
<1>1. Two[DEPTH] - 1 \in Int
  <2>1. DEPTH \in 0..DEPTH
    BY KeyAssumption
  <2> QED
    BY <2>1, TwoIs
<1>2. IsFiniteSet(0..Two[DEPTH] - 1)
  BY <1>1, FS_Interval
<1> QED
  BY <1>2, FS_Subset, KeyAssumption

LEMMA StartIs ==
    ASSUME NEW K, NEW B, NEW L, NEW S
    PROVE  Chains(K, B, L, S)[0].N = ONE
<1>1. Chains(K, B, L, S)[0] = Start(S)
  BY ChainsIs
<1> QED
  BY <1>1 DEF Start

LEMMA InitSetInv == Init => SetInv
<1> SUFFICES ASSUME Init PROVE SetInv
  OBVIOUS
<1>1. nfRoot = Z /\ spent = {} /\ accepted = 0 /\ last = <<>>
  BY DEF Init
<1> QED
  BY <1>1, EmptyTree, FS_EmptySet DEF SetInv, OneEncoding

LEMMA InsertKeeps ==
    ASSUME SetInv, NEW K \in Keys, Insert(K)
    PROVE  SetInv'
<1>1. PICK B \in 0..Two[DEPTH] - 1, L \in 0..DEPTH, n \in 0..DEPTH :
        /\ LowBit(B, L)
        /\ \E S \in [1..n -> Sendable] :
              /\ Accepts(nfRoot, K, B, L, S)
              /\ nfRoot' = Walk(K, B, L, S).N
              /\ last' = [K |-> K, B |-> B, L |-> L, S |-> S]
        /\ spent' = spent \cup {K} /\ accepted' = accepted + 1
  BY DEF Insert
<1>2. PICK S \in [1..n -> Sendable] :
        /\ Accepts(nfRoot, K, B, L, S)
        /\ nfRoot' = Walk(K, B, L, S).N
        /\ last' = [K |-> K, B |-> B, L |-> L, S |-> S]
  BY <1>1
<1>3. PICK X, D, q : X = Sendable /\ D = spent /\ q = Chains(K, B, L, S)
  OBVIOUS
<1>4. S \in Seq(X) /\ K \in 0..Two[DEPTH] - 1
  <2>1. n \in Nat
    OBVIOUS
  <2> QED
    BY <1>3, <2>1, KeyIs
<1>5. q[DEPTH].ok /\ q[DEPTH].S = <<>> /\ q[DEPTH].O = RootOf(D) /\ nfRoot' = q[DEPTH].N
  BY <1>2, <1>3 DEF Accepts, Walk, SetInv
<1>6. /\ K \notin D /\ HashesSiblings(D, K, q)
      /\ Path(D, K).B = B /\ Path(D, K).L = L /\ Path(D, K).S = S
  BY <1>1, <1>3, <1>4, <1>5, WitnessIsPath
<1>7. nfRoot' = RootOf(D \cup {K})
  <2>1. q[0].N = ONE
    BY <1>3, StartIs
  <2> QED
    BY <1>4, <1>5, <1>6, <2>1, NewRoot
<1>8. D \subseteq Keys /\ accepted = Cardinality(D)
  BY <1>3 DEF SetInv
<1>9. accepted' = Cardinality(D \cup {K})
  <2>1. IsFiniteSet(D)
    BY <1>8, FiniteKeys
  <2> QED
    BY <1>1, <1>6, <1>8, <2>1, FS_AddElement
<1>10. spent' = D \cup {K}
  BY <1>1, <1>3
<1>11. OneEncoding'
  <2>1. spent' \ {K} = D
    BY <1>6, <1>10
  <2>2. last'.K = K /\ last'.B = B /\ last'.L = L /\ last'.S = S
    BY <1>2
  <2> QED
    BY <1>6, <2>1, <2>2 DEF OneEncoding
<1> QED
  BY <1>7, <1>8, <1>9, <1>10, <1>11 DEF SetInv

LEMMA StepSetInv == SetInv /\ [Next]_vars => SetInv'
<1> SUFFICES ASSUME SetInv, [Next]_vars PROVE SetInv'
  OBVIOUS
<1>1. ASSUME NEW K \in Keys, Insert(K) PROVE SetInv'
  BY <1>1, InsertKeeps
<1>2. CASE UNCHANGED vars
  BY <1>2 DEF vars, SetInv, OneEncoding
<1> QED
  BY <1>1, <1>2 DEF Next

LEMMA SetInvariant == Spec => []SetInv
<1> QED
  BY InitSetInv, StepSetInv, PTL DEF Spec

\* Whatever K, bitmap, L and siblings W's script accepts (wcov.mjs smtCode): the
\* key was absent, and the root W commits to next is that of the set with it.
THEOREM NoSecondSpend == Spec => []RootIsTheSet
<1>1. SetInv => RootIsTheSet
  BY DEF SetInv, RootIsTheSet
<1> QED
  BY <1>1, SetInvariant, PTL

\* What is accepted is bit for bit the path the reference computes (smt.mjs,
\* SMT.path): nobody can vary the witness of a withdrawal.
THEOREM WitnessIsUnique == Spec => []OneEncoding
<1>1. SetInv => OneEncoding
  BY DEF SetInv
<1> QED
  BY <1>1, SetInvariant, PTL

\* The reference's path of an absent key always passes smtCode, and gives the root
\* of the set with the key.
THEOREM PathsAreAccepted == Spec => []PathIsAccepted
<1>1. ASSUME SetInv PROVE PathIsAccepted
  <2> SUFFICES ASSUME NEW K \in Keys \ spent, NEW p, p = Path(spent, K)
               PROVE  /\ Accepts(nfRoot, K, p.B, p.L, p.S)
                      /\ Walk(K, p.B, p.L, p.S).N = RootOf(spent \cup {K})
    BY DEF PathIsAccepted
  <2>1. PICK D, q : D = spent /\ q = Chains(K, p.B, p.L, p.S)
    OBVIOUS
  <2>2. K \in 0..Two[DEPTH] - 1 /\ K \notin D /\ p = Path(D, K) /\ nfRoot = RootOf(D)
    BY <1>1, <2>1, KeyIs DEF SetInv
  <2>3. /\ LowBit(p.B, p.L) /\ HashesSiblings(D, K, q)
        /\ q[DEPTH].ok /\ q[DEPTH].S = <<>> /\ q[DEPTH].O = RootOf(D)
    BY <2>1, <2>2, PathWalks
  <2>4. q[0].N = ONE
    BY <2>1, StartIs
  <2>5. q[DEPTH].N = RootOf(D \cup {K})
    BY <2>2, <2>3, <2>4, NewRoot
  <2> QED
    BY <2>1, <2>2, <2>3, <2>5 DEF Accepts, Walk
<1> QED
  BY <1>1, SetInvariant, PTL

(***************************************************************************)
(* Rows of a tree.                                                         *)
(***************************************************************************)
Joined(row, n, l) == [i \in 0..Two[n - l] - 1 |-> Pair(row[2 * i], row[2 * i + 1])]
AreRows(h, row, n, m) == h[0] = row /\ \A l \in 1..m : h[l] = Joined(h[l - 1], n, l)

\* The rows of a tree, one from the other.
LEMMA RowsIs ==
    ASSUME NEW row, NEW n \in Nat
    PROVE  AreRows(Rows(row, n), row, n, n)
<1> DEFINE T == {m \in 0..n : \E h : AreRows(h, row, n, m)}
           Eqn(f) == f = [l \in 0..n |-> 
              IF l = 0 THEN row
              ELSE [i \in 0..Two[n - l] - 1 |-> Pair(f[l - 1][2 * i], f[l - 1][2 * i + 1])]]
<1>1. n \in Nat
  OBVIOUS
<1>2. 0 \in T
  <2>1. AreRows([l \in 0..0 |-> row], row, n, 0)
    BY <1>1 DEF AreRows
  <2> QED
    BY <1>1, <2>1
<1>3. \A k \in 0..n : k \in T /\ k < n => k + 1 \in T
  <2> SUFFICES ASSUME NEW k \in 0..n, k \in T, k < n PROVE k + 1 \in T
    OBVIOUS
  <2>1. PICK h : AreRows(h, row, n, k)
    OBVIOUS
  <2>2. PICK g : g = Extend(h, 0, k, Joined(h[k], n, k + 1))
    OBVIOUS
  <2>3. /\ k \in 0..k /\ 0 \in 0..k /\ k + 1 \in 0..n /\ (k + 1) - 1 = k
        /\ \A l \in 1..k + 1 : l - 1 \in 0..k /\ (l = k + 1 \/ (l \in 1..k /\ l \in 0..k))
    BY <1>1
  <2>4. (\A l \in 0..k : g[l] = h[l]) /\ g[k + 1] = Joined(h[k], n, k + 1)
    BY <1>1, <2>2, Extended
  <2>5. AreRows(g, row, n, k + 1)
    BY <2>1, <2>3, <2>4 DEF AreRows
  <2> QED
    BY <2>3, <2>5
<1> HIDE DEF T
<1>4. PICK h : AreRows(h, row, n, n)
  <2>1. n \in T
    BY <1>1, <1>2, <1>3, FromTo
  <2> QED
    BY <2>1 DEF T
<1>5. Eqn([l \in 0..n |-> h[l]])
  <2>1. PICK f : f = [l \in 0..n |-> h[l]]
    OBVIOUS
  <2>2. \A l \in 0..n : f[l] = h[l] /\ (l # 0 => l - 1 \in 0..n /\ l \in 1..n)
    BY <1>1, <2>1
  <2>3. f = [l \in 0..n |-> IF l = 0 THEN row ELSE Joined(f[l - 1], n, l)]
    BY <1>4, <2>1, <2>2 DEF AreRows
  <2>4. Eqn(f)
    BY <2>3 DEF Joined
  <2> HIDE DEF Eqn
  <2> QED
    BY <2>1, <2>4
<1>6. Eqn(Rows(row, n))
  <2>1. Rows(row, n) = CHOOSE f : Eqn(f)
    BY DEF Rows
  <2> HIDE DEF Eqn
  <2> QED
    BY <1>5, <2>1
<1>7. \A l \in 0..n :
         Rows(row, n)[l] = IF l = 0 THEN row ELSE Joined(Rows(row, n)[l - 1], n, l)
  BY <1>6 DEF Joined
<1>8. 0 \in 0..n /\ \A l \in 1..n : l \in 0..n /\ l # 0
  BY <1>1
<1> QED
  BY <1>7, <1>8 DEF AreRows

LEMMA RowsAt ==
    ASSUME NEW row, NEW n \in Nat, NEW N, N = Rows(row, n)
    PROVE  /\ N[0] = row
           /\ \A l \in 0..n - 1 : \A i \in 0..Two[n - (l + 1)] - 1 :
                 N[l + 1][i] = Pair(N[l][2 * i], N[l][2 * i + 1])
<1>1. ASSUME NEW l \in 0..n - 1, NEW i \in 0..Two[n - (l + 1)] - 1
      PROVE  N[l + 1][i] = Pair(N[l][2 * i], N[l][2 * i + 1])
  <2>1. l + 1 \in 1..n /\ (l + 1) - 1 = l
    OBVIOUS
  <2>2. N[l + 1] = Joined(N[l], n, l + 1)
    BY <2>1, RowsIs DEF AreRows
  <2> QED
    BY <2>2 DEF Joined
<1> QED
  BY <1>1, RowsIs DEF AreRows

\* A place of a row, its children, and the row above.
LEMMA RowWidth ==
    ASSUME NEW n \in Nat, NEW l \in 0..n - 1
    PROVE  /\ l \in Nat /\ l + 1 \in 0..n /\ n - l \in Nat /\ n - (l + 1) \in Nat
           /\ Two[n - l] = 2 * Two[n - (l + 1)] /\ Two[n - (l + 1)] \in Nat \ {0}
           /\ \A i \in 0..Two[n - (l + 1)] - 1 :
                 i \in Nat /\ 2 * i \in 0..Two[n - l] - 1 /\ 2 * i + 1 \in 0..Two[n - l] - 1
<1>1. /\ l \in Nat /\ l + 1 \in 0..n /\ n - l \in Nat \ {0} /\ n - (l + 1) \in Nat
      /\ (n - l) - 1 = n - (l + 1)
  OBVIOUS
<1>2. Two[n - l] = 2 * Two[n - (l + 1)] /\ Two[n - (l + 1)] \in Nat \ {0}
  BY <1>1, TwoIs
<1> QED
  BY <1>1, <1>2

(***************************************************************************)
(* The ring.                                                               *)
(***************************************************************************)
Above(x, s, HS, l) ==
    IF Bit(s, l - 1) = 1 THEN Pair(HS[l], x) ELSE Pair(x, HS[l])
ArePathNodes(h, node, s, HS, m) == h[0] = node /\ \A l \in 1..m : h[l] = Above(h[l - 1], s, HS, l)

\* The nodes of a path, one from the other.
LEMMA PathNodesIs ==
    ASSUME NEW node, NEW s, NEW HS
    PROVE  ArePathNodes(PathNodes(node, s, HS), node, s, HS, RING_LOG)
<1> DEFINE T == {m \in 0..RING_LOG : \E h : ArePathNodes(h, node, s, HS, m)}
           Eqn(f) == f = [l \in 0..RING_LOG |-> 
              IF l = 0 THEN node
              ELSE IF Bit(s, l - 1) = 1 THEN Pair(HS[l], f[l - 1]) ELSE Pair(f[l - 1], HS[l])]
<1>1. RING_LOG \in Nat
  BY RingAssumption
<1>2. 0 \in T
  <2>1. ArePathNodes([l \in 0..0 |-> node], node, s, HS, 0)
    BY <1>1 DEF ArePathNodes
  <2> QED
    BY <1>1, <2>1
<1>3. \A k \in 0..RING_LOG : k \in T /\ k < RING_LOG => k + 1 \in T
  <2> SUFFICES ASSUME NEW k \in 0..RING_LOG, k \in T, k < RING_LOG PROVE k + 1 \in T
    OBVIOUS
  <2>1. PICK h : ArePathNodes(h, node, s, HS, k)
    OBVIOUS
  <2>2. PICK g : g = Extend(h, 0, k, Above(h[k], s, HS, k + 1))
    OBVIOUS
  <2>3. /\ k \in 0..k /\ 0 \in 0..k /\ k + 1 \in 0..RING_LOG /\ (k + 1) - 1 = k
        /\ \A l \in 1..k + 1 : l - 1 \in 0..k /\ (l = k + 1 \/ (l \in 1..k /\ l \in 0..k))
    BY <1>1
  <2>4. (\A l \in 0..k : g[l] = h[l]) /\ g[k + 1] = Above(h[k], s, HS, k + 1)
    BY <1>1, <2>2, Extended
  <2>5. ArePathNodes(g, node, s, HS, k + 1)
    BY <2>1, <2>3, <2>4 DEF ArePathNodes
  <2> QED
    BY <2>3, <2>5
<1> HIDE DEF T
<1>4. PICK h : ArePathNodes(h, node, s, HS, RING_LOG)
  <2>1. RING_LOG \in T
    BY <1>1, <1>2, <1>3, FromTo
  <2> QED
    BY <2>1 DEF T
<1>5. Eqn([l \in 0..RING_LOG |-> h[l]])
  <2>1. PICK f : f = [l \in 0..RING_LOG |-> h[l]]
    OBVIOUS
  <2>2. \A l \in 0..RING_LOG : f[l] = h[l] /\ (l # 0 => l - 1 \in 0..RING_LOG /\ l \in 1..RING_LOG)
    BY <1>1, <2>1
  <2>3. f = [l \in 0..RING_LOG |-> IF l = 0 THEN node ELSE Above(f[l - 1], s, HS, l)]
    BY <1>4, <2>1, <2>2 DEF ArePathNodes
  <2>4. Eqn(f)
    BY <2>3 DEF Above
  <2> HIDE DEF Eqn
  <2> QED
    BY <2>1, <2>4
<1>6. Eqn(PathNodes(node, s, HS))
  <2>1. PathNodes(node, s, HS) = CHOOSE f : Eqn(f)
    BY DEF PathNodes
  <2> HIDE DEF Eqn
  <2> QED
    BY <1>5, <2>1
<1>7. \A l \in 0..RING_LOG :
         PathNodes(node, s, HS)[l] =
            IF l = 0 THEN node ELSE Above(PathNodes(node, s, HS)[l - 1], s, HS, l)
  BY <1>6 DEF Above
<1>8. 0 \in 0..RING_LOG /\ \A l \in 1..RING_LOG : l \in 0..RING_LOG /\ l # 0
  BY <1>1
<1> QED
  BY <1>7, <1>8 DEF ArePathNodes

\* A node depends on the leaves below it only.
SameLeaves(a, b, n, l, i) == \A j \in 0..Two[n] - 1 : Shift(j, l) = i => a[j] = b[j]

LEMMA RowsAgree ==
    ASSUME NEW n \in Nat, NEW a, NEW b, NEW l \in 0..n, NEW i \in 0..Two[n - l] - 1,
           SameLeaves(a, b, n, l, i)
    PROVE  Rows(a, n)[l][i] = Rows(b, n)[l][i]
<1>0. PICK A, B : A = Rows(a, n) /\ B = Rows(b, n)
  OBVIOUS
<1> DEFINE Same(k, p) == SameLeaves(a, b, n, k, p)
           T == {k \in 0..n : \A p \in 0..Two[n - k] - 1 : Same(k, p) => A[k][p] = B[k][p]}
<1>1. \A j \in 0..Two[n] - 1 : j \in Nat
  BY TwoIs
<1>2. 0 \in T
  <2>1. n - 0 = n /\ 0 \in 0..n /\ A[0] = a /\ B[0] = b
    BY <1>0, RowsAt
  <2>2. \A j \in 0..Two[n] - 1 : Shift(j, 0) = j
    BY <1>1, ShiftIs
  <2> QED
    BY <2>1, <2>2 DEF SameLeaves
<1>3. \A k \in 0..n : k \in T /\ k < n => k + 1 \in T
  <2> SUFFICES ASSUME NEW k \in 0..n, k \in T, k < n,
                      NEW p \in 0..Two[n - (k + 1)] - 1, Same(k + 1, p)
               PROVE  A[k + 1][p] = B[k + 1][p]
    <3>1. \A k \in 0..n : k < n => k + 1 \in 0..n
      OBVIOUS
    <3> QED
      BY <3>1
  <2>1. k \in 0..n - 1 /\ k \in Nat
    OBVIOUS
  <2>2. p \in Nat /\ 2 * p \in 0..Two[n - k] - 1 /\ 2 * p + 1 \in 0..Two[n - k] - 1
    BY <2>1, RowWidth
  <2>3. /\ A[k + 1][p] = Pair(A[k][2 * p], A[k][2 * p + 1])
        /\ B[k + 1][p] = Pair(B[k][2 * p], B[k][2 * p + 1])
    BY <1>0, <2>1, RowsAt
  <2>4. ASSUME NEW j \in 0..Two[n] - 1, Shift(j, k) = 2 * p \/ Shift(j, k) = 2 * p + 1
        PROVE  a[j] = b[j]
    <3>1. Shift(j, k + 1) = Shift(j, k) \div 2
      BY <1>1, <2>1, ShiftIs
    <3>2. Shift(j, k + 1) = p
      BY <2>2, <2>4, <3>1
    <3> QED
      BY <3>2 DEF SameLeaves
  <2>5. Same(k, 2 * p) /\ Same(k, 2 * p + 1)
    BY <2>4 DEF SameLeaves
  <2>6. A[k][2 * p] = B[k][2 * p] /\ A[k][2 * p + 1] = B[k][2 * p + 1]
    BY <2>2, <2>5
  <2> QED
    BY <2>3, <2>6
<1> HIDE DEF T
<1>4. \A k \in 0..n : k \in T
  BY <1>2, <1>3, UpTo
<1> QED
  BY <1>0, <1>4 DEF T

LEMMA SlotIs ==
    /\ RING_LOG \in Nat /\ RING_LOG >= 1 /\ RING \in Nat \ {0}
    /\ \A s \in Slot : /\ s \in Nat /\ s \in 0..Two[RING_LOG] - 1 /\ Shift(s, RING_LOG) = 0
                       /\ \A l \in 0..RING_LOG : Shift(s, l) \in 0..Two[RING_LOG - l] - 1
<1>1. RING_LOG \in Nat /\ RING_LOG >= 1 /\ RING \in Nat \ {0}
  BY RingAssumption, TwoIs DEF RING
<1>2. ASSUME NEW s \in Slot
      PROVE  /\ s \in Nat /\ s \in 0..Two[RING_LOG] - 1 /\ Shift(s, RING_LOG) = 0
             /\ \A l \in 0..RING_LOG : Shift(s, l) \in 0..Two[RING_LOG - l] - 1
  <2>1. s \in Nat /\ s \in 0..Two[RING_LOG] - 1
    BY <1>1 DEF Slot, RING
  <2>2. \A l \in 0..RING_LOG : Shift(s, l) \in 0..Two[RING_LOG - l] - 1
    BY <1>1, <2>1, ShiftInRow
  <2>3. RING_LOG - RING_LOG = 0 /\ RING_LOG \in 0..RING_LOG
    BY <1>1
  <2>4. Shift(s, RING_LOG) \in 0..Two[0] - 1
    BY <2>2, <2>3
  <2> QED
    BY <2>1, <2>2, <2>4, TwoIs
<1> QED
  BY <1>1, <1>2

\* The node above a slot, from the one below it and the entry of the path.
LEMMA RingFamily ==
    ASSUME NEW ring, NEW N, N = Rows(ring, RING_LOG), NEW s \in Slot, NEW l \in 0..RING_LOG - 1
    PROVE  N[l + 1][Shift(s, l + 1)] = Above(N[l][Shift(s, l)], s, RingPath(ring, s), l + 1)
<1>1. PICK i : i = Shift(s, l + 1)
  OBVIOUS
<1>2. /\ RING_LOG \in Nat /\ s \in Nat /\ l \in Nat /\ l + 1 \in 0..RING_LOG
      /\ l + 1 \in 1..RING_LOG /\ (l + 1) - 1 = l
  BY SlotIs
<1>3. i \in 0..Two[RING_LOG - (l + 1)] - 1
  BY <1>1, <1>2, SlotIs
<1>4. /\ Shift(s, l) = 2 * i + Bit(s, l) /\ Bit(s, l) \in {0, 1} /\ i \in Nat
      /\ Shift(s, l) % 2 = Bit(s, l)
  BY <1>1, <1>2, ShiftIs DEF Bit
<1>5. N[l + 1][i] = Pair(N[l][2 * i], N[l][2 * i + 1])
  BY <1>2, <1>3, RowsAt
<1>6. RingPath(ring, s)[l + 1] =
         N[l][IF Shift(s, l) % 2 = 0 THEN Shift(s, l) + 1 ELSE Shift(s, l) - 1]
  BY <1>2 DEF RingPath
<1>7. CASE Bit(s, l) = 0
  <2>1. Shift(s, l) = 2 * i /\ RingPath(ring, s)[l + 1] = N[l][2 * i + 1]
    BY <1>4, <1>6, <1>7
  <2> QED
    BY <1>1, <1>2, <1>5, <1>7, <2>1 DEF Above
<1>8. CASE Bit(s, l) = 1
  <2>1. Shift(s, l) = 2 * i + 1 /\ (2 * i + 1) - 1 = 2 * i
        /\ RingPath(ring, s)[l + 1] = N[l][(2 * i + 1) - 1]
    BY <1>4, <1>6, <1>8
  <2> QED
    BY <1>1, <1>2, <1>5, <1>8, <2>1 DEF Above
<1> QED
  BY <1>4, <1>7, <1>8

\* Whatever opens at a slot is its entry, with the siblings of the reference.
LEMMA PathIsRing ==
    ASSUME NEW ring, NEW x, NEW s \in Slot, NEW HS, PathRoot(x, s, HS) = RingRoot(ring)
    PROVE  /\ x = ring[s]
           /\ \A k \in 1..RING_LOG : HS[k] = RingPath(ring, s)[k]
<1>1. PICK n, N, h, P : /\ n = RING_LOG /\ N = Rows(ring, RING_LOG)
                        /\ h = PathNodes(x, s, HS) /\ P = RingPath(ring, s)
  OBVIOUS
<1>2. n \in Nat /\ s \in Nat /\ Shift(s, n) = 0 /\ Shift(s, 0) = s /\ n \in 0..n
  BY <1>1, SlotIs, ShiftIs
<1>3. h[0] = x /\ N[0] = ring /\ \A l \in 1..n : h[l] = Above(h[l - 1], s, HS, l)
  BY <1>1, <1>2, PathNodesIs, RowsIs DEF AreRows, ArePathNodes
<1>4. \A l \in 0..n - 1 : N[l + 1][Shift(s, l + 1)] = Above(N[l][Shift(s, l)], s, P, l + 1)
  BY <1>1, RingFamily
<1> DEFINE T == {l \in 0..n : /\ h[l] = N[l][Shift(s, l)]
                              /\ l < n => HS[l + 1] = P[l + 1]}
<1>5. n \in T
  <2>1. h[n] = N[n][0]
    BY <1>1 DEF PathRoot, RingRoot
  <2> QED
    BY <1>2, <2>1
<1>6. \A k \in 0..n : k + 1 \in T /\ k < n => k \in T
  <2> SUFFICES ASSUME NEW k \in 0..n, k + 1 \in T, k < n PROVE k \in T
    OBVIOUS
  <2>1. k \in 0..n - 1 /\ k + 1 \in 1..n /\ (k + 1) - 1 = k
    BY <1>2
  <2>2. Above(h[k], s, HS, k + 1) = Above(N[k][Shift(s, k)], s, P, k + 1)
    BY <1>3, <1>4, <2>1
  <2>3. h[k] = N[k][Shift(s, k)] /\ HS[k + 1] = P[k + 1]
    BY <2>2 DEF Above, Pair
  <2> QED
    BY <2>1, <2>3
<1> HIDE DEF T
<1>7. \A k \in 0..n : k \in T
  BY <1>2, <1>5, <1>6, DownTo
<1>8. x = ring[s]
  <2>1. 0 \in T
    BY <1>2, <1>7
  <2> QED
    BY <1>2, <1>3, <2>1 DEF T
<1>9. ASSUME NEW k \in 1..n PROVE HS[k] = P[k]
  <2>1. k - 1 \in 0..n /\ k - 1 < n /\ (k - 1) + 1 = k
    BY <1>2
  <2>2. k - 1 \in T
    BY <1>7, <2>1
  <2> QED
    BY <2>1, <2>2 DEF T
<1> QED
  BY <1>1, <1>8, <1>9

\* Along the path of a slot, another entry gives the ring with that entry.
LEMMA RingReplaced ==
    ASSUME NEW ring, DOMAIN ring = Slot, NEW x, NEW s \in Slot
    PROVE  PathRoot(x, s, RingPath(ring, s)) = RingRoot([ring EXCEPT ![s] = x])
<1>1. PICK n, N, h, P : /\ n = RING_LOG /\ N = Rows(ring, RING_LOG)
                        /\ P = RingPath(ring, s) /\ h = PathNodes(x, s, P)
  OBVIOUS
<1>2. PICK new, M : new = [ring EXCEPT ![s] = x] /\ M = Rows(new, RING_LOG)
  OBVIOUS
<1>3. n \in Nat /\ s \in Nat /\ Shift(s, n) = 0 /\ Shift(s, 0) = s /\ n \in 0..n
  BY <1>1, SlotIs, ShiftIs
<1>4. h[0] = x /\ M[0] = new /\ new[s] = x /\ \A l \in 1..n : h[l] = Above(h[l - 1], s, P, l)
  BY <1>1, <1>2, <1>3, PathNodesIs, RowsIs DEF AreRows, ArePathNodes
<1>5. ASSUME NEW l \in 0..n - 1 PROVE RingPath(new, s)[l + 1] = P[l + 1]
  <2>1. l + 1 \in 1..n /\ (l + 1) - 1 = l /\ l \in 0..n /\ l \in Nat /\ n - l \in Nat
    BY <1>3
  <2>2. PICK i : i = IF Shift(s, l) % 2 = 0 THEN Shift(s, l) + 1 ELSE Shift(s, l) - 1
    OBVIOUS
  <2>3. RingPath(new, s)[l + 1] = M[l][i] /\ P[l + 1] = N[l][i]
    BY <1>1, <1>2, <2>1, <2>2 DEF RingPath
  <2>4. i # Shift(s, l) /\ i \in 0..Two[n - l] - 1
    <3>1. Shift(s, l) \in 0..Two[n - l] - 1
      BY <1>1, <2>1, SlotIs
    <3>2. Two[n - l] = 2 * Two[n - (l + 1)] /\ Two[n - (l + 1)] \in Nat
      BY <1>3, RowWidth
    <3>3. PICK a, b : a = Shift(s, l) /\ b = Two[n - (l + 1)]
      OBVIOUS
    <3>4. a \in 0..2 * b - 1 /\ b \in Nat /\ i = IF a % 2 = 0 THEN a + 1 ELSE a - 1
      BY <2>2, <3>1, <3>2, <3>3
    <3>5. i # a /\ i \in 0..2 * b - 1
      BY <3>4
    <3> QED
      BY <3>2, <3>3, <3>5
  <2>5. SameLeaves(new, ring, n, l, i)
    <3>1. 0..Two[n] - 1 = Slot
      BY <1>1 DEF Slot, RING
    <3> QED
      BY <1>2, <2>4, <3>1 DEF SameLeaves
  <2>6. M[l][i] = N[l][i]
    <3>1. M = Rows(new, n) /\ N = Rows(ring, n)
      BY <1>1, <1>2
    <3>2. Rows(new, n)[l][i] = Rows(ring, n)[l][i]
      BY <1>3, <2>1, <2>4, <2>5, RowsAgree
    <3> QED
      BY <3>1, <3>2
  <2> QED
    BY <2>3, <2>6
<1>6. ASSUME NEW l \in 0..n - 1
      PROVE  M[l + 1][Shift(s, l + 1)] = Above(M[l][Shift(s, l)], s, P, l + 1)
  <2>1. M[l + 1][Shift(s, l + 1)] = Above(M[l][Shift(s, l)], s, RingPath(new, s), l + 1)
    BY <1>1, <1>2, RingFamily
  <2> QED
    BY <1>5, <2>1 DEF Above
<1> DEFINE T == {l \in 0..n : h[l] = M[l][Shift(s, l)]}
<1>7. 0 \in T
  BY <1>3, <1>4
<1>8. \A k \in 0..n : k \in T /\ k < n => k + 1 \in T
  <2> SUFFICES ASSUME NEW k \in 0..n, k \in T, k < n PROVE k + 1 \in T
    OBVIOUS
  <2>1. k \in 0..n - 1 /\ k + 1 \in 1..n /\ k + 1 \in 0..n /\ (k + 1) - 1 = k
    BY <1>3
  <2> QED
    BY <1>4, <1>6, <2>1
<1> HIDE DEF T
<1>9. n \in T
  BY <1>3, <1>7, <1>8, UpTo
<1>10. h[n] = M[n][0]
  BY <1>3, <1>9 DEF T
<1> QED
  BY <1>1, <1>2, <1>10 DEF PathRoot, RingRoot

LEMMA RingOpens ==
    ASSUME NEW ring, DOMAIN ring = Slot, ring = [s \in Slot |-> ring[s]], NEW s \in Slot
    PROVE  PathRoot(ring[s], s, RingPath(ring, s)) = RingRoot(ring)
<1>1. [ring EXCEPT ![s] = ring[s]] = ring
  OBVIOUS
<1> QED
  BY <1>1, RingReplaced

(***************************************************************************)
(* The note tree: zero hashes, and a batch among the leaves.               *)
(***************************************************************************)
LEMMA ShapeIs ==
    /\ K_LOG \in Nat /\ K_LOG >= 2 /\ TREE_DEPTH \in Nat
    /\ CUTS[1] \in Nat /\ CUTS[2] \in Nat
    /\ K_LOG < CUTS[1] /\ CUTS[1] < CUTS[2] /\ CUTS[2] < TREE_DEPTH
    /\ BATCH = Two[K_LOG] /\ BATCH \in Nat \ {0}
    /\ MAX_COUNT + BATCH = Two[TREE_DEPTH] /\ MAX_COUNT \in Int /\ Two[TREE_DEPTH] \in Nat
<1>1. /\ K_LOG \in Nat /\ K_LOG >= 2 /\ TREE_DEPTH \in Nat
      /\ CUTS[1] \in Nat /\ CUTS[2] \in Nat
      /\ K_LOG < CUTS[1] /\ CUTS[1] < CUTS[2] /\ CUTS[2] < TREE_DEPTH
  BY ShapeAssumption
<1>2. Two[K_LOG] \in Nat \ {0} /\ Two[TREE_DEPTH] \in Nat
  BY <1>1, TwoIs
<1> QED
  BY <1>1, <1>2 DEF BATCH, MAX_COUNT

\* The zero hashes, one from the other.
AreZeros(h, m) == h[0] = Z /\ \A l \in 1..m : h[l] = Pair(h[l - 1], h[l - 1])

LEMMA ZerosIs ==
    AreZeros(ZH, TREE_DEPTH)
<1> DEFINE T == {m \in 0..TREE_DEPTH : \E h : AreZeros(h, m)}
           Eqn(f) == f = [l \in 0..TREE_DEPTH |-> IF l = 0 THEN Z ELSE Pair(f[l - 1], f[l - 1])]
<1>1. TREE_DEPTH \in Nat
  BY ShapeIs
<1>2. 0 \in T
  <2>1. AreZeros([l \in 0..0 |-> Z], 0)
    BY <1>1 DEF AreZeros
  <2> QED
    BY <1>1, <2>1
<1>3. \A k \in 0..TREE_DEPTH : k \in T /\ k < TREE_DEPTH => k + 1 \in T
  <2> SUFFICES ASSUME NEW k \in 0..TREE_DEPTH, k \in T, k < TREE_DEPTH PROVE k + 1 \in T
    OBVIOUS
  <2>1. PICK h : AreZeros(h, k)
    OBVIOUS
  <2>2. PICK g : g = Extend(h, 0, k, Pair(h[k], h[k]))
    OBVIOUS
  <2>3. /\ k \in 0..k /\ 0 \in 0..k /\ k + 1 \in 0..TREE_DEPTH /\ (k + 1) - 1 = k
        /\ \A l \in 1..k + 1 : l - 1 \in 0..k /\ (l = k + 1 \/ (l \in 1..k /\ l \in 0..k))
    BY <1>1
  <2>4. (\A l \in 0..k : g[l] = h[l]) /\ g[k + 1] = Pair(h[k], h[k])
    BY <1>1, <2>2, Extended
  <2>5. AreZeros(g, k + 1)
    BY <2>1, <2>3, <2>4 DEF AreZeros
  <2> QED
    BY <2>3, <2>5
<1> HIDE DEF T
<1>4. PICK h : AreZeros(h, TREE_DEPTH)
  <2>1. TREE_DEPTH \in T
    BY <1>1, <1>2, <1>3, FromTo
  <2> QED
    BY <2>1 DEF T
<1>5. Eqn([l \in 0..TREE_DEPTH |-> h[l]])
  <2>1. PICK f : f = [l \in 0..TREE_DEPTH |-> h[l]]
    OBVIOUS
  <2>2. \A l \in 0..TREE_DEPTH :
           f[l] = h[l] /\ (l # 0 => l - 1 \in 0..TREE_DEPTH /\ l \in 1..TREE_DEPTH)
    BY <1>1, <2>1
  <2>3. f = [l \in 0..TREE_DEPTH |-> IF l = 0 THEN Z ELSE Pair(f[l - 1], f[l - 1])]
    BY <1>4, <2>1, <2>2 DEF AreZeros
  <2>4. Eqn(f)
    BY <2>3
  <2> HIDE DEF Eqn
  <2> QED
    BY <2>1, <2>4
<1>6. Eqn(ZH)
  <2>1. ZH = CHOOSE f : Eqn(f)
    BY DEF ZH
  <2> HIDE DEF Eqn
  <2> QED
    BY <1>5, <2>1
<1>7. \A l \in 0..TREE_DEPTH :
         ZH[l] = IF l = 0 THEN Z ELSE Pair(ZH[l - 1], ZH[l - 1])
  BY <1>6
<1>8. 0 \in 0..TREE_DEPTH /\ \A l \in 1..TREE_DEPTH : l \in 0..TREE_DEPTH /\ l # 0
  BY <1>1
<1> QED
  BY <1>7, <1>8 DEF AreZeros

\* A number of which another is the lower part is shifted no further down.
LEMMA ShiftGrows ==
    ASSUME NEW m \in Nat, NEW n \in Nat, m <= n, NEW l \in Nat
    PROVE  Shift(m, l) <= Shift(n, l)
<1> DEFINE T == {k \in 0..l : Shift(m, k) <= Shift(n, k)}
<1>1. 0 \in T
  BY ShiftIs
<1>2. \A k \in 0..l : k \in T /\ k < l => k + 1 \in T
  <2> SUFFICES ASSUME NEW k \in 0..l, k \in T, k < l PROVE k + 1 \in T
    OBVIOUS
  <2>1. k \in Nat /\ k + 1 \in 0..l
    OBVIOUS
  <2>2. /\ Shift(m, k + 1) = Shift(m, k) \div 2 /\ Shift(m, k) \in Nat
        /\ Shift(n, k + 1) = Shift(n, k) \div 2 /\ Shift(n, k) \in Nat
    BY <2>1, ShiftIs
  <2> QED
    BY <2>1, <2>2
<1> HIDE DEF T
<1>3. l \in T
  <2>1. l \in 0..l
    OBVIOUS
  <2> QED
    BY <1>1, <1>2, <2>1, UpTo
<1> QED
  BY <1>3 DEF T

\* From level d on, the numbers of one run of 2^d have the same ancestors.
LEMMA SameAncestors ==
    ASSUME NEW d \in Nat, NEW n \in Nat, n % Two[d] = 0, NEW j \in n..n + Two[d] - 1,
           NEW l \in Nat, d <= l
    PROVE  Shift(j, l) = Shift(n, l)
<1> DEFINE T == {k \in d..l : Shift(j, k) = Shift(n, k)}
<1>0. j \in Nat /\ Two[d] \in Nat \ {0}
  BY TwoIs
<1>1. d \in T
  <2>1. PICK p : p = Two[d]
    OBVIOUS
  <2>2. p \in Nat \ {0} /\ n % p = 0 /\ j \in n..n + p - 1
    BY <1>0, <2>1
  <2>3. j \div p = n \div p
    BY <2>2
  <2> QED
    BY <2>1, <2>3 DEF Shift
<1>2. \A k \in d..l : k \in T /\ k < l => k + 1 \in T
  <2> SUFFICES ASSUME NEW k \in d..l, k \in T, k < l PROVE k + 1 \in T
    OBVIOUS
  <2>1. k \in Nat /\ k + 1 \in d..l
    OBVIOUS
  <2>2. Shift(j, k + 1) = Shift(j, k) \div 2 /\ Shift(n, k + 1) = Shift(n, k) \div 2
    BY <1>0, <2>1, ShiftIs
  <2> QED
    BY <2>1, <2>2
<1> HIDE DEF T
<1>3. l \in T
  <2>1. l \in d..l
    OBVIOUS
  <2> QED
    BY <1>1, <1>2, <2>1, FromTo
<1> QED
  BY <1>3 DEF T

\* A row of zero leaves, and every tree over it.
NoLeaves == [i \in 0..Two[TREE_DEPTH] - 1 |-> Z]

LEMMA ZeroRows ==
    \A l \in 0..TREE_DEPTH : \A i \in 0..Two[TREE_DEPTH - l] - 1 :
       Rows(NoLeaves, TREE_DEPTH)[l][i] = ZH[l]
<1>1. PICK n, N : n = TREE_DEPTH /\ N = Rows(NoLeaves, TREE_DEPTH)
  OBVIOUS
<1>2. n \in Nat /\ N = Rows(NoLeaves, n)
  BY <1>1, ShapeIs
<1>3. AreZeros(ZH, n)
  BY <1>1, ZerosIs
<1>9. /\ N[0] = NoLeaves
      /\ \A l \in 0..n - 1 : \A i \in 0..Two[n - (l + 1)] - 1 :
            N[l + 1][i] = Pair(N[l][2 * i], N[l][2 * i + 1])
  BY <1>2, RowsAt
<1> DEFINE T == {l \in 0..n : \A i \in 0..Two[n - l] - 1 : N[l][i] = ZH[l]}
<1>4. 0 \in T
  <2>1. n - 0 = n /\ 0 \in 0..n /\ N[0] = NoLeaves
    BY <1>2, <1>9
  <2> QED
    BY <1>1, <1>3, <2>1 DEF NoLeaves, AreZeros
<1>5. \A k \in 0..n : k \in T /\ k < n => k + 1 \in T
  <2>0. \A k \in 0..n : k < n => k + 1 \in 0..n
    BY <1>2
  <2> SUFFICES ASSUME NEW k \in 0..n, k \in T, k < n, NEW i \in 0..Two[n - (k + 1)] - 1
               PROVE  N[k + 1][i] = ZH[k + 1]
    BY <2>0
  <2>1. k \in 0..n - 1 /\ k + 1 \in 1..n /\ (k + 1) - 1 = k
    BY <1>2
  <2>2. 2 * i \in 0..Two[n - k] - 1 /\ 2 * i + 1 \in 0..Two[n - k] - 1
    BY <1>2, <2>1, RowWidth
  <2>3. N[k + 1][i] = Pair(N[k][2 * i], N[k][2 * i + 1])
    BY <1>9, <2>1
  <2>4. ZH[k + 1] = Pair(ZH[k], ZH[k])
    BY <1>3, <2>1 DEF AreZeros
  <2> QED
    BY <2>2, <2>3, <2>4
<1> HIDE DEF T
<1>6. \A k \in 0..n : k \in T
  BY <1>2, <1>4, <1>5, UpTo
<1> QED
  BY <1>1, <1>6 DEF T

\* A tree over a run of 2^k leaves is a subtree of the tree over all.
LEMMA RowsWithin ==
    ASSUME NEW n \in Nat, NEW k \in Nat, k <= n, NEW c \in Nat,
           c % Two[k] = 0, c + Two[k] <= Two[n],
           NEW a, NEW b, \A p \in 0..Two[k] - 1 : b[p] = a[c + p]
    PROVE  Rows(b, k)[k][0] = Rows(a, n)[k][Shift(c, k)]
<1>1. PICK A, B : A = Rows(a, n) /\ B = Rows(b, k)
  OBVIOUS
<1> DEFINE T == {j \in 0..k : /\ Shift(c, j) + Two[k - j] <= Two[n - j]
                              /\ \A q \in 0..Two[k - j] - 1 : B[j][q] = A[j][Shift(c, j) + q]}
<1>2. 0 \in T
  <2>1. /\ n - 0 = n /\ k - 0 = k /\ 0 \in 0..k /\ A[0] = a /\ B[0] = b
        /\ Shift(c, 0) = c
    <3>1. A[0] = a /\ B[0] = b
      BY <1>1, RowsAt
    <3> QED
      BY <3>1, ShiftIs
  <2> QED
    BY <2>1
<1>3. \A j \in 0..k : j \in T /\ j < k => j + 1 \in T
  <2> SUFFICES ASSUME NEW j \in 0..k, j \in T, j < k PROVE j + 1 \in T
    OBVIOUS
  <2>1. j \in 0..k - 1 /\ j \in 0..n - 1 /\ j \in Nat /\ j + 1 \in 0..k
    OBVIOUS
  <2>2. PICK s, w, v : s = Shift(c, j + 1) /\ w = Two[k - (j + 1)] /\ v = Two[n - (j + 1)]
    OBVIOUS
  <2>3. /\ Two[k - j] = 2 * w /\ Two[n - j] = 2 * v /\ w \in Nat /\ v \in Nat
    BY <2>1, <2>2, RowWidth
  <2>4. Bit(c, j) = 0
    BY LowZeros
  <2>5. Shift(c, j) = 2 * s /\ s \in Nat
    BY <2>1, <2>2, <2>4, ShiftIs
  <2>6. s + w <= v
    BY <2>3, <2>5
  <2>7. ASSUME NEW q \in 0..w - 1 PROVE B[j + 1][q] = A[j + 1][s + q]
    <3>1. /\ q \in Nat /\ s + q \in 0..v - 1 /\ 2 * (s + q) = 2 * s + 2 * q
          /\ 2 * (s + q) + 1 = 2 * s + (2 * q + 1)
          /\ 2 * q \in 0..2 * w - 1 /\ 2 * q + 1 \in 0..2 * w - 1
      BY <2>3, <2>5, <2>6
    <3>2. B[j + 1][q] = Pair(B[j][2 * q], B[j][2 * q + 1])
      BY <1>1, <2>1, <2>2, RowsAt
    <3>3. A[j + 1][s + q] = Pair(A[j][2 * (s + q)], A[j][2 * (s + q) + 1])
      BY <1>1, <2>1, <2>2, <3>1, RowsAt
    <3>4. B[j][2 * q] = A[j][2 * s + 2 * q] /\ B[j][2 * q + 1] = A[j][2 * s + (2 * q + 1)]
      BY <2>3, <2>5, <3>1
    <3> QED
      BY <3>1, <3>2, <3>3, <3>4
  <2> QED
    BY <2>1, <2>2, <2>6, <2>7
<1> HIDE DEF T
<1>4. k \in T
  <2>1. k \in 0..k
    OBVIOUS
  <2> QED
    BY <1>2, <1>3, <2>1, UpTo
<1>5. k - k = 0 /\ Two[0] = 1 /\ Shift(c, k) \in Nat
  BY TwoIs, ShiftIs
<1>6. B[k][0] = A[k][Shift(c, k) + 0]
  BY <1>4, <1>5 DEF T
<1> QED
  BY <1>1, <1>5, <1>6

(***************************************************************************)
(* A batch is added: xs, a multiple of the batch, and then LV.             *)
(***************************************************************************)
Fits(xs, LV) ==
    xs \in Seq(Leaf) /\ LV \in Batches /\ Len(xs) % BATCH = 0 /\ Len(xs) <= MAX_COUNT
LeafRow(xs) == [i \in 0..Two[TREE_DEPTH] - 1 |-> IF i < Len(xs) THEN xs[i + 1] ELSE Z]

LEMMA FitsIs ==
    ASSUME NEW xs, NEW LV, Fits(xs, LV)
    PROVE  /\ Len(xs) \in Nat /\ Len(xs) % Two[K_LOG] = 0
           /\ Len(xs) + BATCH <= Two[TREE_DEPTH]
           /\ xs \o LV \in Seq(Leaf) /\ Len(xs \o LV) = Len(xs) + BATCH
           /\ \A i \in 1..Len(xs) : (xs \o LV)[i] = xs[i]
           /\ \A i \in 1..BATCH : (xs \o LV)[Len(xs) + i] = LV[i]
           /\ LV \in Seq(Leaf) /\ Len(LV) = BATCH
<1>1. xs \in Seq(Leaf) /\ LV \in [1..BATCH -> Leaf] /\ BATCH \in Nat
  BY ShapeAssumption, ShapeIs DEF Fits, BATCH
<1>2. LV \in Seq(Leaf) /\ Len(LV) = BATCH
  <2>1. DOMAIN LV = 1..BATCH
    BY <1>1
  <2>2. LV \in Seq(Leaf)
    BY <1>1
  <2> QED
    BY <1>1, <2>1, <2>2
<1>3. Len(xs) \in Nat /\ Len(xs) <= MAX_COUNT /\ Len(xs) % BATCH = 0
  BY <1>1 DEF Fits
<1>4. Len(xs) + BATCH <= Two[TREE_DEPTH] /\ Len(xs) % Two[K_LOG] = 0
  <2>1. Len(xs) + BATCH <= Two[TREE_DEPTH]
    BY <1>3, ShapeIs
  <2>2. BATCH = Two[K_LOG]
    BY ShapeIs
  <2> QED
    BY <1>3, <2>1, <2>2
<1>5. /\ xs \o LV \in Seq(Leaf) /\ Len(xs \o LV) = Len(xs) + BATCH
      /\ \A i \in 1..Len(xs) : (xs \o LV)[i] = xs[i]
      /\ \A i \in 1..BATCH : (xs \o LV)[Len(xs) + i] = LV[i]
  BY <1>1, <1>2
<1> QED
  BY <1>2, <1>3, <1>4, <1>5

LEMMA TreeIs ==
    ASSUME NEW xs
    PROVE  TreeOf(xs) = Rows(LeafRow(xs), TREE_DEPTH)
BY DEF TreeOf, LeafRow

\* The batch is a subtree of the tree.
LEMMA BatchInTree ==
    ASSUME NEW xs, NEW LV, Fits(xs, LV)
    PROVE  SubtreeNode(LV, 0, K_LOG) = TreeOf(xs \o LV)[K_LOG][Shift(Len(xs), K_LOG)]
<1>1. PICK n, d, k, a, b :
         /\ n = Len(xs) /\ d = TREE_DEPTH /\ k = K_LOG /\ a = LeafRow(xs \o LV)
         /\ b = [p \in 0..Two[K_LOG] - 1 |-> LV[0 + p + 1]]
  OBVIOUS
<1>2. n \in Nat /\ d \in Nat /\ k \in Nat /\ k <= d /\ n % Two[k] = 0 /\ n + Two[k] <= Two[d]
      /\ Two[k] \in Nat /\ BATCH = Two[k]
  <2>1. n \in Nat /\ n % Two[K_LOG] = 0 /\ n + BATCH <= Two[TREE_DEPTH]
    BY <1>1, FitsIs
  <2>2. BATCH = Two[k] /\ BATCH \in Nat /\ k \in Nat /\ d \in Nat /\ k <= d
    BY <1>1, ShapeIs
  <2> QED
    BY <1>1, <2>1, <2>2
<1>3. ASSUME NEW p \in 0..Two[k] - 1 PROVE b[p] = a[n + p]
  <2>1. /\ b[p] = LV[p + 1] /\ p + 1 \in 1..BATCH /\ n + p \in 0..Two[d] - 1
        /\ n + p < n + BATCH /\ (n + p) + 1 = n + (p + 1) /\ 0 + p + 1 = p + 1
    <3>1. b[p] = LV[0 + p + 1]
      BY <1>1
    <3>2. /\ n \in Nat /\ Two[k] \in Nat /\ BATCH = Two[k] /\ Two[d] \in Int
          /\ n + Two[k] <= Two[d]
      BY <1>1, <1>2, ShapeIs
    <3>3. /\ p + 1 \in 1..BATCH /\ n + p \in 0..Two[d] - 1
          /\ n + p < n + BATCH /\ (n + p) + 1 = n + (p + 1) /\ 0 + p + 1 = p + 1
      BY <3>2
    <3> QED
      BY <3>1, <3>3
  <2>2. a[n + p] = (xs \o LV)[(n + p) + 1]
    BY <1>1, <2>1, FitsIs DEF LeafRow
  <2> QED
    BY <1>1, <2>1, <2>2, FitsIs
<1>4. Rows(b, k)[k][0] = Rows(a, d)[k][Shift(n, k)]
  BY <1>2, <1>3, RowsWithin
<1> QED
  BY <1>1, <1>4, TreeIs DEF SubtreeNode

\* To the left of the batch the tree is as it was.
LEMMA OldNodes ==
    ASSUME NEW xs, NEW LV, Fits(xs, LV), NEW l \in 0..TREE_DEPTH,
           NEW i \in 0..Two[TREE_DEPTH - l] - 1, i < Shift(Len(xs), l)
    PROVE  TreeOf(xs \o LV)[l][i] = TreeOf(xs)[l][i]
<1>1. PICK n, d, a, b : n = Len(xs) /\ d = TREE_DEPTH /\ a = LeafRow(xs \o LV) /\ b = LeafRow(xs)
  OBVIOUS
<1>2. n \in Nat /\ d \in Nat /\ l \in Nat /\ Two[d] \in Nat /\ BATCH \in Nat
  <2>1. n \in Nat
    BY <1>1, FitsIs
  <2> QED
    BY <1>1, <2>1, ShapeIs
<1>3. ASSUME NEW j \in 0..Two[d] - 1, Shift(j, l) = i PROVE a[j] = b[j]
  <2>0. j \in Nat
    BY <1>2
  <2>1. j \in Nat /\ Shift(j, l) \in Nat /\ Shift(n, l) \in Nat
    BY <1>2, <2>0, ShiftIs
  <2>2. ~(n <= j)
    BY <1>1, <1>2, <1>3, <2>1, ShiftGrows
  <2>3. j < n /\ j < n + BATCH /\ j + 1 \in 1..n
    BY <1>2, <2>1, <2>2
  <2> QED
    BY <1>1, <1>3, <2>3, FitsIs DEF LeafRow
<1>4. SameLeaves(a, b, d, l, i)
  BY <1>3 DEF SameLeaves
<1>5. Rows(a, d)[l][i] = Rows(b, d)[l][i]
  <2>1. i \in 0..Two[d - l] - 1 /\ l \in 0..d /\ d \in Nat
    BY <1>1, <1>2
  <2> QED
    BY <1>4, <2>1, RowsAgree
<1> QED
  BY <1>1, <1>5, TreeIs

\* To the right of it there is nothing.
LEMMA NoNodes ==
    ASSUME NEW xs, NEW LV, Fits(xs, LV), NEW l \in K_LOG..TREE_DEPTH,
           NEW i \in 0..Two[TREE_DEPTH - l] - 1, i > Shift(Len(xs), l)
    PROVE  TreeOf(xs \o LV)[l][i] = ZH[l]
<1>1. PICK n, d, a : n = Len(xs) /\ d = TREE_DEPTH /\ a = LeafRow(xs \o LV)
  OBVIOUS
<1>2. /\ n \in Nat /\ d \in Nat /\ l \in Nat /\ l \in 0..d /\ Two[d] \in Nat
      /\ BATCH \in Nat \ {0} /\ BATCH = Two[K_LOG] /\ K_LOG \in Nat /\ K_LOG <= l
      /\ n % Two[K_LOG] = 0
  <2>1. n \in Nat /\ n % Two[K_LOG] = 0
    BY <1>1, FitsIs
  <2> QED
    BY <1>1, <2>1, ShapeIs
<1>3. ASSUME NEW j \in 0..Two[d] - 1, Shift(j, l) = i PROVE a[j] = NoLeaves[j]
  <2>0. /\ j \in Nat /\ n + BATCH - 1 \in n..n + BATCH - 1 /\ n + BATCH - 1 \in Nat
        /\ n + BATCH - 1 \in n..n + Two[K_LOG] - 1
    <3>1. n \in Nat /\ BATCH \in Nat \ {0} /\ Two[d] \in Nat /\ BATCH = Two[K_LOG]
      BY <1>2
    <3> QED
      BY <3>1
  <2>1. Shift(j, l) \in Nat /\ Shift(n, l) \in Nat
    BY <1>2, <2>0, ShiftIs
  <2>2. Shift(n + BATCH - 1, l) = Shift(n, l)
    BY <1>2, <2>0, SameAncestors
  <2>3. ~(j <= n + BATCH - 1)
    BY <1>1, <1>2, <1>3, <2>0, <2>1, <2>2, ShiftGrows
  <2>4. ~(j < n + BATCH)
    BY <1>2, <2>0, <2>3
  <2> QED
    BY <1>1, <1>3, <2>4, FitsIs DEF LeafRow, NoLeaves
<1>4. SameLeaves(a, NoLeaves, d, l, i)
  BY <1>3 DEF SameLeaves
<1>5. Rows(a, d)[l][i] = Rows(NoLeaves, d)[l][i]
  <2>1. i \in 0..Two[d - l] - 1 /\ l \in 0..d /\ d \in Nat
    BY <1>1, <1>2
  <2> QED
    BY <1>4, <2>1, RowsAgree
<1> QED
  BY <1>1, <1>2, <1>5, TreeIs, ZeroRows

\* What a frontier is, and the nodes from the batch to the root.
IsFrontier(fr, xs) ==
    \A l \in PathLevel :
       fr[l] = IF Bit(Len(xs), l) = 1 THEN TreeOf(xs)[l][Shift(Len(xs), l) - 1] ELSE Z
Joins(x, fr, n, l) == IF Bit(n, l - 1) = 1 THEN Pair(fr[l - 1], x) ELSE Pair(x, ZH[l - 1])
IsPath(v, LV, fr, n) ==
    /\ v[K_LOG] = SubtreeNode(LV, 0, K_LOG)
    /\ \A l \in K_LOG + 1..TREE_DEPTH : v[l] = Joins(v[l - 1], fr, n, l)

LEMMA PathInTree ==
    ASSUME NEW xs, NEW LV, Fits(xs, LV), NEW fr, IsFrontier(fr, xs),
           NEW v, IsPath(v, LV, fr, Len(xs))
    PROVE  \A l \in K_LOG..TREE_DEPTH : v[l] = TreeOf(xs \o LV)[l][Shift(Len(xs), l)]
<1>1. PICK n, d, N : n = Len(xs) /\ d = TREE_DEPTH /\ N = TreeOf(xs \o LV)
  OBVIOUS
<1>2. n \in Nat /\ d \in Nat /\ K_LOG \in Nat /\ K_LOG < d /\ n + BATCH <= Two[d]
      /\ BATCH \in Nat \ {0} /\ Two[d] \in Nat
  <2>1. n \in Nat /\ n + BATCH <= Two[TREE_DEPTH]
    BY <1>1, FitsIs
  <2> QED
    BY <1>1, <2>1, ShapeIs
<1>3. n \in 0..Two[d] - 1
  BY <1>2
<1> DEFINE T == {l \in K_LOG..d : v[l] = N[l][Shift(n, l)]}
<1>4. K_LOG \in T
  BY <1>1, <1>2, BatchInTree DEF IsPath
<1>5. \A k \in K_LOG..d : k \in T /\ k < d => k + 1 \in T
  <2> SUFFICES ASSUME NEW k \in K_LOG..d, k \in T, k < d PROVE k + 1 \in T
    OBVIOUS
  <2>1. /\ k \in Nat /\ k + 1 \in K_LOG + 1..d /\ k + 1 \in K_LOG..d /\ (k + 1) - 1 = k
        /\ k \in 0..d - 1 /\ k \in 0..d /\ k + 1 \in 0..d /\ k \in PathLevel
    BY <1>1, <1>2 DEF PathLevel
  <2>2. PICK i : i = Shift(n, k + 1)
    OBVIOUS
  <2>3. /\ i \in 0..Two[d - (k + 1)] - 1 /\ i \in Nat
        /\ Shift(n, k) = 2 * i + Bit(n, k) /\ Bit(n, k) \in {0, 1}
        /\ 2 * i \in 0..Two[d - k] - 1 /\ 2 * i + 1 \in 0..Two[d - k] - 1
    BY <1>2, <1>3, <2>1, <2>2, ShiftInRow, ShiftIs, RowWidth
  <2>4. N[k + 1][i] = Pair(N[k][2 * i], N[k][2 * i + 1])
    <3>1. N = Rows(LeafRow(xs \o LV), d)
      BY <1>1, TreeIs
    <3>2. \A m \in 0..d - 1 : \A p \in 0..Two[d - (m + 1)] - 1 :
             N[m + 1][p] = Pair(N[m][2 * p], N[m][2 * p + 1])
      <4>1. d \in Nat
        BY <1>2
      <4> QED
        BY <3>1, <4>1, RowsAt
    <3> QED
      BY <2>1, <2>3, <3>2
  <2>5. v[k + 1] = Joins(v[k], fr, n, k + 1)
    BY <1>1, <2>1 DEF IsPath
  <2>6. CASE Bit(n, k) = 1
    <3>1. Shift(n, k) = 2 * i + 1 /\ v[k] = N[k][2 * i + 1]
      BY <2>3, <2>6
    <3>2. fr[k] = TreeOf(xs)[k][2 * i]
      <4>1. (2 * i + 1) - 1 = 2 * i
        BY <2>3
      <4> QED
        BY <1>1, <2>1, <2>6, <3>1, <4>1 DEF IsFrontier
    <3>3. N[k][2 * i] = TreeOf(xs)[k][2 * i]
      <4>1. 2 * i < Shift(n, k)
        BY <2>3, <3>1
      <4> QED
        BY <1>1, <2>1, <2>3, <4>1, OldNodes
    <3>4. v[k + 1] = Pair(fr[k], v[k])
      BY <2>1, <2>5, <2>6 DEF Joins
    <3> QED
      BY <2>1, <2>2, <2>4, <3>1, <3>2, <3>3, <3>4
  <2>7. CASE Bit(n, k) = 0
    <3>1. Shift(n, k) = 2 * i /\ v[k] = N[k][2 * i] /\ 2 * i + 1 > Shift(n, k)
      BY <2>3, <2>7
    <3>2. N[k][2 * i + 1] = ZH[k]
      BY <1>1, <2>1, <2>3, <3>1, NoNodes
    <3>3. v[k + 1] = Pair(v[k], ZH[k])
      BY <2>1, <2>5, <2>7 DEF Joins
    <3> QED
      BY <2>1, <2>2, <2>4, <3>1, <3>2, <3>3
  <2> QED
    BY <2>3, <2>6, <2>7
<1> HIDE DEF T
<1>6. \A k \in K_LOG..d : k \in T
  BY <1>2, <1>4, <1>5, FromTo
<1> QED
  BY <1>1, <1>6 DEF T

\* Every level below l passes a carry on.
Carried(n, l) == \A j \in K_LOG..l - 1 : Bit(n, j) = 1

LEMMA AddBatch ==
    ASSUME NEW n \in Nat
    PROVE  \A l \in K_LOG..TREE_DEPTH :
              Shift(n + BATCH, l) = Shift(n, l) + (IF Carried(n, l) THEN 1 ELSE 0)
<1>1. K_LOG \in Nat /\ TREE_DEPTH \in Nat /\ K_LOG <= TREE_DEPTH /\ n + BATCH \in Nat
  BY ShapeIs
<1> DEFINE T == {l \in K_LOG..TREE_DEPTH :
                   /\ Carried(n, l) => Shift(n + BATCH, l) = Shift(n, l) + 1
                   /\ ~Carried(n, l) => Shift(n + BATCH, l) = Shift(n, l)}
<1>2. K_LOG \in T
  <2>1. Shift(n + BATCH, K_LOG) = Shift(n, K_LOG) + Two[K_LOG - K_LOG]
    <3>1. K_LOG \in 0..K_LOG /\ BATCH = Two[K_LOG]
      BY <1>1, ShapeIs
    <3> QED
      BY <1>1, <3>1, ShiftPlus
  <2>2. K_LOG - K_LOG = 0 /\ Two[0] = 1 /\ Carried(n, K_LOG) /\ K_LOG \in K_LOG..TREE_DEPTH
    BY <1>1, TwoIs DEF Carried
  <2> QED
    BY <2>1, <2>2
<1>3. \A k \in K_LOG..TREE_DEPTH : k \in T /\ k < TREE_DEPTH => k + 1 \in T
  <2> SUFFICES ASSUME NEW k \in K_LOG..TREE_DEPTH, k \in T, k < TREE_DEPTH PROVE k + 1 \in T
    OBVIOUS
  <2>1. k \in Nat /\ k + 1 \in K_LOG..TREE_DEPTH
    BY <1>1
  <2>2. /\ Shift(n, k + 1) = Shift(n, k) \div 2 /\ Shift(n, k) \in Nat
        /\ Shift(n, k) = 2 * Shift(n, k + 1) + Bit(n, k) /\ Bit(n, k) \in {0, 1}
        /\ Shift(n + BATCH, k + 1) = Shift(n + BATCH, k) \div 2 /\ Shift(n, k + 1) \in Nat
    BY <1>1, <2>1, ShiftIs
  <2>3. Carried(n, k + 1) <=> Carried(n, k) /\ Bit(n, k) = 1
    <3>1. \A j : j \in K_LOG..(k + 1) - 1 <=> j \in K_LOG..k - 1 \/ j = k
      BY <1>1
    <3> QED
      BY <3>1 DEF Carried
  <2>4. CASE Carried(n, k)
    <3>1. Shift(n + BATCH, k) = Shift(n, k) + 1
      BY <2>4
    <3> QED
      BY <2>1, <2>2, <2>3, <2>4, <3>1
  <2>5. CASE ~Carried(n, k)
    BY <2>1, <2>2, <2>3, <2>5
  <2> QED
    BY <2>4, <2>5
<1> HIDE DEF T
<1>4. \A k \in K_LOG..TREE_DEPTH : k \in T
  BY <1>1, <1>2, <1>3, FromTo
<1> QED
  <2> SUFFICES ASSUME NEW l \in K_LOG..TREE_DEPTH
               PROVE  Shift(n + BATCH, l) = Shift(n, l) + (IF Carried(n, l) THEN 1 ELSE 0)
    OBVIOUS
  <2>1. l \in T
    BY <1>4
  <2>2. l \in Nat
    BY <1>1
  <2>3. Shift(n, l) \in Nat
    BY <2>2, ShiftIs
  <2> QED
    BY <2>1, <2>3 DEF T

\* The frontier of the larger tree, from the smaller one's and the node that
\* enters the lowest level without a carry.
Advanced(fr, n, X) ==
    [l \in PathLevel |->
        IF ~Carried(n, l) THEN fr[l] ELSE IF Bit(n, l) = 1 THEN Z ELSE X]
Enters(n, l) == l \in PathLevel /\ Carried(n, l) /\ Bit(n, l) = 0

LEMMA FrontierAdvances ==
    ASSUME NEW xs, NEW LV, Fits(xs, LV), NEW fr, IsFrontier(fr, xs),
           NEW v, IsPath(v, LV, fr, Len(xs)),
           NEW X, \A l : Enters(Len(xs), l) => X = v[l]
    PROVE  IsFrontier(Advanced(fr, Len(xs), X), xs \o LV)
<1>1. PICK n, d, N, g : /\ n = Len(xs) /\ d = TREE_DEPTH /\ N = TreeOf(xs \o LV)
                        /\ g = Advanced(fr, Len(xs), X)
  OBVIOUS
<1>2. /\ n \in Nat /\ d \in Nat /\ K_LOG \in Nat /\ K_LOG < d /\ n + BATCH <= Two[d]
      /\ BATCH \in Nat \ {0} /\ Two[d] \in Nat /\ Len(xs \o LV) = n + BATCH
  <2>1. n \in Nat /\ n + BATCH <= Two[TREE_DEPTH] /\ Len(xs \o LV) = n + BATCH
    BY <1>1, FitsIs
  <2> QED
    BY <1>1, <2>1, ShapeIs
<1> SUFFICES ASSUME NEW l \in PathLevel
             PROVE  g[l] = IF Bit(n + BATCH, l) = 1 THEN N[l][Shift(n + BATCH, l) - 1] ELSE Z
  BY <1>1, <1>2 DEF IsFrontier
<1>3. /\ l \in Nat /\ l \in K_LOG..d /\ l \in 0..d /\ n \in 0..Two[d] - 1
  BY <1>1, <1>2 DEF PathLevel
<1>4. /\ g[l] = IF ~Carried(n, l) THEN fr[l] ELSE IF Bit(n, l) = 1 THEN Z ELSE X
      /\ fr[l] = IF Bit(n, l) = 1 THEN TreeOf(xs)[l][Shift(n, l) - 1] ELSE Z
  BY <1>1 DEF Advanced, IsFrontier
<1>5. Shift(n + BATCH, l) = Shift(n, l) + (IF Carried(n, l) THEN 1 ELSE 0)
  BY <1>1, <1>2, <1>3, AddBatch
<1>6. /\ Shift(n, l) \in Nat /\ Bit(n, l) \in {0, 1} /\ Shift(n, l) \in 0..Two[d - l] - 1
      /\ Bit(n, l) = Shift(n, l) % 2 /\ Bit(n + BATCH, l) = Shift(n + BATCH, l) % 2
  BY <1>2, <1>3, ShiftIs, ShiftInRow DEF Bit
<1>7. CASE ~Carried(n, l)
  <2>1. Shift(n + BATCH, l) = Shift(n, l) /\ Bit(n + BATCH, l) = Bit(n, l) /\ g[l] = fr[l]
    BY <1>4, <1>5, <1>6, <1>7
  <2>2. CASE Bit(n, l) = 1
    <3>1. Shift(n, l) - 1 \in 0..Two[d - l] - 1 /\ Shift(n, l) - 1 < Shift(n, l)
      <4>1. Shift(n, l) # 0
        BY <1>6, <2>2
      <4>2. d - l \in Nat
        BY <1>2, <1>3
      <4>3. Two[d - l] \in Nat
        BY <4>2, TwoIs
      <4>4. Shift(n, l) \in Nat /\ Shift(n, l) <= Two[d - l] - 1
        BY <1>6
      <4> QED
        BY <4>1, <4>3, <4>4
    <3>2. N[l][Shift(n, l) - 1] = TreeOf(xs)[l][Shift(n, l) - 1]
      BY <1>1, <1>3, <3>1, OldNodes
    <3> QED
      BY <1>4, <2>1, <2>2, <3>2
  <2>3. CASE Bit(n, l) = 0
    BY <1>4, <2>1, <2>3
  <2> QED
    BY <1>6, <2>2, <2>3
<1>8. CASE Carried(n, l) /\ Bit(n, l) = 0
  <2>1. Bit(n + BATCH, l) = 1 /\ Shift(n + BATCH, l) - 1 = Shift(n, l)
    BY <1>5, <1>6, <1>8
  <2>2. g[l] = v[l]
    BY <1>1, <1>4, <1>8 DEF Enters
  <2>3. v[l] = N[l][Shift(n, l)]
    BY <1>1, <1>3, PathInTree
  <2> QED
    BY <2>1, <2>2, <2>3
<1>9. CASE Carried(n, l) /\ Bit(n, l) = 1
  <2>1. Bit(n + BATCH, l) = 0
    BY <1>5, <1>6, <1>9
  <2> QED
    BY <1>4, <1>9, <2>1
<1> QED
  BY <1>6, <1>7, <1>8, <1>9

(***************************************************************************)
(* The workers' machine.  A node may be anything, so a stack is a sequence *)
(* over some set or other.                                                 *)
(***************************************************************************)
IsSeq(s) == \E U : s \in Seq(U)

IsTrace(h, start, p, m) == h[0] = start /\ \A l \in 1..m : h[l] = Exec(h[l - 1], p[l])

LEMMA TraceIs ==
    ASSUME NEW start, NEW p, Len(p) \in Nat
    PROVE  IsTrace(Trace(start, p), start, p, Len(p))
<1> DEFINE T == {m \in 0..Len(p) : \E h : IsTrace(h, start, p, m)}
           Eqn(f) == f = [l \in 0..Len(p) |-> 
              IF l = 0 THEN start ELSE Exec(f[l - 1], p[l])]
<1>1. Len(p) \in Nat
  OBVIOUS
<1>2. 0 \in T
  <2>1. IsTrace([l \in 0..0 |-> start], start, p, 0)
    BY <1>1 DEF IsTrace
  <2> QED
    BY <1>1, <2>1
<1>3. \A k \in 0..Len(p) : k \in T /\ k < Len(p) => k + 1 \in T
  <2> SUFFICES ASSUME NEW k \in 0..Len(p), k \in T, k < Len(p) PROVE k + 1 \in T
    OBVIOUS
  <2>1. PICK h : IsTrace(h, start, p, k)
    OBVIOUS
  <2>2. PICK g : g = Extend(h, 0, k, Exec(h[k], p[k + 1]))
    OBVIOUS
  <2>3. /\ k \in 0..k /\ 0 \in 0..k /\ k + 1 \in 0..Len(p) /\ (k + 1) - 1 = k
        /\ \A l \in 1..k + 1 : l - 1 \in 0..k /\ (l = k + 1 \/ (l \in 1..k /\ l \in 0..k))
    BY <1>1
  <2>4. (\A l \in 0..k : g[l] = h[l]) /\ g[k + 1] = Exec(h[k], p[k + 1])
    BY <1>1, <2>2, Extended
  <2>5. IsTrace(g, start, p, k + 1)
    BY <2>1, <2>3, <2>4 DEF IsTrace
  <2> QED
    BY <2>3, <2>5
<1> HIDE DEF T
<1>4. PICK h : IsTrace(h, start, p, Len(p))
  <2>1. Len(p) \in 0..Len(p)
    BY <1>1
  <2>2. Len(p) \in T
    BY <1>1, <1>2, <1>3, <2>1, FromTo
  <2> QED
    BY <2>2 DEF T
<1>5. Eqn([l \in 0..Len(p) |-> h[l]])
  <2>1. PICK f : f = [l \in 0..Len(p) |-> h[l]]
    OBVIOUS
  <2>2. \A l \in 0..Len(p) : f[l] = h[l] /\ (l # 0 => l - 1 \in 0..Len(p) /\ l \in 1..Len(p))
    BY <1>1, <2>1
  <2>3. f = [l \in 0..Len(p) |-> IF l = 0 THEN start ELSE Exec(f[l - 1], p[l])]
    BY <1>4, <2>1, <2>2 DEF IsTrace
  <2>4. Eqn(f)
    BY <2>3
  <2> HIDE DEF Eqn
  <2> QED
    BY <2>1, <2>4
<1>6. Eqn(Trace(start, p))
  <2>1. Trace(start, p) = CHOOSE f : Eqn(f)
    BY DEF Trace
  <2> HIDE DEF Eqn
  <2> QED
    BY <1>5, <2>1
<1>7. \A l \in 0..Len(p) :
         Trace(start, p)[l] =
           IF l = 0 THEN start ELSE Exec(Trace(start, p)[l - 1], p[l])
  BY <1>6
<1>8. 0 \in 0..Len(p) /\ \A l \in 1..Len(p) : l \in 0..Len(p) /\ l # 0
  BY <1>1
<1> QED
  BY <1>7, <1>8 DEF IsTrace

LEMMA RunIs ==
    ASSUME NEW start, NEW p, Len(p) \in Nat, NEW h, IsTrace(h, start, p, Len(p))
    PROVE  RunFrom(start, p) = h[Len(p)]
<1>1. PICK n, g : n = Len(p) /\ g = Trace(start, p)
  OBVIOUS
<1>2. IsTrace(g, start, p, n) /\ IsTrace(h, start, p, n) /\ n \in Nat
  BY <1>1, TraceIs
<1> DEFINE T == {j \in 0..n : g[j] = h[j]}
<1>3. 0 \in T
  BY <1>2 DEF IsTrace
<1>4. \A k \in 0..n : k \in T /\ k < n => k + 1 \in T
  <2> SUFFICES ASSUME NEW k \in 0..n, k \in T, k < n PROVE k + 1 \in T
    OBVIOUS
  <2>1. k + 1 \in 1..n /\ k + 1 \in 0..n /\ (k + 1) - 1 = k
    BY <1>2
  <2>2. g[k + 1] = Exec(g[k], p[k + 1]) /\ h[k + 1] = Exec(h[k], p[k + 1])
    BY <1>2, <2>1 DEF IsTrace
  <2> QED
    BY <2>1, <2>2
<1> HIDE DEF T
<1>5. n \in T
  <2>1. n \in 0..n
    BY <1>2
  <2> QED
    BY <1>2, <1>3, <1>4, <2>1, UpTo
<1> QED
  BY <1>1, <1>5 DEF T, RunFrom

LEMMA Sequences ==
    /\ \A s : IsSeq(s) => Len(s) \in Nat
    /\ \A s, x : IsSeq(s) => IsSeq(Append(s, x))
    /\ IsSeq(<<>>) /\ \A x : IsSeq(<<x>>)
    /\ \A p, q : IsSeq(p) /\ IsSeq(q) => IsSeq(p \o q)
<1>1. ASSUME NEW s, IsSeq(s), NEW x PROVE Len(s) \in Nat /\ IsSeq(Append(s, x))
  <2>1. PICK U : s \in Seq(U)
    BY <1>1 DEF IsSeq
  <2>2. s \in Seq(U \cup {x}) /\ x \in U \cup {x}
    BY <2>1
  <2>3. Append(s, x) \in Seq(U \cup {x})
    BY <2>2
  <2> QED
    BY <2>1, <2>3 DEF IsSeq
<1>2. ASSUME NEW p, IsSeq(p), NEW q, IsSeq(q) PROVE IsSeq(p \o q)
  <2>1. PICK U, V : p \in Seq(U) /\ q \in Seq(V)
    BY <1>2 DEF IsSeq
  <2>2. p \in Seq(U \cup V) /\ q \in Seq(U \cup V)
    BY <2>1
  <2>3. p \o q \in Seq(U \cup V)
    BY <2>2
  <2> QED
    BY <2>3 DEF IsSeq
<1>3. IsSeq(<<>>)
  <2>1. <<>> \in Seq({})
    OBVIOUS
  <2> QED
    BY <2>1 DEF IsSeq
<1>4. ASSUME NEW x PROVE IsSeq(<<x>>)
  <2>1. <<x>> \in Seq({x})
    OBVIOUS
  <2> QED
    BY <2>1 DEF IsSeq
<1> QED
  BY <1>1, <1>2, <1>3, <1>4

\* A program and then another.
LEMMA RunJoined ==
    ASSUME NEW start, NEW p, IsSeq(p), NEW q, IsSeq(q)
    PROVE  IsSeq(p \o q) /\ RunFrom(start, p \o q) = RunFrom(RunFrom(start, p), q)
<1>1. PICK n, m, r, h : /\ n = Len(p) /\ m = Len(q) /\ r = p \o q /\ h = Trace(start, p \o q)
  OBVIOUS
<1>2. /\ IsSeq(r) /\ n \in Nat /\ m \in Nat /\ Len(r) = n + m
      /\ \A i \in 1..n : r[i] = p[i]
      /\ \A i \in 1..m : r[n + i] = q[i]
  <2>1. PICK U, V : p \in Seq(U) /\ q \in Seq(V)
    BY DEF IsSeq
  <2>2. p \in Seq(U \cup V) /\ q \in Seq(U \cup V)
    BY <2>1
  <2>3. /\ Len(p \o q) = Len(p) + Len(q)
        /\ \A i \in 1..Len(p) : (p \o q)[i] = p[i]
        /\ \A i \in 1..Len(q) : (p \o q)[Len(p) + i] = q[i]
    BY <2>2
  <2> QED
    BY <1>1, <2>3, Sequences
<1>3. IsTrace(h, start, r, n + m) /\ RunFrom(start, r) = h[n + m]
  <2>1. Len(r) \in Nat
    BY <1>2
  <2>2. IsTrace(Trace(start, r), start, r, Len(r))
    BY <2>1, TraceIs
  <2> QED
    BY <1>1, <1>2, <2>2 DEF RunFrom
<1>4. RunFrom(start, p) = h[n]
  <2>1. \A l \in 1..n : l \in 1..n + m
    BY <1>2
  <2>2. IsTrace(h, start, p, n)
    BY <1>2, <1>3, <2>1 DEF IsTrace
  <2> QED
    BY <1>1, <1>2, <2>2, RunIs
<1>5. RunFrom(h[n], q) = h[n + m]
  <2> DEFINE g == [j \in 0..m |-> h[n + j]]
  <2>1. g[0] = h[n] /\ g[m] = h[n + m]
    BY <1>2
  <2>2. ASSUME NEW l \in 1..m PROVE g[l] = Exec(g[l - 1], q[l])
    <3>1. /\ n + l \in 1..n + m /\ (n + l) - 1 = n + (l - 1) /\ l - 1 \in 0..m /\ l \in 0..m
      BY <1>2
    <3>2. h[n + l] = Exec(h[n + (l - 1)], q[l])
      BY <1>2, <1>3, <3>1 DEF IsTrace
    <3> QED
      BY <3>1, <3>2
  <2> HIDE DEF g
  <2>3. IsTrace(g, h[n], q, m)
    BY <2>1, <2>2 DEF IsTrace
  <2> QED
    BY <1>1, <1>2, <2>1, <2>3, RunIs
<1> QED
  BY <1>1, <1>2, <1>3, <1>4, <1>5

LEMMA RunOne ==
    ASSUME NEW start, NEW i
    PROVE  RunFrom(start, <<i>>) = Exec(start, i)
<1> DEFINE h == [j \in 0..1 |-> IF j = 0 THEN start ELSE Exec(start, i)]
<1>1. h[0] = start /\ h[1] = Exec(start, i)
  OBVIOUS
<1>2. Len(<<i>>) = 1 /\ <<i>>[1] = i /\ \A l \in 1..1 : l = 1 /\ l - 1 = 0
  OBVIOUS
<1> HIDE DEF h
<1>3. IsTrace(h, start, <<i>>, 1)
  BY <1>1, <1>2 DEF IsTrace
<1> QED
  BY <1>1, <1>2, <1>3, RunIs

LEMMA RunNothing ==
    ASSUME NEW start
    PROVE  RunFrom(start, <<>>) = start
<1> DEFINE h == [j \in 0..0 |-> start]
<1>1. Len(<<>>) = 0 /\ h[0] = start /\ IsTrace(h, start, <<>>, 0)
  BY DEF IsTrace
<1> HIDE DEF h
<1> QED
  BY <1>1, RunIs

LEMMA RunFailed ==
    ASSUME NEW p, IsSeq(p)
    PROVE  RunFrom(Failed, p) = Failed
<1>1. PICK n : n = Len(p) /\ n \in Nat
  BY Sequences
<1>2. \A i : Exec(Failed, i) = Failed
  BY DEF Exec, Failed
<1> DEFINE h == [j \in 0..n |-> Failed]
<1>3. \A j \in 0..n : h[j] = Failed
  OBVIOUS
<1> HIDE DEF h
<1>4. \A l \in 1..n : l - 1 \in 0..n /\ l \in 0..n
  BY <1>1
<1>5. 0 \in 0..n /\ n \in 0..n
  BY <1>1
<1>6. IsTrace(h, Failed, p, n)
  BY <1>2, <1>3, <1>4, <1>5 DEF IsTrace
<1> QED
  BY <1>1, <1>3, <1>5, <1>6, RunIs

\* What each instruction does to a stack.
LEMMA Stacks ==
    ASSUME NEW s, IsSeq(s), NEW x, NEW y
    PROVE  LET t == Append(Append(s, x), y)
           IN  /\ Len(Append(s, x)) = Len(s) + 1 /\ Append(s, x)[Len(s) + 1] = x
               /\ SubSeq(Append(s, x), 1, Len(s)) = s
               /\ Len(t) = Len(s) + 2 /\ t[Len(s) + 1] = x /\ t[Len(s) + 2] = y
               /\ SubSeq(t, 1, Len(s)) = s
<1>1. PICK V : s \in Seq(V)
  BY DEF IsSeq
<1>2. PICK U : U = V \cup {x, y}
  OBVIOUS
<1>3. s \in Seq(U) /\ x \in U /\ y \in U
  BY <1>1, <1>2
<1>4. PICK t, n : t = Append(Append(s, x), y) /\ n = Len(s)
  OBVIOUS
<1>5. /\ n \in Nat /\ Append(s, x) \in Seq(U) /\ t \in Seq(U)
      /\ Len(Append(s, x)) = n + 1 /\ Len(t) = n + 2
      /\ Append(s, x)[n + 1] = x /\ t[n + 1] = x /\ t[n + 2] = y
      /\ \A i \in 1..n : Append(s, x)[i] = s[i] /\ t[i] = s[i]
  BY <1>3, <1>4
<1>6. SubSeq(Append(s, x), 1, n) = s
  <2>1. SubSeq(Append(s, x), 1, n) = [i \in 1..n |-> Append(s, x)[i]]
    BY <1>5
  <2>2. s = [i \in 1..n |-> s[i]]
    BY <1>3, <1>4
  <2> QED
    BY <1>5, <2>1, <2>2
<1>7. SubSeq(t, 1, n) = s
  <2>1. SubSeq(t, 1, n) = [i \in 1..n |-> t[i]]
    BY <1>5
  <2>2. s = [i \in 1..n |-> s[i]]
    BY <1>3, <1>4
  <2> QED
    BY <1>5, <2>1, <2>2
<1> QED
  BY <1>4, <1>5, <1>6, <1>7

LEMMA RunLit ==
    ASSUME NEW s, NEW x
    PROVE  RunFrom(Works(s), Lit(x)) = Works(Append(s, x)) /\ IsSeq(Lit(x))
<1>1. PICK i : i = [op |-> "lit", node |-> x]
  OBVIOUS
<1>2. Lit(x) = <<i>> /\ i.op = "lit" /\ i.node = x
  BY <1>1 DEF Lit
<1>3. Exec(Works(s), i) = Works(Append(s, x))
  BY <1>2 DEF Exec, Works, Failed
<1> QED
  BY <1>2, <1>3, RunOne, Sequences

LEMMA RunComp ==
    ASSUME NEW s, IsSeq(s), NEW x, NEW y
    PROVE  /\ RunFrom(Works(Append(Append(s, x), y)), Comp) = Works(Append(s, Pair(x, y)))
           /\ IsSeq(Comp)
<1>1. PICK i, t, n : i = [op |-> "compress"] /\ t = Append(Append(s, x), y) /\ n = Len(s)
  OBVIOUS
<1>2. Comp = <<i>> /\ i.op = "compress"
  BY <1>1 DEF Comp
<1>3. /\ n \in Nat /\ Len(t) = n + 2 /\ t[n + 1] = x /\ t[n + 2] = y /\ SubSeq(t, 1, n) = s
  BY <1>1, Stacks, Sequences
<1>4. (n + 2) - 2 = n /\ (n + 2) - 1 = n + 1 /\ ~(n + 2 < 2)
  BY <1>3
<1>5. Exec(Works(t), i) = Works(Append(s, Pair(x, y)))
  BY <1>2, <1>3, <1>4 DEF Exec, Works, Failed
<1> QED
  BY <1>1, <1>2, <1>5, RunOne, Sequences

LEMMA RunSwap ==
    ASSUME NEW s, IsSeq(s), NEW x, NEW y
    PROVE  /\ RunFrom(Works(Append(Append(s, x), y)), Swap) = Works(Append(Append(s, y), x))
           /\ IsSeq(Swap)
<1>1. PICK i, t, n : i = [op |-> "swap"] /\ t = Append(Append(s, x), y) /\ n = Len(s)
  OBVIOUS
<1>2. Swap = <<i>> /\ i.op = "swap"
  BY <1>1 DEF Swap
<1>3. /\ n \in Nat /\ Len(t) = n + 2 /\ t[n + 1] = x /\ t[n + 2] = y /\ SubSeq(t, 1, n) = s
  BY <1>1, Stacks, Sequences
<1>4. (n + 2) - 2 = n /\ (n + 2) - 1 = n + 1 /\ ~(n + 2 < 2)
  BY <1>3
<1>5. Exec(Works(t), i) = Works(Append(Append(s, y), x))
  BY <1>2, <1>3, <1>4 DEF Exec, Works, Failed
<1> QED
  BY <1>1, <1>2, <1>5, RunOne, Sequences

LEMMA RunCheck ==
    ASSUME NEW s, IsSeq(s), NEW x, NEW y
    PROVE  /\ RunFrom(Works(Append(s, x)), Check(y)) = IF x = y THEN Works(s) ELSE Failed
           /\ IsSeq(Check(y))
<1>1. PICK i, t, n : i = [op |-> "check", node |-> y] /\ t = Append(s, x) /\ n = Len(s)
  OBVIOUS
<1>2. Check(y) = <<i>> /\ i.op = "check" /\ i.node = y
  BY <1>1 DEF Check
<1>3. n \in Nat /\ Len(t) = n + 1 /\ t[n + 1] = x /\ SubSeq(t, 1, n) = s
  BY <1>1, Stacks, Sequences
<1>4. (n + 1) - 1 = n /\ ~(n + 1 < 1)
  BY <1>3
<1>5. Exec(Works(t), i) = IF x = y THEN Works(s) ELSE Failed
  BY <1>2, <1>3, <1>4 DEF Exec, Works, Failed
<1> QED
  BY <1>1, <1>2, <1>5, RunOne, Sequences

(***************************************************************************)
(* The programs of the workers.                                            *)
(***************************************************************************)
Pushes(p, x) == IsSeq(p) /\ \A s : IsSeq(s) => RunFrom(Works(s), p) = Works(Append(s, x))

LEMMA PushLit ==
    ASSUME NEW x
    PROVE  Pushes(Lit(x), x)
BY RunLit DEF Pushes

LEMMA PushPair ==
    ASSUME NEW p, NEW q, NEW x, NEW y, Pushes(p, x), Pushes(q, y)
    PROVE  Pushes(p \o q \o Comp, Pair(x, y))
<1>1. IsSeq(p) /\ IsSeq(q) /\ IsSeq(p \o q) /\ IsSeq(Comp) /\ IsSeq(p \o q \o Comp)
  <2>1. IsSeq(<<>>)
    BY Sequences
  <2> QED
    BY <2>1, RunComp, Sequences DEF Pushes
<1>2. ASSUME NEW s, IsSeq(s)
      PROVE  RunFrom(Works(s), p \o q \o Comp) = Works(Append(s, Pair(x, y)))
  <2>1. IsSeq(Append(s, x))
    BY <1>2, Sequences
  <2>2. RunFrom(Works(s), p) = Works(Append(s, x))
    BY <1>2 DEF Pushes
  <2>3. RunFrom(Works(Append(s, x)), q) = Works(Append(Append(s, x), y))
    BY <2>1 DEF Pushes
  <2>4. RunFrom(Works(s), p \o q) = Works(Append(Append(s, x), y))
    BY <1>1, <2>2, <2>3, RunJoined
  <2>5. RunFrom(Works(Append(Append(s, x), y)), Comp) = Works(Append(s, Pair(x, y)))
    BY <1>2, RunComp
  <2> QED
    BY <1>1, <2>4, <2>5, RunJoined
<1> QED
  BY <1>1, <1>2 DEF Pushes

\* The code of a subtree, one level from the other, runs like its nodes.
JoinedCode(row, n, l) == [i \in 0..Two[n - l] - 1 |-> row[2 * i] \o row[2 * i + 1] \o Comp]
CodeRow(LV, i, k) == [p \in 0..Two[k] - 1 |-> Lit(LV[i + p + 1])]
IsCode(h, LV, i, k, m) ==
    h[0] = CodeRow(LV, i, k) /\ \A l \in 1..m : h[l] = JoinedCode(h[l - 1], k, l)

LEMMA CodeIs ==
    ASSUME NEW LV, NEW i, NEW d \in Nat
    PROVE  IsCode(SubtreeCode(LV, i, d), LV, i, d, d)
<1> DEFINE T == {m \in 0..d : \E h : IsCode(h, LV, i, d, m)}
           Eqn(f) == f = [l \in 0..d |-> 
              IF l = 0 THEN [p \in 0..Two[d] - 1 |-> Lit(LV[i + p + 1])]
              ELSE [p \in 0..Two[d - l] - 1 |-> f[l - 1][2 * p] \o f[l - 1][2 * p + 1] \o Comp]]
<1>1. d \in Nat
  OBVIOUS
<1>2. 0 \in T
  <2>1. IsCode([l \in 0..0 |-> CodeRow(LV, i, d)], LV, i, d, 0)
    BY <1>1 DEF IsCode
  <2> QED
    BY <1>1, <2>1
<1>3. \A k \in 0..d : k \in T /\ k < d => k + 1 \in T
  <2> SUFFICES ASSUME NEW k \in 0..d, k \in T, k < d PROVE k + 1 \in T
    OBVIOUS
  <2>1. PICK h : IsCode(h, LV, i, d, k)
    OBVIOUS
  <2>2. PICK g : g = Extend(h, 0, k, JoinedCode(h[k], d, k + 1))
    OBVIOUS
  <2>3. /\ k \in 0..k /\ 0 \in 0..k /\ k + 1 \in 0..d /\ (k + 1) - 1 = k
        /\ \A l \in 1..k + 1 : l - 1 \in 0..k /\ (l = k + 1 \/ (l \in 1..k /\ l \in 0..k))
    BY <1>1
  <2>4. (\A l \in 0..k : g[l] = h[l]) /\ g[k + 1] = JoinedCode(h[k], d, k + 1)
    BY <1>1, <2>2, Extended
  <2>5. IsCode(g, LV, i, d, k + 1)
    BY <2>1, <2>3, <2>4 DEF IsCode
  <2> QED
    BY <2>3, <2>5
<1> HIDE DEF T
<1>4. PICK h : IsCode(h, LV, i, d, d)
  <2>1. d \in 0..d
    BY <1>1
  <2>2. d \in T
    BY <1>1, <1>2, <1>3, <2>1, FromTo
  <2> QED
    BY <2>2 DEF T
<1>5. Eqn([l \in 0..d |-> h[l]])
  <2>1. PICK f : f = [l \in 0..d |-> h[l]]
    OBVIOUS
  <2>2. \A l \in 0..d : f[l] = h[l] /\ (l # 0 => l - 1 \in 0..d /\ l \in 1..d)
    BY <1>1, <2>1
  <2>3. f = [l \in 0..d |-> IF l = 0 THEN CodeRow(LV, i, d) ELSE JoinedCode(f[l - 1], d, l)]
    BY <1>4, <2>1, <2>2 DEF IsCode
  <2>4. Eqn(f)
    BY <2>3 DEF CodeRow, JoinedCode
  <2> HIDE DEF Eqn
  <2> QED
    BY <2>1, <2>4
<1>6. Eqn(SubtreeCode(LV, i, d))
  <2>1. SubtreeCode(LV, i, d) = CHOOSE f : Eqn(f)
    BY DEF SubtreeCode
  <2> HIDE DEF Eqn
  <2> QED
    BY <1>5, <2>1
<1>7. \A l \in 0..d :
         SubtreeCode(LV, i, d)[l] =
           IF l = 0 THEN CodeRow(LV, i, d) ELSE JoinedCode(SubtreeCode(LV, i, d)[l - 1], d, l)
  BY <1>6 DEF CodeRow, JoinedCode
<1>8. 0 \in 0..d /\ \A l \in 1..d : l \in 0..d /\ l # 0
  BY <1>1
<1> QED
  BY <1>7, <1>8 DEF IsCode

LEMMA SubtreePushes ==
    ASSUME NEW LV, NEW i, NEW k \in Nat
    PROVE  Pushes(Subtree(LV, i, k), SubtreeNode(LV, i, k))
<1>1. PICK C, b, N : /\ C = SubtreeCode(LV, i, k) /\ N = Rows(b, k)
                     /\ b = [p \in 0..Two[k] - 1 |-> LV[i + p + 1]]
  OBVIOUS
<1>2. IsCode(C, LV, i, k, k)
  BY <1>1, CodeIs
<1> DEFINE T == {l \in 0..k : \A p \in 0..Two[k - l] - 1 : Pushes(C[l][p], N[l][p])}
<1>3. 0 \in T
  <2>1. N[0] = b /\ k - 0 = k /\ 0 \in 0..k /\ C[0] = CodeRow(LV, i, k)
    BY <1>1, <1>2, RowsAt DEF IsCode
  <2>2. ASSUME NEW p \in 0..Two[k] - 1 PROVE Pushes(C[0][p], N[0][p])
    BY <1>1, <2>1, PushLit DEF CodeRow
  <2> QED
    BY <2>1, <2>2
<1>4. \A j \in 0..k : j \in T /\ j < k => j + 1 \in T
  <2> SUFFICES ASSUME NEW j \in 0..k, j \in T, j < k PROVE j + 1 \in T
    OBVIOUS
  <2>1. j \in 0..k - 1 /\ j + 1 \in 1..k /\ j + 1 \in 0..k /\ (j + 1) - 1 = j
    OBVIOUS
  <2>2. ASSUME NEW p \in 0..Two[k - (j + 1)] - 1 PROVE Pushes(C[j + 1][p], N[j + 1][p])
    <3>1. 2 * p \in 0..Two[k - j] - 1 /\ 2 * p + 1 \in 0..Two[k - j] - 1
      BY <2>1, RowWidth
    <3>2. N[j + 1][p] = Pair(N[j][2 * p], N[j][2 * p + 1])
      BY <1>1, <2>1, RowsAt
    <3>3. C[j + 1][p] = C[j][2 * p] \o C[j][2 * p + 1] \o Comp
      <4>1. C[j + 1] = JoinedCode(C[j], k, j + 1)
        BY <1>2, <2>1 DEF IsCode
      <4> QED
        BY <4>1 DEF JoinedCode
    <3>4. Pushes(C[j][2 * p], N[j][2 * p]) /\ Pushes(C[j][2 * p + 1], N[j][2 * p + 1])
      BY <3>1
    <3> QED
      BY <3>2, <3>3, <3>4, PushPair
  <2> QED
    BY <2>1, <2>2
<1> HIDE DEF T
<1>5. k \in T
  <2>1. k \in 0..k
    OBVIOUS
  <2> QED
    BY <1>3, <1>4, <2>1, UpTo
<1>6. k - k = 0 /\ 0 \in 0..Two[0] - 1
  BY TwoIs
<1>7. Pushes(C[k][0], N[k][0])
  BY <1>5, <1>6 DEF T
<1> QED
  BY <1>1, <1>7 DEF Subtree, SubtreeNode

\* The root of a batch, from the nodes workers 1 and 2 compute.
LEMMA QuartersOfBatch ==
    ASSUME NEW LV
    PROVE  SubtreeNode(LV, 0, K_LOG) =
             Pair(SubtreeNode(LV, 0, K_LOG - 1),
                  Pair(SubtreeNode(LV, Two[K_LOG - 1], K_LOG - 2),
                       SubtreeNode(LV, 3 * Two[K_LOG - 2], K_LOG - 2)))
<1>1. PICK k, a, N, t : /\ k = K_LOG /\ a = [p \in 0..Two[k] - 1 |-> LV[0 + p + 1]]
                        /\ N = Rows(a, k) /\ t = Two[k - 2]
  OBVIOUS
<1>2. /\ k \in Nat /\ k - 1 \in Nat /\ k - 2 \in Nat /\ k - 1 <= k /\ k - 2 <= k
      /\ (k - 2) + 1 = k - 1 /\ (k - 1) + 1 = k /\ k - 1 \in 0..k - 1 /\ k - 2 \in 0..k - 1
      /\ k - k = 0 /\ k - (k - 1) = 1
  BY <1>1, ShapeIs
<1>3. /\ t \in Nat \ {0} /\ Two[k - 1] = 2 * t /\ Two[k] = 2 * (2 * t)
      /\ Two[0] = 1 /\ Two[1] = 2
  <2>1. t \in Nat \ {0} /\ Two[k - 1] = 2 * t
    <3>1. Two[k - 2] \in Nat \ {0} /\ Two[(k - 2) + 1] = 2 * Two[k - 2]
      BY <1>2, TwoIs
    <3> QED
      BY <1>1, <1>2, <3>1
  <2>2. Two[k] = 2 * Two[k - 1]
    BY <1>2, TwoIs
  <2>3. Two[0] = 1 /\ Two[0 + 1] = 2 * Two[0] /\ 0 + 1 = 1
    BY TwoIs
  <2> QED
    BY <2>1, <2>2, <2>3
<1> DEFINE Part(c, j) == /\ j \in Nat /\ j <= k /\ c \in Nat
                         /\ c % Two[j] = 0 /\ c + Two[j] <= Two[k]
<1>4. ASSUME NEW c, NEW j, Part(c, j)
      PROVE  SubtreeNode(LV, c, j) = N[j][Shift(c, j)]
  <2>1. PICK b : b = [p \in 0..Two[j] - 1 |-> LV[c + p + 1]]
    OBVIOUS
  <2>2. ASSUME NEW p \in 0..Two[j] - 1 PROVE b[p] = a[c + p]
    <3>1. Two[j] \in Nat /\ Two[k] \in Nat
      <4>1. j \in Nat
        BY <1>4
      <4> QED
        BY <1>2, <4>1, TwoIs
    <3>2. c + p \in 0..Two[k] - 1 /\ 0 + (c + p) + 1 = c + p + 1
      BY <1>4, <3>1
    <3>3. a[c + p] = LV[0 + (c + p) + 1]
      BY <1>1, <3>2
    <3> QED
      BY <2>1, <3>2, <3>3
  <2>3. Rows(b, j)[j][0] = Rows(a, k)[j][Shift(c, j)]
    BY <1>2, <1>4, <2>2, RowsWithin
  <2> QED
    BY <1>1, <2>1, <2>3 DEF SubtreeNode
<1>5. \A m \in 0..k - 1 : \A p \in 0..Two[k - (m + 1)] - 1 :
          N[m + 1][p] = Pair(N[m][2 * p], N[m][2 * p + 1])
  BY <1>1, <1>2, RowsAt
<1>6. SubtreeNode(LV, 0, k - 1) = N[k - 1][0]
  <2>1. 0 % Two[k - 1] = 0 /\ 0 + Two[k - 1] <= Two[k] /\ Shift(0, k - 1) = 0
    BY <1>3 DEF Shift
  <2>2. Part(0, k - 1)
    BY <1>2, <2>1
  <2> HIDE DEF Part
  <2> QED
    BY <1>4, <2>1, <2>2
<1>7. SubtreeNode(LV, Two[k - 1], k - 2) = N[k - 2][2]
  <2>1. (2 * t) % t = 0 /\ (2 * t) \div t = 2 /\ 2 * t + t <= 2 * (2 * t)
    BY <1>3
  <2>2. /\ Two[k - 1] % Two[k - 2] = 0 /\ Two[k - 1] + Two[k - 2] <= Two[k]
        /\ Shift(Two[k - 1], k - 2) = 2 /\ Two[k - 1] \in Nat
    BY <1>1, <1>3, <2>1 DEF Shift
  <2>3. Part(Two[k - 1], k - 2)
    BY <1>2, <2>2
  <2> HIDE DEF Part
  <2> QED
    BY <1>4, <2>2, <2>3
<1>8. SubtreeNode(LV, 3 * Two[k - 2], k - 2) = N[k - 2][3]
  <2>1. (3 * t) % t = 0 /\ (3 * t) \div t = 3 /\ 3 * t + t <= 2 * (2 * t) /\ 3 * t \in Nat
    BY <1>3
  <2>2. /\ (3 * t) % Two[k - 2] = 0 /\ 3 * t + Two[k - 2] <= Two[k]
        /\ Shift(3 * t, k - 2) = 3
    BY <1>1, <1>3, <2>1 DEF Shift
  <2>3. Part(3 * t, k - 2)
    BY <1>2, <2>1, <2>2
  <2> HIDE DEF Part
  <2> QED
    BY <1>1, <1>4, <2>2, <2>3
<1>9. N[k][0] = Pair(N[k - 1][0], N[k - 1][1])
  <2>1. 0 \in 0..Two[k - ((k - 1) + 1)] - 1 /\ 2 * 0 = 0 /\ 2 * 0 + 1 = 1
    BY <1>2, <1>3
  <2>2. N[(k - 1) + 1][0] = Pair(N[k - 1][2 * 0], N[k - 1][2 * 0 + 1])
    BY <1>2, <1>5, <2>1
  <2> QED
    BY <1>2, <2>1, <2>2
<1>10. N[k - 1][1] = Pair(N[k - 2][2], N[k - 2][3])
  <2>1. 1 \in 0..Two[k - ((k - 2) + 1)] - 1 /\ 2 * 1 = 2 /\ 2 * 1 + 1 = 3
    BY <1>2, <1>3
  <2>2. N[(k - 2) + 1][1] = Pair(N[k - 2][2 * 1], N[k - 2][2 * 1 + 1])
    BY <1>2, <1>5, <2>1
  <2>3. (k - 2) + 1 = k - 1
    BY <1>2
  <2> QED
    BY <2>1, <2>2, <2>3
<1>11. SubtreeNode(LV, 0, k) = N[k][0]
  BY <1>1 DEF SubtreeNode
<1> QED
  BY <1>1, <1>6, <1>7, <1>8, <1>9, <1>10, <1>11

(***************************************************************************)
(* The path levels: what a program so far leaves, and what a check of it   *)
(* tells.                                                                  *)
(***************************************************************************)
Gives(io, ok, x) ==
    IsSeq(io) /\ Run(io) = IF ok THEN Works(Append(<<>>, x)) ELSE Failed

LEMMA GivesThen ==
    ASSUME NEW io, NEW ok \in BOOLEAN, NEW x, Gives(io, ok, x),
           NEW p, IsSeq(p), NEW more \in BOOLEAN, NEW y,
           RunFrom(Works(Append(<<>>, x)), p) = IF more THEN Works(Append(<<>>, y)) ELSE Failed
    PROVE  Gives(io \o p, ok /\ more, y)
<1>1. IsSeq(io) /\ Run(io) = IF ok THEN Works(Append(<<>>, x)) ELSE Failed
  BY DEF Gives
<1>2. IsSeq(io \o p) /\ Run(io \o p) = RunFrom(Run(io), p)
  BY <1>1, RunJoined DEF Run
<1>3. CASE ok
  BY <1>1, <1>2, <1>3 DEF Gives
<1>4. CASE ~ok
  <2>1. Run(io \o p) = Failed
    BY <1>1, <1>2, <1>4, RunFailed
  <2> QED
    BY <1>2, <1>4, <2>1 DEF Gives
<1> QED
  BY <1>3, <1>4

LEMMA GivesChecked ==
    ASSUME NEW io, NEW ok \in BOOLEAN, NEW x, Gives(io, ok, x), NEW y
    PROVE  WorkerAccepts(io \o Check(y)) <=> ok /\ x = y
<1>1. IsSeq(io) /\ Run(io) = IF ok THEN Works(Append(<<>>, x)) ELSE Failed
  BY DEF Gives
<1>2. IsSeq(<<>>) /\ IsSeq(Check(y))
  BY RunCheck, Sequences
<1>3. Run(io \o Check(y)) = RunFrom(Run(io), Check(y))
  BY <1>1, <1>2, RunJoined DEF Run
<1>4. Failed # Works(<<>>)
  BY DEF Failed, Works
<1>5. CASE ok
  <2>1. Run(io \o Check(y)) = IF x = y THEN Works(<<>>) ELSE Failed
    <3>1. RunFrom(Works(Append(<<>>, x)), Check(y)) = IF x = y THEN Works(<<>>) ELSE Failed
      BY <1>2, RunCheck
    <3> QED
      BY <1>1, <1>3, <1>5, <3>1
  <2> QED
    BY <1>4, <1>5, <2>1 DEF WorkerAccepts
<1>6. CASE ~ok
  <2>1. Run(io \o Check(y)) = Failed
    BY <1>1, <1>2, <1>3, <1>6, RunFailed
  <2> QED
    BY <1>4, <1>6, <2>1 DEF WorkerAccepts
<1> QED
  BY <1>5, <1>6

\* One level: the node is checked where it enters, and joined.
LEMMA LevelGives ==
    ASSUME NEW r, NEW ok \in BOOLEAN, NEW x, Gives(r.io, ok, x),
           NEW l, NEW fr, NEW n, NEW X, Bit(n, l) \in {0, 1}, r.found \in BOOLEAN
    PROVE  Gives(LevelFn(r, l, fr, n, X).io, ok /\ (Bit(n, l) = 0 /\ ~r.found => X = x),
                 IF Bit(n, l) = 1 THEN Pair(fr[l], x) ELSE Pair(x, ZH[l]))
<1>1. PICK enters, more, p, q, y :
        /\ enters = (Bit(n, l) = 0 /\ ~r.found) /\ more = (enters => X = x)
        /\ p = IF enters THEN Check(X) \o Lit(X) ELSE <<>>
        /\ q = IF Bit(n, l) = 1 THEN Lit(fr[l]) \o Swap \o Comp ELSE Lit(ZH[l]) \o Comp
        /\ y = IF Bit(n, l) = 1 THEN Pair(fr[l], x) ELSE Pair(x, ZH[l])
  OBVIOUS
<1>2. LevelFn(r, l, fr, n, X).io = r.io \o p \o q
  BY <1>1 DEF LevelFn
<1>3. PICK s : s = <<>> /\ IsSeq(s)
  BY Sequences
<1>4. /\ IsSeq(p)
      /\ RunFrom(Works(Append(s, x)), p) = IF more THEN Works(Append(s, x)) ELSE Failed
  <2>1. CASE enters
    <3>1. IsSeq(Check(X)) /\ IsSeq(Lit(X))
      BY <1>3, RunCheck, RunLit
    <3>2. RunFrom(Works(Append(s, x)), Check(X)) = IF x = X THEN Works(s) ELSE Failed
      BY <1>3, RunCheck
    <3>3. RunFrom(Works(s), Lit(X)) = Works(Append(s, X)) /\ RunFrom(Failed, Lit(X)) = Failed
      BY <3>1, RunLit, RunFailed
    <3>4. /\ IsSeq(p)
          /\ RunFrom(Works(Append(s, x)), p) =
                RunFrom(RunFrom(Works(Append(s, x)), Check(X)), Lit(X))
      BY <1>1, <2>1, <3>1, RunJoined
    <3> QED
      BY <1>1, <2>1, <3>2, <3>3, <3>4
  <2>2. CASE ~enters
    <3>1. RunFrom(Works(Append(s, x)), <<>>) = Works(Append(s, x))
      BY RunNothing
    <3> QED
      BY <1>1, <1>3, <2>2, <3>1
  <2> QED
    BY <1>1, <2>1, <2>2
<1>5. IsSeq(q) /\ RunFrom(Works(Append(s, x)), q) = Works(Append(s, y))
  <2>1. IsSeq(Append(s, x)) /\ IsSeq(Swap) /\ IsSeq(Comp)
    BY <1>3, RunSwap, RunComp, Sequences
  <2>2. CASE Bit(n, l) = 1
    <3>1. PICK a : a = fr[l]
      OBVIOUS
    <3>2. RunFrom(Works(Append(s, x)), Lit(a)) = Works(Append(Append(s, x), a)) /\ IsSeq(Lit(a))
      BY RunLit
    <3>3. RunFrom(Works(Append(Append(s, x), a)), Swap) = Works(Append(Append(s, a), x))
      BY <1>3, RunSwap
    <3>4. RunFrom(Works(Append(Append(s, a), x)), Comp) = Works(Append(s, Pair(a, x)))
      BY <1>3, RunComp
    <3>5. /\ IsSeq(Lit(a) \o Swap)
          /\ RunFrom(Works(Append(s, x)), Lit(a) \o Swap) = Works(Append(Append(s, a), x))
      BY <2>1, <3>2, <3>3, RunJoined
    <3>6. /\ IsSeq(Lit(a) \o Swap \o Comp)
          /\ RunFrom(Works(Append(s, x)), Lit(a) \o Swap \o Comp) = Works(Append(s, Pair(a, x)))
      BY <2>1, <3>4, <3>5, RunJoined
    <3> QED
      BY <1>1, <2>2, <3>1, <3>6
  <2>3. CASE Bit(n, l) = 0
    <3>1. PICK a : a = ZH[l]
      OBVIOUS
    <3>2. RunFrom(Works(Append(s, x)), Lit(a)) = Works(Append(Append(s, x), a)) /\ IsSeq(Lit(a))
      BY RunLit
    <3>3. RunFrom(Works(Append(Append(s, x), a)), Comp) = Works(Append(s, Pair(x, a)))
      BY <1>3, RunComp
    <3>4. /\ IsSeq(Lit(a) \o Comp)
          /\ RunFrom(Works(Append(s, x)), Lit(a) \o Comp) = Works(Append(s, Pair(x, a)))
      BY <2>1, <3>2, <3>3, RunJoined
    <3> QED
      BY <1>1, <2>3, <3>1, <3>4
  <2> QED
    BY <2>2, <2>3
<1>6. more \in BOOLEAN
  BY <1>1
<1>7. Gives(r.io \o p, ok /\ more, x)
  BY <1>3, <1>4, <1>6, GivesThen
<1>8. Gives((r.io \o p) \o q, (ok /\ more) /\ TRUE, y)
  <2>1. (ok /\ more) \in BOOLEAN /\ TRUE \in BOOLEAN
    OBVIOUS
  <2>2. RunFrom(Works(Append(<<>>, x)), q) = IF TRUE THEN Works(Append(<<>>, y)) ELSE Failed
    BY <1>3, <1>5
  <2> QED
    BY <1>5, <1>7, <2>1, <2>2, GivesThen
<1>9. ((ok /\ more) /\ TRUE) = (ok /\ (Bit(n, l) = 0 /\ ~r.found => X = x))
  BY <1>1
<1> QED
  BY <1>1, <1>2, <1>8, <1>9

\* The levels of a region, one from the other.
AreLevels(h, r, a, fr, n, X, m) ==
    h[a] = r /\ \A l \in a + 1..m : h[l] = LevelFn(h[l - 1], l - 1, fr, n, X)

LEMMA LevelsIs ==
    ASSUME NEW a \in Nat, NEW b \in Nat, a <= b, NEW r, NEW fr, NEW n, NEW X
    PROVE  AreLevels(Levels(r, a, b, fr, n, X), r, a, fr, n, X, b)
<1> DEFINE T == {m \in a..b : \E h : AreLevels(h, r, a, fr, n, X, m)}
           Eqn(f) == f = [l \in a..b |-> 
              IF l = a THEN r ELSE LevelFn(f[l - 1], l - 1, fr, n, X)]
<1>1. a \in Nat /\ b \in Nat /\ a <= b
  OBVIOUS
<1>2. a \in T
  <2>1. AreLevels([l \in a..a |-> r], r, a, fr, n, X, a)
    BY <1>1 DEF AreLevels
  <2> QED
    BY <1>1, <2>1
<1>3. \A k \in a..b : k \in T /\ k < b => k + 1 \in T
  <2> SUFFICES ASSUME NEW k \in a..b, k \in T, k < b PROVE k + 1 \in T
    OBVIOUS
  <2>1. PICK h : AreLevels(h, r, a, fr, n, X, k)
    OBVIOUS
  <2>2. PICK g : g = Extend(h, a, k, LevelFn(h[k], (k + 1) - 1, fr, n, X))
    OBVIOUS
  <2>3. /\ k \in a..k /\ a \in a..k /\ k + 1 \in a..b /\ (k + 1) - 1 = k
        /\ \A l \in a + 1..k + 1 : l - 1 \in a..k /\ (l = k + 1 \/ (l \in a + 1..k /\ l \in a..k))
    BY <1>1
  <2>4. (\A l \in a..k : g[l] = h[l]) /\ g[k + 1] = LevelFn(h[k], (k + 1) - 1, fr, n, X)
    BY <1>1, <2>2, Extended
  <2>5. AreLevels(g, r, a, fr, n, X, k + 1)
    BY <2>1, <2>3, <2>4 DEF AreLevels
  <2> QED
    BY <2>3, <2>5
<1> HIDE DEF T
<1>4. PICK h : AreLevels(h, r, a, fr, n, X, b)
  <2>1. b \in a..b
    BY <1>1
  <2>2. b \in T
    BY <1>1, <1>2, <1>3, <2>1, FromTo
  <2> QED
    BY <2>2 DEF T
<1>5. Eqn([l \in a..b |-> h[l]])
  <2>1. PICK f : f = [l \in a..b |-> h[l]]
    OBVIOUS
  <2>2. \A l \in a..b : f[l] = h[l] /\ (l # a => l - 1 \in a..b /\ l \in a + 1..b)
    BY <1>1, <2>1
  <2>3. f = [l \in a..b |-> IF l = a THEN r ELSE LevelFn(f[l - 1], l - 1, fr, n, X)]
    BY <1>4, <2>1, <2>2 DEF AreLevels
  <2>4. Eqn(f)
    BY <2>3
  <2> HIDE DEF Eqn
  <2> QED
    BY <2>1, <2>4
<1>6. Eqn(Levels(r, a, b, fr, n, X))
  <2>1. Levels(r, a, b, fr, n, X) = CHOOSE f : Eqn(f)
    BY DEF Levels
  <2> HIDE DEF Eqn
  <2> QED
    BY <1>5, <2>1
<1>7. \A l \in a..b :
         Levels(r, a, b, fr, n, X)[l] =
           IF l = a THEN r ELSE LevelFn(Levels(r, a, b, fr, n, X)[l - 1], l - 1, fr, n, X)
  BY <1>6
<1>8. a \in a..b /\ \A l \in a + 1..b : l \in a..b /\ l # a
  BY <1>1
<1> QED
  BY <1>7, <1>8 DEF AreLevels

\* A region before level l, when it began at level a: v are the right nodes.
Right(n, X, v, a, l) == \A k \in a..l - 1 : Enters(n, k) => X = v[k]
IsRegion(r, a, l, fr, n, X, v) ==
    /\ r.found \in BOOLEAN /\ (r.found <=> ~Carried(n, l))
    /\ r.Fp = [k \in PathLevel |-> IF k < l THEN Advanced(fr, n, X)[k] ELSE Z]
    /\ Gives(r.io, Right(n, X, v, a, l), v[l])

LEMMA RegionGrows ==
    ASSUME NEW n \in Nat, NEW l \in PathLevel, NEW a \in K_LOG..l, NEW fr, NEW X, NEW v,
           v[l + 1] = Joins(v[l], fr, n, l + 1),
           NEW r, IsRegion(r, a, l, fr, n, X, v)
    PROVE  IsRegion(LevelFn(r, l, fr, n, X), a, l + 1, fr, n, X, v)
<1>1. PICK q : q = LevelFn(r, l, fr, n, X)
  OBVIOUS
<1>2. l \in Nat /\ a \in Nat /\ a <= l /\ K_LOG \in Nat /\ K_LOG <= l /\ (l + 1) - 1 = l
  BY ShapeIs DEF PathLevel
<1>3. Bit(n, l) \in {0, 1}
  BY <1>2, ShiftIs
<1>4. /\ Carried(n, l + 1) <=> Carried(n, l) /\ Bit(n, l) = 1
      /\ Right(n, X, v, a, l + 1) <=> Right(n, X, v, a, l) /\ (Enters(n, l) => X = v[l])
  <2>1. \A j : j \in K_LOG..(l + 1) - 1 <=> j \in K_LOG..l - 1 \/ j = l
    BY <1>2
  <2>2. \A j : j \in a..(l + 1) - 1 <=> j \in a..l - 1 \/ j = l
    BY <1>2
  <2> QED
    BY <2>1, <2>2 DEF Carried, Right
<1>5. q.found \in BOOLEAN /\ (q.found <=> ~Carried(n, l + 1))
  <2>1. q.found = (r.found \/ Bit(n, l) = 0)
    BY <1>1 DEF LevelFn
  <2>2. r.found \in BOOLEAN /\ (r.found <=> ~Carried(n, l))
    BY DEF IsRegion
  <2>3. Bit(n, l) = 0 <=> ~(Bit(n, l) = 1)
    BY <1>3
  <2>4. q.found \in BOOLEAN
    BY <2>1, Zenon
  <2>5. q.found <=> ~Carried(n, l + 1)
    BY <1>4, <2>1, <2>2, <2>3, Zenon
  <2> QED
    BY <2>4, <2>5
<1>6. q.Fp = [k \in PathLevel |-> IF k < l + 1 THEN Advanced(fr, n, X)[k] ELSE Z]
  <2>1. PICK y : y = IF r.found THEN fr[l] ELSE IF Bit(n, l) = 1 THEN Z ELSE X
    OBVIOUS
  <2>2. q.Fp = [r.Fp EXCEPT ![l] = y]
    BY <1>1, <2>1 DEF LevelFn
  <2>3. y = Advanced(fr, n, X)[l]
    BY <2>1 DEF Advanced, IsRegion
  <2>4. r.Fp = [k \in PathLevel |-> IF k < l THEN Advanced(fr, n, X)[k] ELSE Z]
    BY DEF IsRegion
  <2>5. \A k \in PathLevel : (k < l + 1 <=> k < l \/ k = l) /\ ~(l < l)
    BY <1>2, ShapeIs DEF PathLevel
  <2>6. q.Fp = [k \in PathLevel |-> IF k = l THEN y ELSE IF k < l THEN Advanced(fr, n, X)[k] ELSE Z]
    BY <2>2, <2>4
  <2> QED
    BY <2>3, <2>5, <2>6
<1>7. Gives(q.io, Right(n, X, v, a, l + 1), v[l + 1])
  <2>1. PICK ok, x : ok = Right(n, X, v, a, l) /\ x = v[l]
    OBVIOUS
  <2>2. ok \in BOOLEAN
    BY <2>1 DEF Right
  <2>3. Gives(r.io, ok, x) /\ r.found \in BOOLEAN
    BY <2>1 DEF IsRegion
  <2>4. Gives(q.io, ok /\ (Bit(n, l) = 0 /\ ~r.found => X = x),
              IF Bit(n, l) = 1 THEN Pair(fr[l], x) ELSE Pair(x, ZH[l]))
    BY <1>1, <1>3, <2>2, <2>3, LevelGives
  <2>5. v[l + 1] = IF Bit(n, l) = 1 THEN Pair(fr[l], x) ELSE Pair(x, ZH[l])
    BY <1>2, <2>1 DEF Joins
  <2>6. (ok /\ (Bit(n, l) = 0 /\ ~r.found => X = x)) = Right(n, X, v, a, l + 1)
    <3>1. Enters(n, l) <=> Bit(n, l) = 0 /\ ~r.found
      BY DEF Enters, IsRegion
    <3>2. Right(n, X, v, a, l + 1) \in BOOLEAN
      BY DEF Right
    <3> QED
      BY <1>4, <2>1, <3>1, <3>2
  <2> QED
    BY <2>4, <2>5, <2>6
<1> QED
  BY <1>1, <1>5, <1>6, <1>7 DEF IsRegion

LEMMA RegionIs ==
    ASSUME NEW n \in Nat, NEW a \in K_LOG..TREE_DEPTH, NEW b \in a..TREE_DEPTH,
           NEW fr, NEW X, NEW v, \A l \in K_LOG + 1..TREE_DEPTH : v[l] = Joins(v[l - 1], fr, n, l),
           NEW r, IsRegion(r, a, a, fr, n, X, v)
    PROVE  IsRegion(Levels(r, a, b, fr, n, X)[b], a, b, fr, n, X, v)
<1>1. PICK R : R = Levels(r, a, b, fr, n, X)
  OBVIOUS
<1>2. /\ a \in Nat /\ b \in Nat /\ a <= b /\ K_LOG \in Nat /\ K_LOG <= a
      /\ TREE_DEPTH \in Nat /\ b <= TREE_DEPTH
  BY ShapeIs
<1>3. AreLevels(R, r, a, fr, n, X, b)
  BY <1>1, <1>2, LevelsIs
<1> DEFINE T == {l \in a..b : IsRegion(R[l], a, l, fr, n, X, v)}
<1>4. a \in T
  BY <1>2, <1>3 DEF AreLevels
<1>5. \A k \in a..b : k \in T /\ k < b => k + 1 \in T
  <2> SUFFICES ASSUME NEW k \in a..b, k \in T, k < b PROVE k + 1 \in T
    OBVIOUS
  <2>1. /\ k + 1 \in a + 1..b /\ k + 1 \in a..b /\ (k + 1) - 1 = k /\ k \in PathLevel
        /\ a \in K_LOG..k /\ k + 1 \in K_LOG + 1..TREE_DEPTH
    BY <1>2 DEF PathLevel
  <2>2. R[k + 1] = LevelFn(R[k], k, fr, n, X)
    BY <1>3, <2>1 DEF AreLevels
  <2>3. v[k + 1] = Joins(v[k], fr, n, k + 1)
    BY <2>1
  <2>4. IsRegion(R[k], a, k, fr, n, X, v)
    OBVIOUS
  <2> QED
    BY <2>1, <2>2, <2>3, <2>4, RegionGrows
<1> HIDE DEF T
<1>6. b \in T
  <2>1. b \in a..b
    BY <1>2
  <2> QED
    BY <1>2, <1>4, <1>5, <2>1, FromTo
<1> QED
  BY <1>1, <1>6 DEF T

(***************************************************************************)
(* The plan of the JS reference.                                           *)
(***************************************************************************)
PlanStart(LV, fr) ==
    [node |-> SubtreeNode(LV, 0, K_LOG), X |-> Z, Fn |-> fr, found |-> FALSE]
ArePlan(h, LV, fr, n, m) ==
    h[K_LOG] = PlanStart(LV, fr) /\ \A l \in K_LOG + 1..m : h[l] = PlanLevel(h[l - 1], l - 1, fr, n)

LEMMA PlanIs ==
    ASSUME NEW LV, NEW fr, NEW n
    PROVE  ArePlan(Plan(LV, fr, n), LV, fr, n, TREE_DEPTH)
<1> DEFINE T == {m \in K_LOG..TREE_DEPTH : \E h : ArePlan(h, LV, fr, n, m)}
           Eqn(f) == f = [l \in K_LOG..TREE_DEPTH |-> 
              IF l = K_LOG
              THEN [node |-> SubtreeNode(LV, 0, K_LOG), X |-> Z, Fn |-> fr, found |-> FALSE]
              ELSE PlanLevel(f[l - 1], l - 1, fr, n)]
<1>1. K_LOG \in Nat /\ TREE_DEPTH \in Nat /\ K_LOG <= TREE_DEPTH
  BY ShapeIs
<1>2. K_LOG \in T
  <2>1. ArePlan([l \in K_LOG..K_LOG |-> PlanStart(LV, fr)], LV, fr, n, K_LOG)
    BY <1>1 DEF ArePlan
  <2> QED
    BY <1>1, <2>1
<1>3. \A k \in K_LOG..TREE_DEPTH : k \in T /\ k < TREE_DEPTH => k + 1 \in T
  <2> SUFFICES ASSUME NEW k \in K_LOG..TREE_DEPTH, k \in T, k < TREE_DEPTH PROVE k + 1 \in T
    OBVIOUS
  <2>1. PICK h : ArePlan(h, LV, fr, n, k)
    OBVIOUS
  <2>2. PICK g : g = Extend(h, K_LOG, k, PlanLevel(h[k], (k + 1) - 1, fr, n))
    OBVIOUS
  <2>3. /\ k \in K_LOG..k /\ K_LOG \in K_LOG..k /\ k + 1 \in K_LOG..TREE_DEPTH /\ (k + 1) - 1 = k
        /\ \A l \in K_LOG + 1..k + 1 :
              l - 1 \in K_LOG..k /\ (l = k + 1 \/ (l \in K_LOG + 1..k /\ l \in K_LOG..k))
    BY <1>1
  <2>4. (\A l \in K_LOG..k : g[l] = h[l]) /\ g[k + 1] = PlanLevel(h[k], (k + 1) - 1, fr, n)
    BY <1>1, <2>2, Extended
  <2>5. ArePlan(g, LV, fr, n, k + 1)
    BY <2>1, <2>3, <2>4 DEF ArePlan
  <2> QED
    BY <2>3, <2>5
<1> HIDE DEF T
<1>4. PICK h : ArePlan(h, LV, fr, n, TREE_DEPTH)
  <2>1. TREE_DEPTH \in K_LOG..TREE_DEPTH
    BY <1>1
  <2>2. TREE_DEPTH \in T
    BY <1>1, <1>2, <1>3, <2>1, FromTo
  <2> QED
    BY <2>2 DEF T
<1>5. Eqn([l \in K_LOG..TREE_DEPTH |-> h[l]])
  <2>1. PICK f : f = [l \in K_LOG..TREE_DEPTH |-> h[l]]
    OBVIOUS
  <2>2. \A l \in K_LOG..TREE_DEPTH :
           /\ f[l] = h[l]
           /\ l # K_LOG => l - 1 \in K_LOG..TREE_DEPTH /\ l \in K_LOG + 1..TREE_DEPTH
    BY <1>1, <2>1
  <2>3. f = [l \in K_LOG..TREE_DEPTH |->
                IF l = K_LOG THEN PlanStart(LV, fr) ELSE PlanLevel(f[l - 1], l - 1, fr, n)]
    BY <1>4, <2>1, <2>2 DEF ArePlan
  <2>4. Eqn(f)
    BY <2>3 DEF PlanStart
  <2> HIDE DEF Eqn
  <2> QED
    BY <2>1, <2>4
<1>6. Eqn(Plan(LV, fr, n))
  <2>1. Plan(LV, fr, n) = CHOOSE f : Eqn(f)
    BY DEF Plan
  <2> HIDE DEF Eqn
  <2> QED
    BY <1>5, <2>1
<1>7. \A l \in K_LOG..TREE_DEPTH :
         Plan(LV, fr, n)[l] =
           IF l = K_LOG THEN PlanStart(LV, fr) ELSE PlanLevel(Plan(LV, fr, n)[l - 1], l - 1, fr, n)
  BY <1>6 DEF PlanStart
<1>8. /\ K_LOG \in K_LOG..TREE_DEPTH
      /\ \A l \in K_LOG + 1..TREE_DEPTH : l \in K_LOG..TREE_DEPTH /\ l # K_LOG
  BY <1>1
<1> QED
  BY <1>7, <1>8 DEF ArePlan

PathOf(LV, fr, n) == [l \in K_LOG..TREE_DEPTH |-> Plan(LV, fr, n)[l].node]

\* The nodes of the plan are the path, and it claims the right node to enter.
LEMMA PlanIsPath ==
    ASSUME NEW LV, NEW fr, NEW n
    PROVE  IsPath(PathOf(LV, fr, n), LV, fr, n)
<1>1. PICK q, v : q = Plan(LV, fr, n) /\ v = PathOf(LV, fr, n)
  OBVIOUS
<1>2. ArePlan(q, LV, fr, n, TREE_DEPTH)
  BY <1>1, PlanIs
<1>3. \A l \in K_LOG..TREE_DEPTH : v[l] = q[l].node
  BY <1>1 DEF PathOf
<1>4. K_LOG \in Nat /\ TREE_DEPTH \in Nat /\ K_LOG < TREE_DEPTH
  BY ShapeIs
<1>5. v[K_LOG] = SubtreeNode(LV, 0, K_LOG)
  <2>1. K_LOG \in K_LOG..TREE_DEPTH /\ q[K_LOG] = PlanStart(LV, fr)
    BY <1>2, <1>4 DEF ArePlan
  <2> QED
    BY <1>3, <2>1 DEF PlanStart
<1>6. ASSUME NEW l \in K_LOG + 1..TREE_DEPTH PROVE v[l] = Joins(v[l - 1], fr, n, l)
  <2>1. l \in K_LOG..TREE_DEPTH /\ l - 1 \in K_LOG..TREE_DEPTH
    BY <1>4
  <2>2. q[l] = PlanLevel(q[l - 1], l - 1, fr, n)
    BY <1>2 DEF ArePlan
  <2>3. q[l].node = Joins(q[l - 1].node, fr, n, l)
    BY <2>2 DEF PlanLevel, Joins
  <2> QED
    BY <1>3, <2>1, <2>3
<1> QED
  BY <1>1, <1>5, <1>6 DEF IsPath

Planned(q, l, fr, n, v) ==
    /\ q.found \in BOOLEAN /\ (q.found <=> ~Carried(n, l))
    /\ \A k : Enters(n, k) /\ k < l => q.X = v[k]
    /\ q.Fn = [k \in PathLevel |-> IF k < l THEN Advanced(fr, n, v[k])[k] ELSE fr[k]]

LEMMA PlanGrows ==
    ASSUME NEW n \in Nat, NEW l \in PathLevel, NEW fr, NEW v,
           NEW q, Planned(q, l, fr, n, v), q.node = v[l]
    PROVE  Planned(PlanLevel(q, l, fr, n), l + 1, fr, n, v)
<1>1. PICK p, enters : p = PlanLevel(q, l, fr, n) /\ enters = (Bit(n, l) = 0 /\ ~q.found)
  OBVIOUS
<1>2. l \in Nat /\ K_LOG \in Nat /\ K_LOG <= l
  BY ShapeIs DEF PathLevel
<1>3. Bit(n, l) \in {0, 1} /\ (Bit(n, l) = 0 <=> ~(Bit(n, l) = 1))
  <2>1. Bit(n, l) \in {0, 1}
    BY <1>2, ShiftIs
  <2> QED
    BY <2>1
<1>4. Carried(n, l + 1) <=> Carried(n, l) /\ Bit(n, l) = 1
  <2>1. \A j : j \in K_LOG..(l + 1) - 1 <=> j \in K_LOG..l - 1 \/ j = l
    BY <1>2
  <2> QED
    BY <2>1 DEF Carried
<1>5. q.found \in BOOLEAN /\ (q.found <=> ~Carried(n, l))
  BY DEF Planned
<1>6. enters <=> Enters(n, l)
  BY <1>1, <1>5, Zenon DEF Enters
<1>7. /\ p.found = (q.found \/ enters) /\ p.X = IF enters THEN v[l] ELSE q.X
      /\ p.Fn = IF enters THEN [q.Fn EXCEPT ![l] = v[l]]
                ELSE IF ~q.found THEN [q.Fn EXCEPT ![l] = Z] ELSE q.Fn
  BY <1>1 DEF PlanLevel
<1>8. p.found \in BOOLEAN /\ (p.found <=> ~Carried(n, l + 1))
  <2>1. p.found \in BOOLEAN
    BY <1>7, Zenon
  <2>2. p.found <=> ~Carried(n, l + 1)
    BY <1>1, <1>3, <1>4, <1>5, <1>7, Zenon
  <2> QED
    BY <2>1, <2>2
<1>9. ASSUME NEW k, Enters(n, k), k < l + 1 PROVE p.X = v[k]
  <2>1. k \in Nat /\ K_LOG <= k
    BY <1>9, ShapeIs DEF Enters, PathLevel
  <2>2. CASE k = l
    BY <1>6, <1>7, <1>9, <2>2
  <2>3. CASE k < l
    <3>1. k \in K_LOG..l - 1 /\ Bit(n, k) = 0
      BY <1>2, <1>9, <2>1, <2>3 DEF Enters
    <3>2. ~Carried(n, l)
      BY <3>1 DEF Carried
    <3>3. ~enters
      BY <1>6, <3>2 DEF Enters
    <3> QED
      BY <1>7, <1>9, <2>3, <3>3 DEF Planned
  <2> QED
    BY <1>2, <1>9, <2>1, <2>2, <2>3
<1>10. p.Fn = [k \in PathLevel |-> IF k < l + 1 THEN Advanced(fr, n, v[k])[k] ELSE fr[k]]
  <2>1. PICK y : y = Advanced(fr, n, v[l])[l]
    OBVIOUS
  <2>2. q.Fn = [k \in PathLevel |-> IF k < l THEN Advanced(fr, n, v[k])[k] ELSE fr[k]]
    BY DEF Planned
  <2>3. \A k \in PathLevel : (k < l + 1 <=> k < l \/ k = l) /\ ~(l < l)
    BY <1>2, ShapeIs DEF PathLevel
  <2>4. y = IF ~Carried(n, l) THEN fr[l] ELSE IF Bit(n, l) = 1 THEN Z ELSE v[l]
    BY <2>1 DEF Advanced
  <2>5. q.Fn[l] = fr[l]
    BY <2>2, <2>3
  <2>6. p.Fn = [q.Fn EXCEPT ![l] = y]
    <3>1. CASE enters
      BY <1>3, <1>6, <1>7, <2>4, <3>1 DEF Enters
    <3>2. CASE ~enters /\ ~q.found
      <4>1. Carried(n, l) /\ Bit(n, l) = 1
        BY <1>1, <1>3, <1>5, <3>2, Zenon
      <4> QED
        BY <1>7, <2>4, <3>2, <4>1
    <3>3. CASE ~enters /\ q.found
      <4>1. y = fr[l]
        BY <1>5, <2>4, <3>3
      <4>2. [q.Fn EXCEPT ![l] = y] = q.Fn
        BY <2>2, <2>5, <4>1
      <4> QED
        BY <1>7, <3>3, <4>2
    <3> QED
      BY <3>1, <3>2, <3>3
  <2>7. p.Fn = [k \in PathLevel |->
                  IF k = l THEN y ELSE IF k < l THEN Advanced(fr, n, v[k])[k] ELSE fr[k]]
    BY <2>2, <2>6
  <2> QED
    BY <2>1, <2>3, <2>7
<1> QED
  BY <1>1, <1>8, <1>9, <1>10 DEF Planned

LEMMA PlanEnters ==
    ASSUME NEW LV, NEW n \in Nat, NEW fr, fr = [k \in PathLevel |-> fr[k]],
           NEW q, q = Plan(LV, fr, n)[TREE_DEPTH], NEW v, v = PathOf(LV, fr, n)
    PROVE  /\ \A k : Enters(n, k) => q.X = v[k]
           /\ q.Fn = Advanced(fr, n, q.X)
<1>1. PICK Q : Q = Plan(LV, fr, n)
  OBVIOUS
<1>2. ArePlan(Q, LV, fr, n, TREE_DEPTH) /\ \A l \in K_LOG..TREE_DEPTH : Q[l].node = v[l]
  BY <1>1, PlanIs DEF PathOf
<1>3. K_LOG \in Nat /\ TREE_DEPTH \in Nat /\ K_LOG < TREE_DEPTH
  BY ShapeIs
<1> DEFINE T == {l \in K_LOG..TREE_DEPTH : Planned(Q[l], l, fr, n, v)}
<1>4. K_LOG \in T
  <2>1. /\ Q[K_LOG].X = Z /\ Q[K_LOG].Fn = fr /\ Q[K_LOG].found = FALSE
    BY <1>2 DEF ArePlan, PlanStart
  <2>2. Carried(n, K_LOG) /\ \A k \in PathLevel : ~(k < K_LOG)
    BY <1>3 DEF Carried, PathLevel
  <2>3. Q[K_LOG].Fn = [k \in PathLevel |-> IF k < K_LOG THEN Advanced(fr, n, v[k])[k] ELSE fr[k]]
    BY <2>1, <2>2
  <2>4. Planned(Q[K_LOG], K_LOG, fr, n, v)
    BY <2>1, <2>2, <2>3 DEF Planned, Enters
  <2> QED
    BY <1>3, <2>4
<1>5. \A k \in K_LOG..TREE_DEPTH : k \in T /\ k < TREE_DEPTH => k + 1 \in T
  <2> SUFFICES ASSUME NEW k \in K_LOG..TREE_DEPTH, k \in T, k < TREE_DEPTH PROVE k + 1 \in T
    OBVIOUS
  <2>1. /\ k + 1 \in K_LOG + 1..TREE_DEPTH /\ k + 1 \in K_LOG..TREE_DEPTH /\ (k + 1) - 1 = k
        /\ k \in PathLevel
    BY <1>3 DEF PathLevel
  <2>2. Q[k + 1] = PlanLevel(Q[k], k, fr, n)
    BY <1>2, <2>1 DEF ArePlan
  <2>3. Planned(Q[k], k, fr, n, v) /\ Q[k].node = v[k]
    BY <1>2
  <2> QED
    BY <2>1, <2>2, <2>3, PlanGrows
<1> HIDE DEF T
<1>6. Planned(q, TREE_DEPTH, fr, n, v)
  <2>1. TREE_DEPTH \in K_LOG..TREE_DEPTH
    BY <1>3
  <2>2. TREE_DEPTH \in T
    BY <1>3, <1>4, <1>5, <2>1, FromTo
  <2> QED
    BY <1>1, <2>2 DEF T
<1>7. \A k \in PathLevel : k < TREE_DEPTH
  BY <1>3 DEF PathLevel
<1>8. \A k : Enters(n, k) => q.X = v[k]
  BY <1>6, <1>7 DEF Planned, Enters
<1>9. q.Fn = [k \in PathLevel |-> Advanced(fr, n, v[k])[k]]
  BY <1>6, <1>7 DEF Planned
<1>10. ASSUME NEW k \in PathLevel PROVE Advanced(fr, n, v[k])[k] = Advanced(fr, n, q.X)[k]
  <2>1. CASE Enters(n, k)
    BY <1>8, <2>1
  <2>2. CASE ~Enters(n, k)
    <3>1. ~Carried(n, k) \/ Bit(n, k) = 1
      <4>1. Bit(n, k) \in {0, 1}
        BY <1>3, ShiftIs DEF PathLevel
      <4> QED
        BY <2>2, <4>1 DEF Enters
    <3> QED
      BY <3>1 DEF Advanced
  <2> QED
    BY <2>1, <2>2
<1>11. Advanced(fr, n, q.X) = [k \in PathLevel |-> Advanced(fr, n, q.X)[k]]
  BY DEF Advanced
<1>12. q.Fn = [k \in PathLevel |-> Advanced(fr, n, q.X)[k]]
  BY <1>9, <1>10
<1> QED
  BY <1>8, <1>11, <1>12

(***************************************************************************)
(* The four workers together.                                              *)
(***************************************************************************)
LEMMA GivesPushed ==
    ASSUME NEW p, NEW x, Pushes(p, x)
    PROVE  Gives(p, TRUE, x)
<1>1. IsSeq(<<>>)
  BY Sequences
<1>2. RunFrom(Works(<<>>), p) = Works(Append(<<>>, x))
  BY <1>1 DEF Pushes
<1> QED
  BY <1>2 DEF Gives, Pushes, Run

\* Worker 1 accepts its two claims iff they are the nodes.
LEMMA Worker1 ==
    ASSUME NEW LV, NEW A8, NEW B4
    PROVE  WorkerAccepts(W1Program(LV, A8, B4)) <=>
              /\ A8 = SubtreeNode(LV, 0, K_LOG - 1)
              /\ B4 = SubtreeNode(LV, Two[K_LOG - 1], K_LOG - 2)
<1>1. PICK p, q, x, y : /\ p = Subtree(LV, 0, K_LOG - 1) /\ x = SubtreeNode(LV, 0, K_LOG - 1)
                        /\ q = Subtree(LV, Two[K_LOG - 1], K_LOG - 2)
                        /\ y = SubtreeNode(LV, Two[K_LOG - 1], K_LOG - 2)
  OBVIOUS
<1>2. K_LOG - 1 \in Nat /\ K_LOG - 2 \in Nat
  BY ShapeIs
<1>3. Pushes(p, x) /\ Pushes(q, y)
  BY <1>1, <1>2, SubtreePushes
<1>4. W1Program(LV, A8, B4) = ((p \o q) \o Check(B4)) \o Check(A8)
  BY <1>1 DEF W1Program
<1>5. PICK s : s = <<>> /\ IsSeq(s)
  BY Sequences
<1>6. /\ IsSeq(p) /\ IsSeq(q) /\ IsSeq(p \o q) /\ IsSeq(Append(s, x))
      /\ IsSeq(Check(A8)) /\ IsSeq(Check(B4)) /\ IsSeq((p \o q) \o Check(B4))
  <2>1. IsSeq(Check(A8)) /\ IsSeq(Check(B4))
    BY <1>5, RunCheck
  <2> QED
    BY <1>3, <1>5, <2>1, Sequences DEF Pushes
<1>7. RunFrom(Works(s), p \o q) = Works(Append(Append(s, x), y))
  <2>1. RunFrom(Works(s), p) = Works(Append(s, x))
    BY <1>3, <1>5 DEF Pushes
  <2>2. RunFrom(Works(Append(s, x)), q) = Works(Append(Append(s, x), y))
    BY <1>3, <1>6 DEF Pushes
  <2> QED
    BY <1>6, <2>1, <2>2, RunJoined
<1>8. /\ RunFrom(Works(Append(Append(s, x), y)), Check(B4)) =
            IF y = B4 THEN Works(Append(s, x)) ELSE Failed
      /\ RunFrom(Works(Append(s, x)), Check(A8)) = IF x = A8 THEN Works(s) ELSE Failed
      /\ RunFrom(Failed, Check(A8)) = Failed
  <2>1. RunFrom(Works(Append(Append(s, x), y)), Check(B4)) =
           IF y = B4 THEN Works(Append(s, x)) ELSE Failed
    BY <1>6, RunCheck
  <2>2. RunFrom(Works(Append(s, x)), Check(A8)) = IF x = A8 THEN Works(s) ELSE Failed
    <3>1. IsSeq(s)
      BY <1>5
    <3> QED
      BY <3>1, RunCheck
  <2>3. RunFrom(Failed, Check(A8)) = Failed
    BY <1>6, RunFailed
  <2> QED
    BY <2>1, <2>2, <2>3
<1>9. RunFrom(Works(s), (p \o q) \o Check(B4)) = IF y = B4 THEN Works(Append(s, x)) ELSE Failed
  <2>1. RunFrom(Works(s), (p \o q) \o Check(B4)) = RunFrom(RunFrom(Works(s), p \o q), Check(B4))
    BY <1>6, RunJoined
  <2> QED
    BY <1>7, <1>8, <2>1
<1>10. RunFrom(Works(s), ((p \o q) \o Check(B4)) \o Check(A8)) =
          IF y = B4 /\ x = A8 THEN Works(s) ELSE Failed
  <2>1. RunFrom(Works(s), ((p \o q) \o Check(B4)) \o Check(A8)) =
           RunFrom(RunFrom(Works(s), (p \o q) \o Check(B4)), Check(A8))
    BY <1>6, RunJoined
  <2> QED
    BY <1>8, <1>9, <2>1
<1>11. Failed # Works(s)
  BY DEF Failed, Works
<1> QED
  BY <1>1, <1>4, <1>5, <1>10, <1>11 DEF WorkerAccepts, Run

\* Worker 2 begins with the root of the batch.
LEMMA Worker2 ==
    ASSUME NEW n, NEW fr, NEW X, NEW LV, NEW A8, NEW B4,
           A8 = SubtreeNode(LV, 0, K_LOG - 1),
           B4 = SubtreeNode(LV, Two[K_LOG - 1], K_LOG - 2),
           NEW v, v[K_LOG] = SubtreeNode(LV, 0, K_LOG)
    PROVE  IsRegion(Fresh(W2Subtree(LV, A8, B4)), K_LOG, K_LOG, fr, n, X, v)
<1>1. PICK q, y, w : /\ q = Subtree(LV, 3 * Two[K_LOG - 2], K_LOG - 2)
                     /\ y = SubtreeNode(LV, 3 * Two[K_LOG - 2], K_LOG - 2)
                     /\ w = W2Subtree(LV, A8, B4)
  OBVIOUS
<1>2. K_LOG - 2 \in Nat /\ K_LOG \in Nat
  BY ShapeIs
<1>3. Pushes(q, y) /\ Pushes(Lit(A8), A8) /\ Pushes(Lit(B4), B4)
  BY <1>1, <1>2, SubtreePushes, PushLit
<1>4. w = (((Lit(A8) \o Lit(B4)) \o q) \o Comp) \o Comp
  BY <1>1 DEF W2Subtree
<1>5. PICK s : s = <<>> /\ IsSeq(s)
  BY Sequences
<1>6. PICK s1, s2 : /\ s1 = Append(s, A8) /\ s2 = Append(s1, B4)
                    /\ IsSeq(s1) /\ IsSeq(s2)
  BY <1>5, Sequences
<1>7. IsSeq(Lit(A8)) /\ IsSeq(Lit(B4)) /\ IsSeq(q) /\ IsSeq(Comp)
  BY <1>3, <1>5, RunComp DEF Pushes
<1>8. IsSeq(Lit(A8) \o Lit(B4)) /\ RunFrom(Works(s), Lit(A8) \o Lit(B4)) = Works(s2)
  <2>1. RunFrom(Works(s), Lit(A8)) = Works(s1) /\ RunFrom(Works(s1), Lit(B4)) = Works(s2)
    BY <1>3, <1>5, <1>6 DEF Pushes
  <2> QED
    BY <1>7, <2>1, RunJoined
<1>9. /\ IsSeq((Lit(A8) \o Lit(B4)) \o q)
      /\ RunFrom(Works(s), (Lit(A8) \o Lit(B4)) \o q) = Works(Append(s2, y))
  <2>1. RunFrom(Works(s2), q) = Works(Append(s2, y))
    BY <1>3, <1>6 DEF Pushes
  <2> QED
    BY <1>7, <1>8, <2>1, RunJoined
<1>10. /\ IsSeq(((Lit(A8) \o Lit(B4)) \o q) \o Comp)
       /\ RunFrom(Works(s), ((Lit(A8) \o Lit(B4)) \o q) \o Comp) = Works(Append(s1, Pair(B4, y)))
  <2>1. RunFrom(Works(Append(s2, y)), Comp) = Works(Append(s1, Pair(B4, y)))
    BY <1>6, RunComp
  <2> QED
    BY <1>7, <1>9, <2>1, RunJoined
<1>11. IsSeq(w) /\ RunFrom(Works(s), w) = Works(Append(s, Pair(A8, Pair(B4, y))))
  <2>1. RunFrom(Works(Append(s1, Pair(B4, y))), Comp) = Works(Append(s, Pair(A8, Pair(B4, y))))
    BY <1>5, <1>6, RunComp
  <2> QED
    BY <1>4, <1>7, <1>10, <2>1, RunJoined
<1>12. Pair(A8, Pair(B4, y)) = v[K_LOG]
  BY <1>1, QuartersOfBatch
<1>13. Gives(w, TRUE, v[K_LOG])
  BY <1>5, <1>11, <1>12 DEF Gives, Run
<1>14. Carried(n, K_LOG) /\ Right(n, X, v, K_LOG, K_LOG) = TRUE
  <2>1. \A k : k \notin K_LOG..K_LOG - 1
    BY <1>2
  <2> QED
    BY <2>1 DEF Carried, Right
<1>15. \A k \in PathLevel : ~(k < K_LOG)
  BY <1>2 DEF PathLevel
<1> QED
  BY <1>1, <1>13, <1>14, <1>15 DEF IsRegion, Fresh

\* The next worker begins with the claim the last one checked.
LEMMA NextWorker ==
    ASSUME NEW n \in Nat, NEW fr, NEW X,
           NEW v, \A l \in K_LOG + 1..TREE_DEPTH : v[l] = Joins(v[l - 1], fr, n, l),
           NEW a, NEW b \in K_LOG..TREE_DEPTH, NEW c \in b..TREE_DEPTH,
           NEW r, IsRegion(r, a, b, fr, n, X, v), NEW hn, hn = v[b],
           NEW t, t = [io |-> Lit(hn), Fp |-> r.Fp, found |-> r.found]
    PROVE  IsRegion(Levels(t, b, c, fr, n, X)[c], b, c, fr, n, X, v)
<1>1. Gives(Lit(hn), TRUE, v[b])
  BY PushLit, GivesPushed
<1>2. Right(n, X, v, b, b) = TRUE
  <2>1. \A k : k \notin b..b - 1
    BY ShapeIs
  <2> QED
    BY <2>1 DEF Right
<1>3. t.io = Lit(hn) /\ t.Fp = r.Fp /\ t.found = r.found
  OBVIOUS
<1>4. IsRegion(t, b, b, fr, n, X, v)
  BY <1>1, <1>2, <1>3 DEF IsRegion
<1> QED
  BY <1>4, RegionIs

LEMMA RegionChecked ==
    ASSUME NEW r, NEW a, NEW b, NEW fr, NEW n, NEW X, NEW v,
           IsRegion(r, a, b, fr, n, X, v), NEW hn
    PROVE  WorkerAccepts(r.io \o Check(hn)) <=> Right(n, X, v, a, b) /\ v[b] = hn
<1>1. Right(n, X, v, a, b) \in BOOLEAN
  BY DEF Right
<1>2. Gives(r.io, Right(n, X, v, a, b), v[b])
  BY DEF IsRegion
<1> QED
  BY <1>1, <1>2, GivesChecked

\* What the workers accept, and the frontier they make.
LEMMA WorkersAre ==
    ASSUME count \in Nat, NEW LV, NEW v, IsPath(v, LV, F, count),
           NEW A8, NEW B4, NEW X, NEW H11, NEW H23, NEW ROOT,
           NEW r2, r2 = Region2(LV, A8, B4, X),
           NEW r3, r3 = Region3(r2, H11, X),
           NEW r4, r4 = Region4(r3, H23, X)
    PROVE  /\ /\ WorkerAccepts(W1Program(LV, A8, B4)) /\ WorkerAccepts(r2.io \o Check(H11))
              /\ WorkerAccepts(r3.io \o Check(H23)) /\ WorkerAccepts(r4.io \o Check(ROOT))
              => /\ ROOT = v[TREE_DEPTH] /\ \A k : Enters(count, k) => X = v[k]
                 /\ r4.Fp = Advanced(F, count, X)
           /\ /\ A8 = SubtreeNode(LV, 0, K_LOG - 1)
              /\ B4 = SubtreeNode(LV, Two[K_LOG - 1], K_LOG - 2)
              /\ H11 = v[CUTS[1]] /\ H23 = v[CUTS[2]] /\ ROOT = v[TREE_DEPTH]
              /\ \A k : Enters(count, k) => X = v[k]
              => /\ WorkerAccepts(W1Program(LV, A8, B4)) /\ WorkerAccepts(r2.io \o Check(H11))
                 /\ WorkerAccepts(r3.io \o Check(H23)) /\ WorkerAccepts(r4.io \o Check(ROOT))
                 /\ r4.Fp = Advanced(F, count, X)
<1> DEFINE One == /\ A8 = SubtreeNode(LV, 0, K_LOG - 1)
                  /\ B4 = SubtreeNode(LV, Two[K_LOG - 1], K_LOG - 2)
           R2 == Right(count, X, v, K_LOG, CUTS[1])
           R3 == Right(count, X, v, CUTS[1], CUTS[2])
           R4 == Right(count, X, v, CUTS[2], TREE_DEPTH)
<1>1. /\ K_LOG \in Nat /\ K_LOG \in K_LOG..TREE_DEPTH
      /\ CUTS[1] \in K_LOG..TREE_DEPTH /\ CUTS[2] \in CUTS[1]..TREE_DEPTH
      /\ CUTS[2] \in K_LOG..TREE_DEPTH /\ TREE_DEPTH \in CUTS[2]..TREE_DEPTH
  BY ShapeIs
<1>2. /\ v[K_LOG] = SubtreeNode(LV, 0, K_LOG)
      /\ \A l \in K_LOG + 1..TREE_DEPTH : v[l] = Joins(v[l - 1], F, count, l)
  BY DEF IsPath
<1>3. WorkerAccepts(W1Program(LV, A8, B4)) <=> One
  BY Worker1
<1>4. One => IsRegion(r2, K_LOG, CUTS[1], F, count, X, v)
  <2> SUFFICES ASSUME One PROVE IsRegion(r2, K_LOG, CUTS[1], F, count, X, v)
    OBVIOUS
  <2>1. IsRegion(Fresh(W2Subtree(LV, A8, B4)), K_LOG, K_LOG, F, count, X, v)
    BY <1>2, Worker2
  <2> QED
    BY <1>1, <1>2, <2>1, RegionIs DEF Region2
<1>5. One /\ H11 = v[CUTS[1]] => IsRegion(r3, CUTS[1], CUTS[2], F, count, X, v)
  <2> SUFFICES ASSUME One, H11 = v[CUTS[1]]
               PROVE  IsRegion(r3, CUTS[1], CUTS[2], F, count, X, v)
    OBVIOUS
  <2>1. PICK t : t = [io |-> Lit(H11), Fp |-> r2.Fp, found |-> r2.found]
    OBVIOUS
  <2>2. r3 = Levels(t, CUTS[1], CUTS[2], F, count, X)[CUTS[2]]
    BY <2>1 DEF Region3
  <2> QED
    BY <1>1, <1>2, <1>4, <2>1, <2>2, NextWorker
<1>6. One /\ H11 = v[CUTS[1]] /\ H23 = v[CUTS[2]]
        => IsRegion(r4, CUTS[2], TREE_DEPTH, F, count, X, v)
  <2> SUFFICES ASSUME One, H11 = v[CUTS[1]], H23 = v[CUTS[2]]
               PROVE  IsRegion(r4, CUTS[2], TREE_DEPTH, F, count, X, v)
    OBVIOUS
  <2>1. PICK t : t = [io |-> Lit(H23), Fp |-> r3.Fp, found |-> r3.found]
    OBVIOUS
  <2>2. r4 = Levels(t, CUTS[2], TREE_DEPTH, F, count, X)[TREE_DEPTH]
    BY <2>1 DEF Region4
  <2> QED
    BY <1>1, <1>2, <1>5, <2>1, <2>2, NextWorker
<1>7. One => (WorkerAccepts(r2.io \o Check(H11)) <=> R2 /\ v[CUTS[1]] = H11)
  BY <1>4, RegionChecked
<1>8. One /\ H11 = v[CUTS[1]] => (WorkerAccepts(r3.io \o Check(H23)) <=> R3 /\ v[CUTS[2]] = H23)
  BY <1>5, RegionChecked
<1>9. One /\ H11 = v[CUTS[1]] /\ H23 = v[CUTS[2]]
        => (WorkerAccepts(r4.io \o Check(ROOT)) <=> R4 /\ v[TREE_DEPTH] = ROOT)
  BY <1>6, RegionChecked
<1>10. One /\ H11 = v[CUTS[1]] /\ H23 = v[CUTS[2]] => r4.Fp = Advanced(F, count, X)
  <2> SUFFICES ASSUME One, H11 = v[CUTS[1]], H23 = v[CUTS[2]]
               PROVE  r4.Fp = Advanced(F, count, X)
    OBVIOUS
  <2>1. r4.Fp = [k \in PathLevel |-> IF k < TREE_DEPTH THEN Advanced(F, count, X)[k] ELSE Z]
    BY <1>6 DEF IsRegion
  <2>2. \A k \in PathLevel : k < TREE_DEPTH
    BY ShapeIs DEF PathLevel
  <2>3. r4.Fp = [k \in PathLevel |-> Advanced(F, count, X)[k]]
    BY <2>1, <2>2
  <2>4. Advanced(F, count, X) = [k \in PathLevel |-> Advanced(F, count, X)[k]]
    BY DEF Advanced
  <2> QED
    BY <2>3, <2>4
<1>11. R2 /\ R3 /\ R4 <=> \A k : Enters(count, k) => X = v[k]
  <2>1. \A k : k \in PathLevel <=>
           \/ k \in K_LOG..CUTS[1] - 1 \/ k \in CUTS[1]..CUTS[2] - 1
           \/ k \in CUTS[2]..TREE_DEPTH - 1
    BY ShapeIs DEF PathLevel
  <2> QED
    BY <2>1 DEF Right, Enters
<1> HIDE DEF One, R2, R3, R4
<1>12. /\ WorkerAccepts(W1Program(LV, A8, B4)) /\ WorkerAccepts(r2.io \o Check(H11))
       /\ WorkerAccepts(r3.io \o Check(H23)) /\ WorkerAccepts(r4.io \o Check(ROOT))
       => /\ ROOT = v[TREE_DEPTH] /\ \A k : Enters(count, k) => X = v[k]
          /\ r4.Fp = Advanced(F, count, X)
  BY <1>3, <1>7, <1>8, <1>9, <1>10, <1>11
<1>13. /\ One /\ H11 = v[CUTS[1]] /\ H23 = v[CUTS[2]] /\ ROOT = v[TREE_DEPTH]
       /\ \A k : Enters(count, k) => X = v[k]
       => /\ WorkerAccepts(W1Program(LV, A8, B4)) /\ WorkerAccepts(r2.io \o Check(H11))
          /\ WorkerAccepts(r3.io \o Check(H23)) /\ WorkerAccepts(r4.io \o Check(ROOT))
          /\ r4.Fp = Advanced(F, count, X)
  BY <1>3, <1>7, <1>8, <1>9, <1>10, <1>11
<1> QED
  BY <1>12, <1>13 DEF One

\* The root of a larger tree is the last node of the path.
LEMMA RootOfPath ==
    ASSUME NEW xs, NEW LV, Fits(xs, LV), NEW fr, IsFrontier(fr, xs),
           NEW v, IsPath(v, LV, fr, Len(xs))
    PROVE  v[TREE_DEPTH] = treeRoot(xs \o LV)
<1>1. PICK n, d : n = Len(xs) /\ d = TREE_DEPTH
  OBVIOUS
<1>2. d \in Nat /\ K_LOG \in Nat /\ K_LOG < d /\ n \in 0..Two[d] - 1 /\ d \in 0..d
  <2>1. n \in Nat /\ n + BATCH <= Two[d]
    BY <1>1, FitsIs
  <2>2. d \in Nat /\ K_LOG \in Nat /\ K_LOG < d /\ BATCH \in Nat \ {0} /\ Two[d] \in Nat
    BY <1>1, ShapeIs
  <2> QED
    BY <2>1, <2>2
<1>3. Shift(n, d) \in 0..Two[d - d] - 1
  BY <1>2, ShiftInRow
<1>4. d - d = 0 /\ Two[0] = 1
  BY <1>2, TwoIs
<1>5. Shift(n, d) = 0
  BY <1>3, <1>4
<1>6. d \in K_LOG..TREE_DEPTH
  BY <1>1, <1>2
<1>7. v[d] = TreeOf(xs \o LV)[d][Shift(n, d)]
  BY <1>1, <1>6, PathInTree
<1> QED
  BY <1>1, <1>5, <1>7 DEF treeRoot


(***************************************************************************)
(* The roots the ring should hold after ep flushes, of the leaves xs.      *)
(***************************************************************************)
Writers(ep, s) == {e \in 1..ep : e + RING > ep /\ (e - 1) % RING = s}
Writer(ep, s) == CHOOSE e \in Writers(ep, s) : TRUE
Held(xs, ep) ==
    [s \in Slot |-> IF Writers(ep, s) = {} THEN Z
                    ELSE treeRoot(SubSeq(xs, 1, BATCH * Writer(ep, s)))]

\* The next flush is the only writer of its slot, and changes no other.
LEMMA WritersAre ==
    ASSUME NEW ep \in Nat
    PROVE  /\ ep % RING \in Slot
           /\ Writers(ep + 1, ep % RING) = {ep + 1}
           /\ \A s \in Slot : s # ep % RING => Writers(ep + 1, s) = Writers(ep, s)
<1>1. PICK R, t : R = RING /\ t = ep % RING /\ R \in Nat \ {0}
  BY SlotIs
<1>2. t \in Slot
  BY <1>1, DivMod DEF Slot
<1>3. (ep + 1) - 1 = ep /\ ep + 1 \in 1..ep + 1 /\ (ep + 1) + R > ep + 1
  BY <1>1
<1>4. ASSUME NEW e \in 1..ep + 1, e + R > ep + 1, (e - 1) % R = t PROVE e = ep + 1
  <2> SUFFICES ASSUME e # ep + 1 PROVE FALSE
    OBVIOUS
  <2>1. e - 1 \in Nat /\ e - 1 < ep /\ ep < (e - 1) + R
    BY <1>1, <1>4
  <2>2. (e - 1) % R # ep % R
    BY <1>1, <2>1, NearbyEpochsDiffer
  <2> QED
    BY <1>1, <1>4, <2>2
<1>5. Writers(ep + 1, t) = {ep + 1}
  <2>1. ep + 1 \in Writers(ep + 1, t)
    BY <1>1, <1>3 DEF Writers
  <2>2. \A e \in Writers(ep + 1, t) : e = ep + 1
    BY <1>1, <1>4 DEF Writers
  <2> QED
    BY <2>1, <2>2
<1>6. ASSUME NEW s \in Slot, s # t, NEW e
      PROVE  e \in Writers(ep + 1, s) <=> e \in Writers(ep, s)
  <2>1. ASSUME e \in 1..ep, e + R > ep, (e - 1) % R = s
        PROVE  e \in 1..ep + 1 /\ e + R > ep + 1
    <3> SUFFICES ASSUME e + R = ep + 1 PROVE FALSE
      BY <1>1, <2>1
    <3>1. e - 1 \in Nat /\ (e - 1) + R = ep
      BY <1>1, <2>1
    <3>2. ep % R = (e - 1) % R
      BY <1>1, <3>1, RoundLater
    <3> QED
      BY <1>1, <1>6, <2>1, <3>2
  <2>2. ASSUME e \in 1..ep + 1, e + R > ep + 1, (e - 1) % R = s
        PROVE  e \in 1..ep /\ e + R > ep
    <3>1. e # ep + 1
      BY <1>1, <1>3, <1>6, <2>2
    <3>2. R \in Nat
      BY <1>1
    <3>3. e \in 1..ep + 1 /\ e + R > ep + 1
      BY <2>2
    <3> QED
      BY <3>1, <3>2, <3>3
  <2> QED
    BY <1>1, <2>1, <2>2 DEF Writers
<1>7. ASSUME NEW s \in Slot, s # t PROVE Writers(ep + 1, s) = Writers(ep, s)
  BY <1>6, <1>7
<1> QED
  BY <1>1, <1>2, <1>5, <1>7

LEMMA WriterIs ==
    ASSUME NEW ep \in Nat, NEW s, Writers(ep, s) # {}
    PROVE  Writer(ep, s) \in 1..ep /\ Writer(ep, s) + RING > ep
<1>1. Writer(ep, s) \in Writers(ep, s)
  BY DEF Writer
<1> QED
  BY <1>1 DEF Writers

LEMMA HeldMoves ==
    ASSUME NEW xs, NEW LV, Fits(xs, LV), NEW ep \in Nat, Len(xs) = BATCH * ep
    PROVE  Held(xs \o LV, ep + 1) = [Held(xs, ep) EXCEPT ![ep % RING] = treeRoot(xs \o LV)]
<1>1. PICK ys, t : ys = xs \o LV /\ t = ep % RING
  OBVIOUS
<1>2. /\ xs \in Seq(Leaf) /\ LV \in Seq(Leaf) /\ ys \in Seq(Leaf) /\ BATCH \in Nat \ {0}
      /\ Len(ys) = BATCH * (ep + 1)
  <2>1. xs \in Seq(Leaf) /\ LV \in Seq(Leaf) /\ ys \in Seq(Leaf) /\ Len(ys) = Len(xs) + BATCH
    BY <1>1, FitsIs DEF Fits
  <2>2. BATCH \in Nat \ {0}
    BY ShapeIs
  <2>3. BATCH * (ep + 1) = BATCH * ep + BATCH
    BY <2>2, MultipleIs
  <2> QED
    BY <2>1, <2>2, <2>3
<1>3. SubSeq(ys, 1, Len(ys)) = ys
  BY <1>2
<1>4. ASSUME NEW e \in 1..ep PROVE SubSeq(ys, 1, BATCH * e) = SubSeq(xs, 1, BATCH * e)
  <2>1. BATCH * e >= 1 /\ BATCH * e <= BATCH * ep /\ BATCH * e \in Int
    BY <1>2, BatchesGrow
  <2>2. PICK m : m = BATCH * e
    OBVIOUS
  <2>3. m \in 1..Len(xs)
    <3>1. Len(xs) \in Nat /\ m <= Len(xs) /\ m >= 1 /\ m \in Int
      BY <1>2, <2>1, <2>2
    <3> QED
      BY <3>1
  <2>4. SubSeq(xs \o LV, 1, m) = SubSeq(xs, 1, m)
    BY <1>2, <2>3, PrefixOfConcat
  <2> QED
    BY <1>1, <2>2, <2>4
<1>5. Held(ys, ep + 1)[t] = treeRoot(ys)
  <2>1. t \in Slot /\ Writers(ep + 1, t) = {ep + 1}
    BY <1>1, WritersAre
  <2>2. Writer(ep + 1, t) = ep + 1
    BY <2>1 DEF Writer
  <2> QED
    BY <1>2, <1>3, <2>1, <2>2 DEF Held
<1>6. ASSUME NEW s \in Slot, s # t PROVE Held(ys, ep + 1)[s] = Held(xs, ep)[s]
  <2>1. Writers(ep + 1, s) = Writers(ep, s)
    BY <1>1, <1>6, WritersAre
  <2>2. Writer(ep + 1, s) = Writer(ep, s)
    BY <2>1 DEF Writer
  <2>3. CASE Writers(ep, s) = {}
    BY <2>1, <2>3 DEF Held
  <2>4. CASE Writers(ep, s) # {}
    <3>1. Writer(ep, s) \in 1..ep
      BY <2>4, WriterIs
    <3>2. SubSeq(ys, 1, BATCH * Writer(ep, s)) = SubSeq(xs, 1, BATCH * Writer(ep, s))
      BY <1>4, <3>1
    <3> QED
      BY <2>1, <2>2, <2>4, <3>2 DEF Held
  <2> QED
    BY <2>3, <2>4
<1>7. t \in Slot
  BY <1>1, WritersAre
<1>8. PICK a, b, x : a = Held(ys, ep + 1) /\ b = Held(xs, ep) /\ x = treeRoot(ys)
  OBVIOUS
<1>9. a = [s \in Slot |-> a[s]] /\ b = [s \in Slot |-> b[s]]
  BY <1>8 DEF Held
<1>10. a[t] = x /\ \A s \in Slot : s # t => a[s] = b[s]
  BY <1>5, <1>6, <1>8
<1>11. a = [b EXCEPT ![t] = x]
  BY <1>7, <1>9, <1>10
<1> QED
  BY <1>1, <1>8, <1>11

(***************************************************************************)
(* The invariant: the count, the frontier and the ring are those of the    *)
(* leaves flushed so far.                                                  *)
(***************************************************************************)
TreeInv ==
    /\ leaves \in Seq(Leaf) /\ epoch \in Nat /\ Len(leaves) = BATCH * epoch
    /\ F = [l \in PathLevel |-> F[l]] /\ FrontierIsTheTree
    /\ slots = Held(leaves, epoch) /\ histRoot = RingRoot(slots)

LEMMA FrontierIs ==
    FrontierIsTheTree <=> count = Len(leaves) /\ IsFrontier(F, leaves)
<1>1. CASE count = Len(leaves)
  BY <1>1 DEF FrontierIsTheTree, IsFrontier
<1> QED
  BY <1>1 DEF FrontierIsTheTree

LEMMA RingHolds ==
    TreeInv => RingIsTheTrees
<1> SUFFICES ASSUME TreeInv PROVE RingIsTheTrees
  OBVIOUS
<1>1. histRoot = RingRoot(Held(leaves, epoch))
  BY DEF TreeInv
<1> QED
  BY <1>1 DEF RingIsTheTrees, Held, Writers, Writer, RootAfter

LEMMA TreeStarts ==
    TreeInit => TreeInv
<1> SUFFICES ASSUME TreeInit PROVE TreeInv
  OBVIOUS
<1>1. leaves \in Seq(Leaf) /\ Len(leaves) = 0 /\ epoch \in Nat /\ epoch = 0
  BY DEF TreeInit
<1>2. BATCH * epoch = 0
  BY <1>1, ShapeIs
<1>3. F = [l \in PathLevel |-> F[l]]
  BY DEF TreeInit
<1>4. FrontierIsTheTree
  <2>1. ASSUME NEW l \in PathLevel PROVE Bit(0, l) # 1 /\ F[l] = Z
    <3>1. l \in Nat
      BY ShapeIs DEF PathLevel
    <3>2. Two[l] \in Nat \ {0}
      BY <3>1, TwoIs
    <3>3. Shift(0, l) = 0
      BY <3>2 DEF Shift
    <3> QED
      BY <3>3 DEF TreeInit, Bit
  <2> QED
    BY <1>1, <2>1 DEF FrontierIsTheTree, TreeInit
<1>5. slots = Held(leaves, epoch)
  <2>1. \A s \in Slot : Writers(epoch, s) = {}
    BY <1>1 DEF Writers
  <2> QED
    BY <2>1 DEF TreeInit, Held
<1>6. histRoot = RingRoot(slots)
  BY DEF TreeInit
<1> QED
  BY <1>1, <1>2, <1>3, <1>4, <1>5, <1>6 DEF TreeInv

LEMMA BatchFits ==
    ASSUME TreeInv, count <= MAX_COUNT, NEW LV \in Batches
    PROVE  Fits(leaves, LV)
<1>1. Len(leaves) % BATCH = 0
  BY ShapeIs, MultipleIs DEF TreeInv
<1>2. leaves \in Seq(Leaf) /\ Len(leaves) <= MAX_COUNT
  BY DEF TreeInv, FrontierIsTheTree
<1> QED
  BY <1>1, <1>2 DEF Fits

LEMMA SlotsAre ==
    ASSUME TreeInv
    PROVE  slots = [s \in Slot |-> slots[s]] /\ DOMAIN slots = Slot /\ epoch % RING \in Slot
<1>1. slots = [s \in Slot |-> slots[s]] /\ DOMAIN slots = Slot
  BY DEF TreeInv, Held
<1>2. epoch % RING \in Slot
  BY WritersAre DEF TreeInv
<1> QED
  BY <1>1, <1>2

\* What opens at a slot, with siblings in a sequence of the right length.
LEMMA OpensAtSlot ==
    ASSUME TreeInv, NEW x, NEW s \in Slot, NEW HS, PathRoot(x, s, HS) = histRoot
    PROVE  x = slots[s] /\ \A k \in 1..RING_LOG : HS[k] = RingPath(slots, s)[k]
<1>1. PathRoot(x, s, HS) = RingRoot(slots)
  BY DEF TreeInv
<1> QED
  BY <1>1, PathIsRing

LEMMA OpenedIs ==
    ASSUME TreeInv, NEW x, NEW s \in Slot, NEW U, NEW HS \in [1..RING_LOG -> U],
           PathRoot(x, s, HS) = histRoot
    PROVE  x = slots[s] /\ HS = RingPath(slots, s)
<1>1. x = slots[s] /\ \A k \in 1..RING_LOG : HS[k] = RingPath(slots, s)[k]
  BY OpensAtSlot
<1>2. PICK P : P = RingPath(slots, s)
  OBVIOUS
<1>3. P = [k \in 1..RING_LOG |-> P[k]]
  BY <1>2 DEF RingPath
<1>4. HS = [k \in 1..RING_LOG |-> HS[k]]
  OBVIOUS
<1>5. \A k \in 1..RING_LOG : HS[k] = P[k]
  BY <1>1, <1>2
<1>6. HS = P
  BY <1>3, <1>4, <1>5
<1> QED
  BY <1>1, <1>2, <1>6

(***************************************************************************)
(* A flush keeps the invariant.                                            *)
(***************************************************************************)
LEMMA TurnIs ==
    ASSUME TreeInv, NEW ROOT, Turn(ROOT)
    PROVE  /\ epoch' = epoch + 1
           /\ slots' = [slots EXCEPT ![epoch % RING] = ROOT]
           /\ histRoot' = RingRoot(slots')
<1>1. PICK s : s = epoch % RING /\ s \in Slot
  BY SlotsAre
<1>2. PICK OLD \in SendableEntry, HS \in [1..RING_LOG -> SendableEntry] :
         PathRoot(OLD, s, HS) = histRoot /\ histRoot' = PathRoot(ROOT, s, HS)
  <2>1. PICK OLD \in SendableEntry, HS \in [1..RING_LOG -> SendableEntry] :
           Replaces(histRoot, epoch, OLD, HS) /\ histRoot' = PathRoot(ROOT, epoch % RING, HS)
    BY DEF Turn
  <2>2. PathRoot(OLD, s, HS) = histRoot
    BY <1>1, <2>1 DEF Replaces
  <2> QED
    BY <1>1, <2>1, <2>2
<1>3. HS = RingPath(slots, s)
  BY <1>1, <1>2, OpenedIs
<1>4. PathRoot(ROOT, s, RingPath(slots, s)) = RingRoot([slots EXCEPT ![s] = ROOT])
  BY <1>1, SlotsAre, RingReplaced
<1>5. slots' = [slots EXCEPT ![epoch % RING] = ROOT] /\ epoch' = epoch + 1
  BY DEF Turn
<1> QED
  BY <1>1, <1>2, <1>3, <1>4, <1>5

\* What a flush commits to, whatever was claimed.
LEMMA FlushIs ==
    ASSUME TreeInv, NEW LV \in Batches, Flush(LV)
    PROVE  \E X : /\ \A k : Enters(count, k) => X = PathOf(LV, F, count)[k]
                  /\ F' = Advanced(F, count, X)
                  /\ Turn(PathOf(LV, F, count)[TREE_DEPTH])
<1>1. PICK v : v = PathOf(LV, F, count) /\ IsPath(v, LV, F, count)
  BY PlanIsPath
<1>2. PICK A8, B4, X, H11, H23, ROOT :
         LET r2 == Region2(LV, A8, B4, X)
             r3 == Region3(r2, H11, X)
             r4 == Region4(r3, H23, X)
         IN  /\ WorkerAccepts(W1Program(LV, A8, B4)) /\ WorkerAccepts(r2.io \o Check(H11))
             /\ WorkerAccepts(r3.io \o Check(H23)) /\ WorkerAccepts(r4.io \o Check(ROOT))
             /\ F' = r4.Fp /\ Turn(ROOT)
  BY DEF Flush
<1>3. PICK r2, r3, r4 : /\ r2 = Region2(LV, A8, B4, X)
                        /\ r3 = Region3(r2, H11, X) /\ r4 = Region4(r3, H23, X)
  OBVIOUS
<1>4. /\ WorkerAccepts(W1Program(LV, A8, B4)) /\ WorkerAccepts(r2.io \o Check(H11))
      /\ WorkerAccepts(r3.io \o Check(H23)) /\ WorkerAccepts(r4.io \o Check(ROOT))
      /\ F' = r4.Fp /\ Turn(ROOT)
  BY <1>2, <1>3
<1>5. count \in Nat
  BY DEF TreeInv, FrontierIsTheTree
<1>6. /\ ROOT = v[TREE_DEPTH] /\ \A k : Enters(count, k) => X = v[k]
      /\ r4.Fp = Advanced(F, count, X)
  BY <1>1, <1>3, <1>4, <1>5, WorkersAre
<1> QED
  BY <1>1, <1>4, <1>6

LEMMA FlushKeeps ==
    ASSUME TreeInv, NEW LV \in Batches, Flush(LV)
    PROVE  TreeInv'
<1>1. PICK v : v = PathOf(LV, F, count) /\ IsPath(v, LV, F, count)
  BY PlanIsPath
<1>2. PICK X : /\ \A k : Enters(count, k) => X = v[k]
               /\ F' = Advanced(F, count, X) /\ Turn(v[TREE_DEPTH])
  BY <1>1, FlushIs
<1>3. Fits(leaves, LV)
  <2>1. count <= MAX_COUNT
    BY ShapeIs DEF Flush
  <2> QED
    BY <2>1, BatchFits
<1>4. count = Len(leaves) /\ IsFrontier(F, leaves) /\ epoch \in Nat /\ Len(leaves) = BATCH * epoch
  BY FrontierIs DEF TreeInv
<1>5. leaves' = leaves \o LV /\ count' = count + BATCH
  BY DEF Flush
<1>6. PICK ys : ys = leaves \o LV /\ ys \in Seq(Leaf) /\ Len(ys) = Len(leaves) + BATCH
  BY <1>3, FitsIs
<1>7. v[TREE_DEPTH] = treeRoot(ys) /\ IsFrontier(F', ys)
  <2>1. v[TREE_DEPTH] = treeRoot(leaves \o LV)
    BY <1>1, <1>3, <1>4, RootOfPath
  <2>2. IsFrontier(Advanced(F, count, X), leaves \o LV)
    BY <1>1, <1>2, <1>3, <1>4, FrontierAdvances
  <2> QED
    BY <1>2, <1>6, <2>1, <2>2
<1>8. /\ epoch' = epoch + 1 /\ slots' = [slots EXCEPT ![epoch % RING] = treeRoot(ys)]
      /\ histRoot' = RingRoot(slots')
  BY <1>2, <1>7, TurnIs
<1>9. Held(ys, epoch + 1) = [slots EXCEPT ![epoch % RING] = treeRoot(ys)]
  <2>1. slots = Held(leaves, epoch)
    BY DEF TreeInv
  <2>2. Held(leaves \o LV, epoch + 1) =
           [Held(leaves, epoch) EXCEPT ![epoch % RING] = treeRoot(leaves \o LV)]
    BY <1>3, <1>4, HeldMoves
  <2> QED
    BY <1>6, <2>1, <2>2
<1>10. Len(ys) = BATCH * (epoch + 1) /\ epoch + 1 \in Nat
  <2>1. BATCH \in Nat \ {0}
    BY ShapeIs
  <2>2. BATCH * (epoch + 1) = BATCH * epoch + BATCH
    BY <1>4, <2>1, MultipleIs
  <2> QED
    BY <1>4, <1>6, <2>2
<1>11. F' = [l \in PathLevel |-> F'[l]]
  BY <1>2 DEF Advanced
<1>12. FrontierIsTheTree'
  <2>1. count' = Len(leaves') /\ IsFrontier(F', leaves')
    BY <1>4, <1>5, <1>6, <1>7
  <2> QED
    BY <2>1 DEF FrontierIsTheTree, IsFrontier
<1> QED
  BY <1>5, <1>6, <1>8, <1>9, <1>10, <1>11, <1>12 DEF TreeInv

\* After every flush D's count and frontier, and the ring W commits to, are those of
\* the leaves flushed so far.
THEOREM TreeInvariant == TreeSpec => []TreeInv
<1>1. TreeInit => TreeInv
  BY TreeStarts
<1>2. TreeInv /\ [TreeNext]_treeVars => TreeInv'
  <2> SUFFICES ASSUME TreeInv, [TreeNext]_treeVars PROVE TreeInv'
    OBVIOUS
  <2>1. CASE TreeNext
    BY <2>1, FlushKeeps DEF TreeNext
  <2>2. CASE UNCHANGED treeVars
    BY <2>2 DEF TreeInv, FrontierIsTheTree, treeVars
  <2> QED
    BY <2>1, <2>2
<1> QED
  BY <1>1, <1>2, PTL DEF TreeSpec

(***************************************************************************)
(* The four properties.                                                    *)
(***************************************************************************)
\* Whatever claims, old entries and siblings the spenders send, the ring W
\* commits to holds the roots of the trees after the last RING flushes.
THEOREM RingIsTheTreesAlways == TreeSpec => []RingIsTheTrees
<1> QED
  BY TreeInvariant, RingHolds, PTL

\* D's count and frontier are those of the leaves flushed, to the last batch.
THEOREM FrontierIsTheTreeAlways == TreeSpec => []FrontierIsTheTree
<1>1. TreeInv => FrontierIsTheTree
  BY DEF TreeInv
<1> QED
  BY <1>1, TreeInvariant, PTL

LEMMA OpenedWasWritten ==
    TreeInv => OpenedIsInTheRing
<1> SUFFICES ASSUME TreeInv, NEW ROOT \in SendableEntry, NEW s \in 0..2 * RING - 1,
                    NEW HS \in [1..RING_LOG -> SendableEntry], Opens(histRoot, ROOT, s, HS)
             PROVE  /\ s \in Slot /\ ROOT = slots[s] /\ HS = RingPath(slots, s)
                    /\ \E e \in 1..epoch : e + RING > epoch /\ ROOT = RootAfter(e)
  BY DEF OpenedIsInTheRing
<1>1. ROOT # Z /\ s \in Slot /\ PathRoot(ROOT, s, HS) = histRoot
  BY DEF Opens
<1>2. ROOT = slots[s] /\ HS = RingPath(slots, s)
  BY <1>1, OpenedIs
<1>3. epoch \in Nat /\ slots = Held(leaves, epoch)
  BY DEF TreeInv
<1>4. Writers(epoch, s) # {} /\ ROOT = treeRoot(SubSeq(leaves, 1, BATCH * Writer(epoch, s)))
  BY <1>1, <1>2, <1>3 DEF Held
<1>5. Writer(epoch, s) \in 1..epoch /\ Writer(epoch, s) + RING > epoch
  BY <1>3, <1>4, WriterIs
<1>6. ROOT = RootAfter(Writer(epoch, s))
  BY <1>4 DEF RootAfter
<1> QED
  BY <1>1, <1>2, <1>5, <1>6

\* W opens what one of the last RING flushes wrote, and in one way only.
THEOREM OpenedIsInTheRingAlways == TreeSpec => []OpenedIsInTheRing
<1> QED
  BY TreeInvariant, OpenedWasWritten, PTL

\* Right claims pass.
LEMMA PathPasses ==
    ASSUME count \in Nat, NEW LV, NEW v, IsPath(v, LV, F, count),
           NEW A8, A8 = SubtreeNode(LV, 0, K_LOG - 1),
           NEW B4, B4 = SubtreeNode(LV, Two[K_LOG - 1], K_LOG - 2),
           NEW X, \A k : Enters(count, k) => X = v[k],
           NEW H11, H11 = v[CUTS[1]], NEW H23, H23 = v[CUTS[2]], NEW ROOT, ROOT = v[TREE_DEPTH],
           NEW r2, r2 = Region2(LV, A8, B4, X),
           NEW r3, r3 = Region3(r2, H11, X),
           NEW r4, r4 = Region4(r3, H23, X)
    PROVE  /\ WorkerAccepts(W1Program(LV, A8, B4)) /\ WorkerAccepts(r2.io \o Check(H11))
           /\ WorkerAccepts(r3.io \o Check(H23)) /\ WorkerAccepts(r4.io \o Check(ROOT))
           /\ r4.Fp = Advanced(F, count, X)
BY WorkersAre

\* The reference's claims pass, because they are the nodes of the path.
LEMMA PlanPasses ==
    ASSUME TreeInv, count <= MAX_COUNT, NEW LV \in Batches,
           NEW p, p = FlushPlan(LV, F, count),
           NEW r2, r2 = Region2(LV, p.A8, p.B4, p.X),
           NEW r3, r3 = Region3(r2, p.H11, p.X),
           NEW r4, r4 = Region4(r3, p.H23, p.X)
    PROVE  /\ WorkerAccepts(W1Program(LV, p.A8, p.B4)) /\ WorkerAccepts(r2.io \o Check(p.H11))
           /\ WorkerAccepts(r3.io \o Check(p.H23)) /\ WorkerAccepts(r4.io \o Check(p.ROOT))
           /\ r4.Fp = p.Fn
<1>1. PICK v, q : /\ v = PathOf(LV, F, count) /\ IsPath(v, LV, F, count)
                  /\ q = Plan(LV, F, count)
  BY PlanIsPath
<1>2. count \in Nat /\ F = [k \in PathLevel |-> F[k]]
  BY DEF TreeInv, FrontierIsTheTree
<1>3. /\ p.A8 = SubtreeNode(LV, 0, K_LOG - 1)
      /\ p.B4 = SubtreeNode(LV, Two[K_LOG - 1], K_LOG - 2)
      /\ p.H11 = q[CUTS[1]].node /\ p.H23 = q[CUTS[2]].node /\ p.ROOT = q[TREE_DEPTH].node
      /\ p.X = q[TREE_DEPTH].X /\ p.Fn = q[TREE_DEPTH].Fn
  BY <1>1 DEF FlushPlan
<1>4. p.H11 = v[CUTS[1]] /\ p.H23 = v[CUTS[2]] /\ p.ROOT = v[TREE_DEPTH]
  <2>1. /\ CUTS[1] \in K_LOG..TREE_DEPTH /\ CUTS[2] \in K_LOG..TREE_DEPTH
        /\ TREE_DEPTH \in K_LOG..TREE_DEPTH
    BY ShapeIs
  <2>2. \A l \in K_LOG..TREE_DEPTH : v[l] = q[l].node
    BY <1>1 DEF PathOf
  <2> QED
    BY <1>3, <2>1, <2>2
<1>5. (\A k : Enters(count, k) => p.X = v[k]) /\ p.Fn = Advanced(F, count, p.X)
  <2>1. PICK z : z = Plan(LV, F, count)[TREE_DEPTH] /\ z = q[TREE_DEPTH]
    BY <1>1
  <2>2. (\A k : Enters(count, k) => z.X = v[k]) /\ z.Fn = Advanced(F, count, z.X)
    BY <1>1, <1>2, <2>1, PlanEnters
  <2> QED
    BY <1>3, <2>1, <2>2
<1>6. PICK A8, B4, X, H11, H23, ROOT :
         /\ A8 = p.A8 /\ B4 = p.B4 /\ X = p.X /\ H11 = p.H11 /\ H23 = p.H23 /\ ROOT = p.ROOT
  OBVIOUS
<1>7. r2 = Region2(LV, A8, B4, X) /\ r3 = Region3(r2, H11, X) /\ r4 = Region4(r3, H23, X)
  BY <1>6
<1>8. /\ A8 = SubtreeNode(LV, 0, K_LOG - 1)
      /\ B4 = SubtreeNode(LV, Two[K_LOG - 1], K_LOG - 2)
      /\ H11 = v[CUTS[1]] /\ H23 = v[CUTS[2]] /\ ROOT = v[TREE_DEPTH]
      /\ \A k : Enters(count, k) => X = v[k]
  BY <1>3, <1>4, <1>5, <1>6
<1>9. /\ WorkerAccepts(W1Program(LV, A8, B4)) /\ WorkerAccepts(r2.io \o Check(H11))
      /\ WorkerAccepts(r3.io \o Check(H23)) /\ WorkerAccepts(r4.io \o Check(ROOT))
      /\ r4.Fp = Advanced(F, count, X)
  BY <1>1, <1>2, <1>7, <1>8, PathPasses
<1> QED
  BY <1>5, <1>6, <1>9

LEMMA PlanHolds ==
    TreeInv => PlanIsAccepted
<1> SUFFICES ASSUME TreeInv PROVE PlanIsAccepted
  OBVIOUS
<1>1. \A s \in Slot : PathRoot(slots[s], s, RingPath(slots, s)) = histRoot
  <2>1. \A s \in Slot : PathRoot(slots[s], s, RingPath(slots, s)) = RingRoot(slots)
    BY SlotsAre, RingOpens
  <2> QED
    BY <2>1 DEF TreeInv
<1>2. epoch % RING \in Slot
  BY SlotsAre
<1>3. Replaces(histRoot, epoch, slots[epoch % RING], RingPath(slots, epoch % RING))
  BY <1>1, <1>2 DEF Replaces
<1>4. \A s \in Slot : slots[s] # Z => Opens(histRoot, slots[s], s, RingPath(slots, s))
  BY <1>1 DEF Opens
<1>5. ASSUME count <= MAX_COUNT, NEW LV \in Batches
      PROVE  LET p  == FlushPlan(LV, F, count)
                 r2 == Region2(LV, p.A8, p.B4, p.X)
                 r3 == Region3(r2, p.H11, p.X)
                 r4 == Region4(r3, p.H23, p.X)
             IN  /\ WorkerAccepts(W1Program(LV, p.A8, p.B4))
                 /\ WorkerAccepts(r2.io \o Check(p.H11))
                 /\ WorkerAccepts(r3.io \o Check(p.H23))
                 /\ WorkerAccepts(r4.io \o Check(p.ROOT))
                 /\ r4.Fp = p.Fn
  BY <1>5, PlanPasses
<1> QED
  BY <1>3, <1>4, <1>5 DEF PlanIsAccepted

\* An honest keeper can always flush, and an owner always open.
THEOREM PlanIsAcceptedAlways == TreeSpec => []PlanIsAccepted
<1> QED
  BY TreeInvariant, PlanHolds, PTL
=============================================================================
