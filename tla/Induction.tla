------------------------------- MODULE Induction -------------------------------
(***************************************************************************)
(* Induction and recursion up to a number.  These are about sets and       *)
(* functions, so that they can be cited for any of them.                   *)
(***************************************************************************)
EXTENDS Integers, SequenceTheorems, WellFoundedInduction, TLAPS

LEMMA Least ==
    ASSUME NEW T \in SUBSET Nat, T # {}
    PROVE  \E x \in T : \A y \in T : x <= y
<1>1. PICK x \in T : \A y \in T : ~(<<y, x>> \in OpToRel(<, Nat))
  BY NatLessThanWellFounded, WFMin
<1>2. \A y \in T : ~(y < x)
  BY <1>1 DEF OpToRel
<1> QED
  BY <1>2

LEMMA UpTo ==
    ASSUME NEW n \in Nat, NEW T, 0 \in T,
           \A k \in 0..n : k \in T /\ k < n => k + 1 \in T
    PROVE  \A k \in 0..n : k \in T
<1> SUFFICES ASSUME NEW k \in 0..n, k \notin T PROVE FALSE
  OBVIOUS
<1> DEFINE R == {j \in 0..n : j \notin T}
<1>0. R \in SUBSET Nat /\ k \in R
  OBVIOUS
<1> HIDE DEF R
<1>1. PICK m \in R : \A y \in R : m <= y
  BY <1>0, Least
<1> USE DEF R
<1>2. m # 0 /\ m - 1 \in 0..n /\ m - 1 < n /\ m - 1 < m
  BY <1>1
<1>3. m - 1 \in T
  BY <1>1, <1>2
<1>4. (m - 1) + 1 \in T
  BY <1>2, <1>3
<1> QED
  BY <1>1, <1>4

\* F takes a value and an index to the next value; h has them all, a the first.
StaysIn(F, S, n) == \A q \in S, j \in 1..n : F[<<q, j>>] \in S
Follows(h, a, F, n) == h[0] = a /\ \A j \in 1..n : h[j] = F[<<h[j - 1], j>>]

LEMMA Recursion ==
    ASSUME NEW S, NEW a \in S, NEW n \in Nat, NEW F, StaysIn(F, S, n)
    PROVE  \E h \in [0..n -> S] : Follows(h, a, F, n)
<1> DEFINE Upto(m, h) == h[0] = a /\ \A j \in 1..m : h[j] = F[<<h[j - 1], j>>]
           T == {m \in 0..n : \E h \in [0..m -> S] : Upto(m, h)}
<1>1. 0 \in T
  <2> DEFINE h == [j \in 0..0 |-> a]
  <2>1. h \in [0..0 -> S] /\ h[0] = a /\ \A j \in 1..0 : h[j] = F[<<h[j - 1], j>>]
    OBVIOUS
  <2> HIDE DEF h
  <2> QED
    BY <2>1
<1>2. ASSUME NEW k \in 0..n, k \in T, k < n PROVE k + 1 \in T
  <2>1. PICK h \in [0..k -> S] : Upto(k, h)
    BY <1>2
  <2> DEFINE g == [j \in 0..k + 1 |-> IF j = k + 1 THEN F[<<h[k], k + 1>>] ELSE h[j]]
  <2>2. k + 1 \in 1..n /\ h[k] \in S
    BY <1>2
  <2>3. F[<<h[k], k + 1>>] \in S
    BY <2>2 DEF StaysIn
  <2>4. g \in [0..k + 1 -> S]
    BY <2>3
  <2>5. g[0] = a
    BY <2>1, <2>2
  <2>6. ASSUME NEW j \in 1..k + 1 PROVE g[j] = F[<<g[j - 1], j>>]
    <3>1. CASE j = k + 1
      <4>1. j - 1 = k /\ k \in 0..k + 1 /\ k # k + 1
        BY <3>1
      <4>2. g[j - 1] = h[k] /\ g[j] = F[<<h[k], k + 1>>]
        BY <3>1, <4>1
      <4> QED
        BY <3>1, <4>2
    <3>2. CASE j # k + 1
      <4>1. j \in 1..k /\ j - 1 \in 0..k
        BY <3>2
      <4>2. g[j] = h[j] /\ g[j - 1] = h[j - 1]
        BY <4>1
      <4> QED
        BY <2>1, <4>1, <4>2
    <3> QED
      BY <3>1, <3>2
  <2> HIDE DEF g
  <2>7. Upto(k + 1, g)
    BY <2>5, <2>6
  <2> QED
    BY <2>2, <2>4, <2>7
<1> HIDE DEF T
<1>3. n \in T
  BY <1>1, <1>2, UpTo
<1> QED
  BY <1>3 DEF T, Follows

\* Induction down from a number.
LEMMA DownTo ==
    ASSUME NEW n \in Nat, NEW T, n \in T,
           \A k \in 0..n : k + 1 \in T /\ k < n => k \in T
    PROVE  \A k \in 0..n : k \in T
<1> DEFINE R == {j \in 0..n : n - j \in T}
<1>1. 0 \in R
  OBVIOUS
<1>2. \A k \in 0..n : k \in R /\ k < n => k + 1 \in R
  <2> SUFFICES ASSUME NEW k \in 0..n, k \in R, k < n PROVE k + 1 \in R
    OBVIOUS
  <2>1. n - (k + 1) \in 0..n /\ n - (k + 1) < n /\ (n - (k + 1)) + 1 = n - k
    OBVIOUS
  <2>2. n - (k + 1) \in T
    BY <2>1
  <2> QED
    BY <2>2
<1> HIDE DEF R
<1>3. \A k \in 0..n : k \in R
  BY <1>1, <1>2, UpTo
<1> QED
  <2> SUFFICES ASSUME NEW k \in 0..n PROVE k \in T
    OBVIOUS
  <2>1. n - k \in R /\ n - (n - k) = k
    BY <1>3
  <2> QED
    BY <2>1 DEF R

\* Induction from one number to another.
LEMMA FromTo ==
    ASSUME NEW a \in Nat, NEW n \in Nat, NEW T, a \in T,
           \A k \in a..n : k \in T /\ k < n => k + 1 \in T
    PROVE  \A k \in a..n : k \in T
<1> DEFINE R == {j \in 0..n : j < a \/ j \in T}
<1>1. 0 \in R
  OBVIOUS
<1>2. \A k \in 0..n : k \in R /\ k < n => k + 1 \in R
  <2> SUFFICES ASSUME NEW k \in 0..n, k \in R, k < n PROVE k + 1 \in R
    OBVIOUS
  <2>1. k + 1 \in 0..n /\ (k + 1 < a \/ k + 1 = a \/ k \in a..n)
    OBVIOUS
  <2> QED
    BY <2>1
<1> HIDE DEF R
<1>3. \A k \in 0..n : k \in R
  BY <1>1, <1>2, UpTo
<1> QED
  BY <1>3 DEF R

\* The values of h from a to k, and y at k + 1.
Extend(h, a, k, y) == [l \in a..k + 1 |-> IF l = k + 1 THEN y ELSE h[l]]

LEMMA Extended ==
    ASSUME NEW h, NEW a \in Nat, NEW k \in Nat, a <= k, NEW y
    PROVE  /\ \A l \in a..k : Extend(h, a, k, y)[l] = h[l]
           /\ Extend(h, a, k, y)[k + 1] = y
BY DEF Extend
\* Recursion without a bound, and recursion from one number to another.
AlwaysStaysIn(F, S) == \A n \in Nat : StaysIn(F, S, n)
AlwaysFollows(h, a, F) == h[0] = a /\ \A j \in Nat \ {0} : h[j] = F[<<h[j - 1], j>>]
StaysBetween(F, S, m, n) == \A q \in S, j \in m + 1..n : F[<<q, j>>] \in S
FollowsBetween(h, a, F, m, n) == h[m] = a /\ \A j \in m + 1..n : h[j] = F[<<h[j - 1], j>>]

LEMMA Agree ==
    ASSUME NEW S, NEW F, NEW a, NEW n \in Nat, NEW m \in 0..n, NEW f, NEW g,
           Follows(f, a, F, n), Follows(g, a, F, m)
    PROVE  \A k \in 0..m : f[k] = g[k]
<1> DEFINE T == {k \in 0..m : f[k] = g[k]}
<1>1. 0 \in T
  BY DEF Follows
<1>2. \A k \in 0..m : k \in T /\ k < m => k + 1 \in T
  <2> SUFFICES ASSUME NEW k \in 0..m, k \in T, k < m PROVE k + 1 \in T
    OBVIOUS
  <2>1. k + 1 \in 1..m /\ k + 1 \in 1..n /\ k + 1 \in 0..m /\ (k + 1) - 1 = k
    OBVIOUS
  <2>2. f[k + 1] = F[<<f[k], k + 1>>] /\ g[k + 1] = F[<<g[k], k + 1>>]
    BY <2>1 DEF Follows
  <2> QED
    BY <2>1, <2>2
<1> HIDE DEF T
<1>3. \A k \in 0..m : k \in T
  BY <1>1, <1>2, UpTo
<1> QED
  BY <1>3 DEF T

LEMMA NatRecursion ==
    ASSUME NEW S, NEW a \in S, NEW F, AlwaysStaysIn(F, S)
    PROVE  \E h \in [Nat -> S] : AlwaysFollows(h, a, F)
<1> DEFINE Up(n) == CHOOSE f \in [0..n -> S] : Follows(f, a, F, n)
           h == [n \in Nat |-> Up(n)[n]]
<1>1. ASSUME NEW n \in Nat PROVE Up(n) \in [0..n -> S] /\ Follows(Up(n), a, F, n)
  <2>1. \E f \in [0..n -> S] : Follows(f, a, F, n)
    BY Recursion DEF AlwaysStaysIn
  <2> QED
    BY <2>1
<1> HIDE DEF Up
<1>2. h \in [Nat -> S]
  BY <1>1
<1>3. h[0] = a
  <2>1. h[0] = Up(0)[0]
    OBVIOUS
  <2> QED
    BY <1>1, <2>1 DEF Follows
<1>4. ASSUME NEW j \in Nat \ {0} PROVE h[j] = F[<<h[j - 1], j>>]
  <2>1. j - 1 \in Nat /\ j - 1 \in 0..j /\ j - 1 \in 0..j - 1 /\ j \in 1..j
    OBVIOUS
  <2>2. Up(j)[j] = F[<<Up(j)[j - 1], j>>]
    BY <1>1, <2>1 DEF Follows
  <2>3. PICK m \in Nat : m = j - 1
    BY <2>1
  <2>4. Follows(Up(j), a, F, j) /\ Follows(Up(m), a, F, m) /\ m \in 0..j
    BY <1>1, <2>1, <2>3
  <2>5. \A k \in 0..m : Up(j)[k] = Up(m)[k]
    BY <2>4, Agree
  <2>6. Up(j)[j - 1] = Up(m)[m] /\ h[j - 1] = Up(m)[m] /\ h[j] = Up(j)[j]
    BY <2>3, <2>5
  <2> QED
    BY <2>2, <2>6
<1> HIDE DEF h
<1> QED
  BY <1>2, <1>3, <1>4 DEF AlwaysFollows

LEMMA RangeRecursion ==
    ASSUME NEW S, NEW a \in S, NEW m \in Nat, NEW n \in Nat, m <= n, NEW F,
           StaysBetween(F, S, m, n)
    PROVE  \E h \in [m..n -> S] : FollowsBetween(h, a, F, m, n)
<1> DEFINE G == [q \in S \X (1..n - m) |-> F[<<q[1], q[2] + m>>]]
<1>1. n - m \in Nat
  OBVIOUS
<1>2. StaysIn(G, S, n - m) /\ \A q \in S, j \in 1..n - m : G[<<q, j>>] = F[<<q, j + m>>]
  <2> SUFFICES ASSUME NEW q \in S, NEW j \in 1..n - m
               PROVE  G[<<q, j>>] = F[<<q, j + m>>] /\ G[<<q, j>>] \in S
    BY DEF StaysIn
  <2>1. j + m \in m + 1..n
    OBVIOUS
  <2> QED
    BY <2>1 DEF StaysBetween
<1> HIDE DEF G
<1>3. PICK g \in [0..n - m -> S] : Follows(g, a, G, n - m)
  BY <1>1, <1>2, Recursion
<1> DEFINE h == [j \in m..n |-> g[j - m]]
<1>4. h \in [m..n -> S]
  <2>1. \A j \in m..n : j - m \in 0..n - m
    OBVIOUS
  <2> QED
    BY <2>1
<1>5. h[m] = a
  <2>1. m - m = 0 /\ m \in m..n
    OBVIOUS
  <2> QED
    BY <1>3, <2>1 DEF Follows
<1>6. ASSUME NEW j \in m + 1..n PROVE h[j] = F[<<h[j - 1], j>>]
  <2>1. j - m \in 1..n - m /\ j \in m..n /\ j - 1 \in m..n /\ (j - 1) - m = (j - m) - 1
        /\ (j - m) - 1 \in 0..n - m /\ (j - m) + m = j
    OBVIOUS
  <2>2. g[j - m] = G[<<g[(j - m) - 1], j - m>>]
    BY <1>3, <2>1 DEF Follows
  <2>3. h[j] = g[j - m] /\ h[j - 1] = g[(j - m) - 1]
    BY <2>1
  <2> HIDE DEF h
  <2>4. PICK i \in 1..n - m : i = j - m /\ i + m = j
    BY <2>1
  <2>5. g[i - 1] \in S
    BY <2>1, <2>4
  <2>6. G[<<g[i - 1], i>>] = F[<<g[i - 1], i + m>>]
    BY <1>2, <2>5
  <2> QED
    BY <2>2, <2>3, <2>4, <2>6
<1> HIDE DEF h
<1> QED
  BY <1>4, <1>5, <1>6 DEF FollowsBetween
(***************************************************************************)
(* Slots used in turn: two turns less than a round apart take different    *)
(* slots; and batches of one size, put one after the other.                *)
(***************************************************************************)
LEMMA DivMod ==
    ASSUME NEW R \in Nat \ {0}, NEW e \in Nat
    PROVE  /\ e = R * (e \div R) + (e % R)
           /\ e \div R \in Int
           /\ e % R \in 0 .. R - 1
OBVIOUS

LEMMA MultiplesApart ==
    ASSUME NEW R \in Nat \ {0}, NEW q \in Int
    PROVE  (q >= 1 => R * q >= R) /\ (q <= 0 => R * q <= 0)
OBVIOUS

LEMMA ProductOfDifference ==
    ASSUME NEW R \in Int, NEW q \in Int, NEW p \in Int
    PROVE  R * (p - q) = R * p - R * q
OBVIOUS

LEMMA NearbyEpochsDiffer ==
    ASSUME NEW R \in Nat \ {0}, NEW e \in Nat, NEW E \in Nat, e < E, E < e + R
    PROVE  e % R # E % R
<1> SUFFICES ASSUME e % R = E % R PROVE FALSE
  OBVIOUS
<1>1. PICK q \in Int : e = R * q + (e % R)
  BY DivMod
<1>2. PICK p \in Int : E = R * p + (E % R)
  BY DivMod
<1>3. R * p - R * q = E - e
  <2>1. R * p \in Int /\ R * q \in Int /\ e % R \in Int
    OBVIOUS
  <2> QED
    BY <1>1, <1>2, <2>1
<1>4. R * (p - q) = E - e
  BY <1>3, ProductOfDifference
<1> QED
  BY <1>4, MultiplesApart

\* A multiple of R less than R is 0.
LEMMA SmallMultiple ==
    ASSUME NEW R \in Nat \ {0}, NEW q \in Int, R * q < R, R * q > 0 - R
    PROVE  q = 0
<1>1. R * (0 - q) = 0 - R * q
  <2>1. R * q \in Int /\ R * 0 = 0
    OBVIOUS
  <2> QED
    BY <2>1, ProductOfDifference
<1>2. ~(q >= 1) /\ ~(0 - q >= 1)
  BY <1>1, MultiplesApart
<1> QED
  BY <1>2

LEMMA RemainderIs ==
    ASSUME NEW R \in Nat \ {0}, NEW e \in Nat, NEW p \in Int, NEW r \in 0 .. R - 1, e = R * p + r
    PROVE  e % R = r
<1>1. PICK q \in Int, t \in 0 .. R - 1 : e = R * q + t /\ t = e % R
  BY DivMod
<1>2. PICK x \in Int, y \in Int : x = R * q /\ y = R * p
  OBVIOUS
<1>3. y - x = t - r
  <2>1. e = x + t /\ e = y + r
    BY <1>1, <1>2
  <2>2. x \in Int /\ y \in Int /\ t \in Int /\ r \in Int
    OBVIOUS
  <2> QED
    BY <2>1, <2>2
<1>4. R * (p - q) = t - r
  BY <1>2, <1>3, ProductOfDifference
<1>5. p - q = 0
  BY <1>4, SmallMultiple
<1>6. R * 0 = 0
  OBVIOUS
<1>7. t = r
  BY <1>4, <1>5, <1>6
<1>8. t = e % R
  BY <1>1
<1> QED
  BY <1>7, <1>8

\* A round later it is the same slot.
LEMMA RoundLater ==
    ASSUME NEW R \in Nat \ {0}, NEW e \in Nat
    PROVE  (e + R) % R = e % R
<1>1. PICK q \in Int, r \in 0 .. R - 1 : e = R * q + r /\ r = e % R
  <2>1. e \div R \in Int /\ e % R \in 0 .. R - 1 /\ e = R * (e \div R) + (e % R)
    BY DivMod
  <2> QED
    BY <2>1
<1>2. R * (q - (0 - 1)) = R * q + R
  <2>1. R * (0 - 1) = 0 - R
    OBVIOUS
  <2>2. R * (q - (0 - 1)) = R * q - R * (0 - 1)
    BY ProductOfDifference
  <2>3. R * q \in Int
    OBVIOUS
  <2> QED
    BY <2>1, <2>2, <2>3
<1>3. e + R = R * (q - (0 - 1)) + r
  <2>1. R * q \in Int
    OBVIOUS
  <2> QED
    BY <1>1, <1>2, <2>1
<1>4. (e + R) % R = r
  <2>1. PICK E \in Nat, p \in Int : E = e + R /\ p = q - (0 - 1) /\ E = R * p + r
    BY <1>3
  <2>2. E % R = r
    BY <2>1, RemainderIs
  <2> QED
    BY <2>1, <2>2
<1>5. r = e % R
  BY <1>1
<1> QED
  BY <1>4, <1>5

LEMMA MultipleIs ==
    ASSUME NEW b \in Nat \ {0}, NEW E \in Nat
    PROVE  (b * E) % b = 0 /\ b * (E + 1) = b * E + b
<1>1. b * E \in Nat /\ b * (E + 1) = b * E + b /\ b * E = b * E + 0
  OBVIOUS
<1>2. 0 \in 0 .. b - 1 /\ E \in Int
  OBVIOUS
<1>3. (b * E) % b = 0
  BY <1>1, <1>2, RemainderIs
<1> QED
  BY <1>1, <1>3

LEMMA BatchesGrow ==
    ASSUME NEW b \in Nat \ {0}, NEW E \in Nat, NEW m \in 1 .. E
    PROVE  b * m >= 1 /\ b * m <= b * E
OBVIOUS

LEMMA PrefixOfConcat ==
    ASSUME NEW S, NEW q \in Seq(S), NEW r \in Seq(S), NEW n \in 1 .. Len(q)
    PROVE  SubSeq(q \o r, 1, n) = SubSeq(q, 1, n)
<1>1. 1 \in 1 .. Len(q)
  BY LenProperties
<1> QED
  BY <1>1, SubSeqOfConcat1

=============================================================================
