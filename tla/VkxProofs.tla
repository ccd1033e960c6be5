------------------------------ MODULE VkxProofs ------------------------------
(***************************************************************************)
(* Theorems about the vk_x stage, for every curve of prime field and every *)
(* key: the scripts' formulas are the group's, a schedule computes what it *)
(* is meant to, for any cut in chunks and any halves that pass.            *)
(***************************************************************************)
EXTENDS TwoLoop, Induction, FiniteSetTheorems

(***************************************************************************)
(* Congruence modulo a number.                                             *)
(***************************************************************************)
Cong(m, x, y) == \E q \in Int : x = y + q * m

LEMMA CongSame == ASSUME NEW m \in Int, NEW x \in Int PROVE Cong(m, x, x)
<1>1. x = x + 0 * m
  OBVIOUS
<1> QED
  BY <1>1 DEF Cong

LEMMA CongBack ==
  ASSUME NEW m \in Int, NEW x \in Int, NEW y \in Int, Cong(m, x, y)
  PROVE  Cong(m, y, x)
<1>1. PICK q \in Int : x = y + q * m
  BY DEF Cong
<1>2. y = x + (-q) * m /\ -q \in Int
  BY <1>1
<1> QED
  BY <1>2 DEF Cong

LEMMA CongThen ==
  ASSUME NEW m \in Int, NEW x \in Int, NEW y \in Int, NEW z \in Int, Cong(m, x, y), Cong(m, y, z)
  PROVE  Cong(m, x, z)
<1>1. PICK q \in Int : x = y + q * m
  BY DEF Cong
<1>2. PICK t \in Int : y = z + t * m
  BY DEF Cong
<1>3. x = z + (q + t) * m /\ q + t \in Int
  BY <1>1, <1>2
<1> QED
  BY <1>3 DEF Cong

LEMMA CongSum ==
  ASSUME NEW m \in Int, NEW x \in Int, NEW y \in Int, NEW u \in Int, NEW v \in Int,
         Cong(m, x, y), Cong(m, u, v)
  PROVE  Cong(m, x + u, y + v) /\ Cong(m, x - u, y - v)
<1>1. PICK q \in Int : x = y + q * m
  BY DEF Cong
<1>2. PICK t \in Int : u = v + t * m
  BY DEF Cong
<1>3. x + u = (y + v) + (q + t) * m /\ q + t \in Int
  BY <1>1, <1>2
<1>4. x - u = (y - v) + (q - t) * m /\ q - t \in Int
  BY <1>1, <1>2
<1> QED
  BY <1>3, <1>4 DEF Cong

LEMMA CongProduct ==
  ASSUME NEW m \in Int, NEW x \in Int, NEW y \in Int, NEW u \in Int, NEW v \in Int,
         Cong(m, x, y), Cong(m, u, v)
  PROVE  Cong(m, x * u, y * v)
<1>1. PICK q \in Int : x = y + q * m
  BY DEF Cong
<1>2. PICK t \in Int : u = v + t * m
  BY DEF Cong
<1>3. x * u = y * v + (y * t + q * v + q * t * m) * m
  BY <1>1, <1>2
<1>4. y * t + q * v + q * t * m \in Int
  OBVIOUS
<1> QED
  BY <1>3, <1>4 DEF Cong

LEMMA CongRest ==
  ASSUME NEW m \in Nat \ {0}, NEW x \in Int
  PROVE  x % m \in 0..m-1 /\ Cong(m, x % m, x)
<1>1. x = m * (x \div m) + (x % m) /\ x \div m \in Int /\ x % m \in 0..m-1
  OBVIOUS
<1>2. x % m = x + (-(x \div m)) * m /\ -(x \div m) \in Int
  BY <1>1
<1> QED
  BY <1>1, <1>2 DEF Cong

LEMMA CongEqual ==
  ASSUME NEW m \in Nat \ {0}, NEW x \in 0..m-1, NEW y \in 0..m-1, Cong(m, x, y)
  PROVE  x = y
<1>1. PICK q \in Int : x = y + q * m
  BY DEF Cong
<1>2. q >= 1 => q * m >= m
  OBVIOUS
<1>3. q <= -1 => q * m <= -m
  OBVIOUS
<1>4. q = 0
  BY <1>1, <1>2, <1>3
<1> QED
  BY <1>1, <1>4

LEMMA CongMod ==
  ASSUME NEW m \in Nat \ {0}, NEW x \in Int, NEW y \in Int
  PROVE  Cong(m, x, y) <=> x % m = y % m
<1>1. x % m \in 0..m-1 /\ y % m \in 0..m-1 /\ Cong(m, x % m, x) /\ Cong(m, y % m, y)
  BY CongRest
<1>2. x % m \in Int /\ y % m \in Int /\ m \in Int
  BY <1>1
<1>3. ASSUME Cong(m, x, y) PROVE x % m = y % m
  <2>1. Cong(m, x % m, y)
    BY <1>1, <1>2, <1>3, CongThen
  <2>2. Cong(m, y, y % m)
    BY <1>1, <1>2, CongBack
  <2>3. Cong(m, x % m, y % m)
    BY <1>2, <2>1, <2>2, CongThen
  <2> QED
    BY <1>1, <2>3, CongEqual
<1>4. ASSUME x % m = y % m PROVE Cong(m, x, y)
  <2>1. Cong(m, x, x % m)
    BY <1>1, <1>2, CongBack
  <2> QED
    BY <1>1, <1>2, <1>4, <2>1, CongThen
<1> QED
  BY <1>3, <1>4

(***************************************************************************)
(* The field.                                                              *)
(***************************************************************************)
Same(x, y) == Cong(P, x, y)

LEMMA PIs == P \in Nat \ {0} /\ P \in Int /\ Field = 0..P-1 /\ Field \subseteq Int /\ Field \subseteq Nat
BY FieldAssumption DEF Field

LEMMA SameIs ==
  /\ \A x \in Int : Same(x, x)
  /\ \A x, y \in Int : Same(x, y) => Same(y, x)
  /\ \A x, y, z \in Int : Same(x, y) /\ Same(y, z) => Same(x, z)
BY PIs, CongSame, CongBack, CongThen DEF Same

LEMMA SameOps ==
  ASSUME NEW x \in Int, NEW y \in Int, NEW u \in Int, NEW v \in Int, Same(x, y), Same(u, v)
  PROVE  Same(x + u, y + v) /\ Same(x - u, y - v) /\ Same(x * u, y * v)
BY PIs, CongSum, CongProduct DEF Same

LEMMA Reduced ==
  ASSUME NEW x \in Int
  PROVE  x % P \in Field /\ Same(x % P, x) /\ (x >= 0 => vmMod(x) = x % P)
BY PIs, CongRest DEF Same, vmMod

LEMMA SameEqual == ASSUME NEW x \in Field, NEW y \in Field PROVE Same(x, y) <=> x = y
BY PIs, CongEqual, CongSame DEF Same

LEMMA SameMod == ASSUME NEW x \in Int, NEW y \in Int PROVE Same(x, y) <=> x % P = y % P
BY PIs, CongMod DEF Same

\* The script's operations on reduced values, with a literal for one of them.
LEMMA Operations ==
  ASSUME NEW x \in Nat, NEW y \in Nat
  PROVE  /\ addFp(x, y) \in Field /\ Same(addFp(x, y), x + y)
         /\ mulFp(x, y) \in Field /\ Same(mulFp(x, y), x * y)
         /\ sqrFp(x) \in Field /\ Same(sqrFp(x), x * x)
         /\ y <= P => subFp(x, y) \in Field /\ Same(subFp(x, y), x - y)
<1>1. x + y \in Nat /\ x * y \in Nat /\ x * x \in Nat
  OBVIOUS
<1>2. addFp(x, y) \in Field /\ Same(addFp(x, y), x + y)
  BY <1>1, Reduced DEF addFp
<1>3. mulFp(x, y) \in Field /\ Same(mulFp(x, y), x * y)
  BY <1>1, Reduced DEF mulFp
<1>4. sqrFp(x) \in Field /\ Same(sqrFp(x), x * x)
  BY <1>1, Reduced DEF sqrFp
<1>5. ASSUME y <= P PROVE subFp(x, y) \in Field /\ Same(subFp(x, y), x - y)
  <2>1. x - y + P \in Int /\ x - y + P >= 0 /\ x - y \in Int
    BY <1>5, PIs
  <2>2. subFp(x, y) \in Field /\ Same(subFp(x, y), x - y + P)
    BY <2>1, Reduced DEF subFp
  <2>3. Same(x - y + P, x - y)
    <3>1. x - y + P = (x - y) + 1 * P
      BY PIs
    <3> QED
      BY <3>1 DEF Same, Cong
  <2> QED
    BY <2>1, <2>2, <2>3, SameIs, PIs
<1> QED
  BY <1>2, <1>3, <1>4, <1>5
LEMMA SmallIs == ASSUME NEW x \in Field PROVE x % P = x
BY Reduced, SameEqual, PIs

LEMMA SameTimes ==
  ASSUME NEW x \in Int, NEW y \in Int, NEW z \in Int, Same(x, y)
  PROVE  Same(x * z, y * z) /\ Same(z * x, z * y)
BY SameOps, SameIs

LEMMA SameZero == ASSUME NEW x \in Int, NEW y \in Int, Same(x, 0) PROVE Same(x * y, 0) /\ Same(y * x, 0)
<1>1. PICK o \in Int : o = 0
  OBVIOUS
<1>2. o * y = 0 /\ y * o = 0
  BY <1>1
<1>3. Same(x * y, o * y) /\ Same(y * x, y * o)
  BY <1>1, SameTimes
<1> QED
  BY <1>2, <1>3

LEMMA Two == ~Same(2, 0) /\ ~Same(1, 0)
BY FieldAssumption, PIs, SameEqual

LEMMA InverseIs ==
  ASSUME NEW x \in Int
  PROVE  /\ modinv(x) \in Field
         /\ ~Same(x, 0) => Same(x * modinv(x), 1)
<1>1. x % P \in Field /\ Same(x % P, x) /\ 0 \in Field /\ 0 % P = 0 /\ 1 \in Field /\ 1 % P = 1
  <2>1. 0 \in Field /\ 1 \in Field
    BY FieldAssumption, PIs
  <2> QED
    BY <2>1, Reduced, SmallIs
<1>2. x % P = 0 <=> Same(x, 0)
  BY <1>1, SameMod
<1>3. CASE x % P = 0
  BY <1>1, <1>2, <1>3 DEF modinv
<1>4. CASE x % P # 0
  <2>1. PICK i \in Field : ((x % P) * i) % P = 1
    BY <1>1, <1>4, FieldAssumption
  <2>2. Same((x % P) * i, x * i)
    BY <1>1, SameOps, SameIs, PIs
  <2>3. (x * i) % P = 1
    <3>1. (x % P) * i \in Int /\ x * i \in Int
      BY <1>1, PIs
    <3> QED
      BY <2>1, <2>2, <3>1, SameMod
  <2>4. modinv(x) \in Field /\ (x * modinv(x)) % P = 1
    BY <1>4, <2>3 DEF modinv
  <2>5. x * modinv(x) \in Int
    BY <2>4, PIs
  <2> QED
    BY <1>1, <2>4, <2>5, SameMod
<1> QED
  BY <1>3, <1>4

LEMMA Cancel ==
  ASSUME NEW x \in Int, NEW y \in Int, NEW z \in Int, ~Same(z, 0), Same(x * z, y * z)
  PROVE  Same(x, y)
<1>1. PICK i \in Field : Same(z * i, 1)
  BY InverseIs
<1>2. i \in Int /\ z * i \in Int /\ x * z \in Int /\ y * z \in Int
  BY <1>1, PIs
<1>3. Same((x * z) * i, (y * z) * i)
  BY <1>2, SameOps, SameIs
<1>4. (x * z) * i = x * (z * i) /\ (y * z) * i = y * (z * i)
  BY <1>2
<1>5. PICK o \in Int : o = 1
  OBVIOUS
<1>6. Same(x * (z * i), x * o) /\ Same(y * (z * i), y * o)
  BY <1>1, <1>2, <1>5, SameTimes
<1>7. x * o = x /\ y * o = y /\ x * (z * i) \in Int /\ y * (z * i) \in Int
  BY <1>2, <1>5
<1> QED
  BY <1>3, <1>4, <1>6, <1>7, SameIs

LEMMA Product ==
  ASSUME NEW x \in Int, NEW y \in Int
  PROVE  Same(x * y, 0) <=> Same(x, 0) \/ Same(y, 0)
<1>1. ASSUME Same(x * y, 0), ~Same(y, 0) PROVE Same(x, 0)
  <2>1. 0 * y = 0
    OBVIOUS
  <2> QED
    BY <1>1, <2>1, Cancel
<1>2. Same(x, 0) \/ Same(y, 0) => Same(x * y, 0)
  BY SameZero
<1> QED
  BY <1>1, <1>2

LEMMA Difference ==
  ASSUME NEW x \in Int, NEW y \in Int
  PROVE  Same(x - y, 0) <=> Same(x, y)
<1>1. ASSUME Same(x - y, 0) PROVE Same(x, y)
  <2>1. Same((x - y) + y, 0 + y) /\ (x - y) + y = x /\ 0 + y = y
    BY <1>1, SameOps, SameIs
  <2> QED
    BY <2>1
<1>2. ASSUME Same(x, y) PROVE Same(x - y, 0)
  <2>1. Same(x - y, y - y) /\ y - y = 0
    BY <1>2, SameOps, SameIs
  <2> QED
    BY <2>1
<1> QED
  BY <1>1, <1>2

(***************************************************************************)
(* The curve.  A line through two of its points, or the tangent at one,    *)
(* meets it in a third.                                                    *)
(***************************************************************************)
Rest(x, y) == y * y - x * x * x - B

\* The points of the group but infinity.
Points == {Multiples[n] : n \in 1..N-1}

LEMMA CurveIs ==
  ASSUME NEW a \in Points
  PROVE  /\ a \in Field \X Field /\ a = <<a[1], a[2]>> /\ a[1] \in Field /\ a[2] \in Field
         /\ a[1] \in Int /\ a[2] \in Int /\ a[1] # 0 /\ a[2] # 0 /\ a # ZERO
         /\ Same(Rest(a[1], a[2]), 0)
<1>0. a \in Curve /\ a[1] # 0 /\ a[2] # 0
  BY CurveAssumption DEF Points
<1>1. a \in Field \X Field /\ a[1] # 0 /\ a[2] # 0
  BY <1>0 DEF Curve
<1>2. a[1] \in Field /\ a[2] \in Field /\ a = <<a[1], a[2]>> /\ a[1] \in Int /\ a[2] \in Int
  BY <1>1, PIs
<1>3. (a[2] * a[2] - a[1] * a[1] * a[1] - B) % P = 0
  BY <1>0 DEF Curve
<1>4. Rest(a[1], a[2]) \in Int /\ 0 % P = 0
  BY <1>2, FieldAssumption DEF Rest
<1>5. Same(Rest(a[1], a[2]), 0)
  BY <1>3, <1>4, SameMod DEF Rest
<1> QED
  BY <1>1, <1>2, <1>5 DEF ZERO

LEMMA SumIsPoint ==
  ASSUME NEW a \in Points, NEW b \in Points, NEW x \in Field, NEW y \in Field,
         add(a, b) = <<x, y>>, Same(Rest(x, y), 0)
  PROVE  <<x, y>> \in Points
<1>1. PICK m, n \in 1..N-1 : a = Multiples[m] /\ b = Multiples[n]
  BY DEF Points
<1>2. N \in Nat /\ N > 1 /\ (m + n) % N \in 0..N-1
  BY CurveAssumption
<1>3. <<x, y>> = Multiples[(m + n) % N]
  BY <1>1, <1>2, CurveAssumption
<1>4. CASE (m + n) % N = 0
  <2>1. x = 0 /\ y = 0
    BY <1>3, <1>4, CurveAssumption DEF ZERO
  <2>2. Rest(x, y) = -B
    BY <2>1, FieldAssumption DEF Rest
  <2>3. PICK q \in Int : -B = 0 + q * P
    BY <2>2 DEF Same, Cong
  <2>4. PICK c \in Int : c = -q /\ B = 0 + c * P
    BY <2>3, FieldAssumption
  <2>5. Same(B, 0)
    BY <2>4 DEF Same, Cong
  <2>6. B % P = 0 % P /\ 0 % P = 0
    BY <2>5, SameMod, FieldAssumption, PIs
  <2> QED
    BY <2>6, CurveAssumption
<1>5. CASE (m + n) % N \in 1..N-1
  BY <1>3, <1>5 DEF Points
<1> QED
  BY <1>2, <1>4, <1>5

\* y = s (x - x1) + y1 meets the curve at x1, and again at x2.
Again(x1, y1, x2, s) == x2 * x2 + x2 * x1 + x1 * x1 - s * s * (x2 - x1) - 2 * s * y1

LEMMA ThirdOnCurve ==
  ASSUME NEW x1 \in Int, NEW y1 \in Int, NEW x2 \in Int, NEW s \in Int, NEW x \in Int,
         NEW y \in Int,
         Same(Rest(x1, y1), 0), Same(Again(x1, y1, x2, s), 0),
         Same(x, s * s - x1 - x2), Same(y, s * (x1 - x) - y1)
  PROVE  Same(Rest(x, y), 0)
<1>1. PICK c \in Int : Rest(x1, y1) = 0 + c * P
  BY DEF Same, Cong
<1>2. PICK d \in Int : Again(x1, y1, x2, s) = 0 + d * P
  BY DEF Same, Cong
<1>3. PICK e \in Int : x = s * s - x1 - x2 + e * P
  BY DEF Same, Cong
<1>4. PICK f \in Int : y = s * (x1 - x) - y1 + f * P
  BY DEF Same, Cong
<1> DEFINE u == s * (x1 - x) - y1
<1>5. Rest(x, u) = Rest(x1, y1) - (x - x1) * (Again(x1, y1, x2, s) + (x - x2) * (x + x2 + x1 - s * s))
  BY FieldAssumption DEF Rest, Again
<1>6. x + x2 + x1 - s * s = e * P
  BY <1>3, PIs
<1>7. Rest(x, u) = (c - (x - x1) * (d + (x - x2) * e)) * P
  <2>0. PICK t1, t2, t3 \in Int : t1 = Rest(x1, y1) /\ t2 = Again(x1, y1, x2, s) /\ t3 = x + x2 + x1 - s * s
    BY FieldAssumption DEF Rest, Again
  <2>a. t1 = c * P /\ t2 = d * P /\ t3 = e * P
    BY <1>1, <1>2, <1>6, <2>0, PIs
  <2>b. Rest(x, u) = t1 - (x - x1) * (t2 + (x - x2) * t3)
    BY <1>5, <2>0
  <2>1. Rest(x, u) = c * P - (x - x1) * (d * P + (x - x2) * (e * P))
    BY <2>a, <2>b
  <2>2. c * P - (x - x1) * (d * P + (x - x2) * (e * P)) = (c - (x - x1) * (d + (x - x2) * e)) * P
    BY PIs
  <2> QED
    BY <2>1, <2>2
<1>8. Rest(x, y) = Rest(x, u) + (f * (u + y)) * P
  BY <1>4, PIs, FieldAssumption DEF Rest
<1>9. Rest(x, y) = 0 + ((c - (x - x1) * (d + (x - x2) * e)) + f * (u + y)) * P
  BY <1>7, <1>8, PIs
<1>10. ((c - (x - x1) * (d + (x - x2) * e)) + f * (u + y)) \in Int
  OBVIOUS
<1> QED
  BY <1>9, <1>10 DEF Same, Cong
LEMMA OppositeIs ==
  ASSUME NEW a \in Points, NEW b \in Points, a[1] = b[1], a # b
  PROVE  add(a, b) = ZERO
<1>1. /\ a[2] \in Int /\ b[2] \in Int /\ a[1] \in Int /\ a[2] # b[2] /\ a # ZERO /\ b # ZERO
      /\ a[2] \in Field /\ b[2] \in Field
  BY CurveIs
<1>2. PICK x, y, z \in Int : x = a[1] /\ y = a[2] /\ z = b[2]
  BY <1>1
<1>3. Same(Rest(x, y), 0) /\ Same(Rest(x, z), 0) /\ Rest(x, y) \in Int /\ Rest(x, z) \in Int
  BY <1>2, CurveIs, FieldAssumption DEF Rest
<1>4. Same(Rest(x, y) - Rest(x, z), 0 - 0) /\ 0 - 0 = 0
  BY <1>3, SameOps
<1>5. Rest(x, y) - Rest(x, z) = (y - z) * (y + z)
  BY FieldAssumption DEF Rest
<1>6. Same(y - z, 0) \/ Same(y + z, 0)
  BY <1>4, <1>5, Product
<1>7. ~Same(y - z, 0)
  <2>1. ~Same(y, z)
    BY <1>1, <1>2, SameEqual
  <2> QED
    BY <2>1, Difference
<1>8. (y + z) % P = 0 % P /\ 0 % P = 0
  <2>1. 0 \in Field
    BY FieldAssumption, PIs
  <2> QED
    BY <1>6, <1>7, <2>1, SameMod, SmallIs
<1> QED
  BY <1>1, <1>2, <1>8 DEF add

LEMMA NotTwoTorsion ==
  ASSUME NEW a \in Points
  PROVE  ~Same(2 * a[2], 0) /\ (a[2] + a[2]) % P # 0
<1>1. a[2] \in Int /\ a[2] \in Field /\ a[2] # 0 /\ 0 \in Field
  BY CurveIs, FieldAssumption, PIs
<1>2. ~Same(a[2], 0)
  BY <1>1, SameEqual
<1>3. ~Same(2 * a[2], 0)
  <2>1. PICK t, y \in Int : t = 2 /\ y = a[2]
    BY <1>1
  <2>2. ~Same(t, 0) /\ ~Same(y, 0)
    BY <1>2, <2>1, Two
  <2>3. ~Same(t * y, 0)
    BY ONLY <2>2, Product
  <2> QED
    BY <2>1, <2>3
<1>4. PICK y \in Int : y = 2 * a[2] /\ a[2] + a[2] = y
  BY <1>1
<1>5. y % P # 0 % P /\ 0 % P = 0
  BY <1>1, <1>3, <1>4, SameMod, SmallIs
<1> QED
  BY <1>3, <1>4, <1>5

Line(a, b, c, s) ==
  /\ c \in Points
  /\ Same(c[1], s * s - a[1] - b[1]) /\ Same(c[2], s * (a[1] - c[1]) - a[2])
  /\ a = b => Same(s * (2 * a[2]), 3 * a[1] * a[1])
  /\ a # b => Same(s * (b[1] - a[1]), b[2] - a[2])

LEMMA Tangent ==
  ASSUME NEW a \in Points, NEW s, s = 3 * a[1] * a[1] * modinv(2 * a[2])
  PROVE  s \in Int /\ Same(s * (2 * a[2]), 3 * a[1] * a[1]) /\ Same(Again(a[1], a[2], a[1], s), 0)
<1>1. PICK x, y \in Int : x = a[1] /\ y = a[2]
  BY CurveIs
<1>2. PICK i \in Int : i = modinv(2 * y) /\ Same((2 * y) * i, 1)
  <2>1. PICK t \in Int : t = 2 * y
    OBVIOUS
  <2>2. ~Same(t, 0)
    BY <1>1, <2>1, NotTwoTorsion
  <2>3. modinv(t) \in Int /\ Same(t * modinv(t), 1)
    BY <2>2, InverseIs, PIs
  <2> QED
    BY <2>1, <2>3
<1>3. PICK m \in Int : m = 3 * x * x
  OBVIOUS
<1>4. s = m * i /\ s \in Int
  BY <1>1, <1>2, <1>3
<1>5. s * (2 * y) = m * ((2 * y) * i)
  BY <1>4
<1>6. PICK o \in Int : o = 1
  OBVIOUS
<1>7. Same(m * ((2 * y) * i), m * o) /\ m * o = m
  <2>1. PICK t \in Int : t = (2 * y) * i
    OBVIOUS
  <2>2. Same(t, o)
    BY <1>2, <1>6, <2>1
  <2>3. Same(m * t, m * o)
    BY <2>2, SameTimes
  <2> QED
    BY <1>6, <2>1, <2>3
<1>8. Same(s * (2 * y), m)
  BY <1>5, <1>7
<1>9. Same(m - s * (2 * y), 0)
  <2>1. PICK t \in Int : t = s * (2 * y)
    BY <1>4
  <2>2. Same(m, t)
    BY <1>8, <2>1, SameIs
  <2>3. Same(m - t, 0)
    BY <2>2, Difference
  <2> QED
    BY <2>1, <2>3
<1>10. Again(x, y, x, s) = m - s * (2 * y)
  BY <1>3, <1>4 DEF Again
<1> QED
  BY <1>1, <1>3, <1>4, <1>8, <1>9, <1>10

LEMMA Chord ==
  ASSUME NEW a \in Points, NEW b \in Points, a[1] # b[1], NEW s,
         s = (b[2] - a[2]) * modinv(b[1] - a[1])
  PROVE  s \in Int /\ Same(s * (b[1] - a[1]), b[2] - a[2]) /\ Same(Again(a[1], a[2], b[1], s), 0)
<1>1. PICK x, y, u, v \in Int : x = a[1] /\ y = a[2] /\ u = b[1] /\ v = b[2]
  BY CurveIs
<1>2. ~Same(u - x, 0)
  <2>1. ~Same(u, x)
    BY <1>1, CurveIs, SameEqual
  <2> QED
    BY <2>1, Difference
<1>3. PICK i \in Int : i = modinv(u - x) /\ Same((u - x) * i, 1)
  <2>1. PICK t \in Int : t = u - x
    OBVIOUS
  <2>2. modinv(t) \in Int /\ Same(t * modinv(t), 1)
    BY <1>2, <2>1, InverseIs, PIs
  <2> QED
    BY <2>1, <2>2
<1>4. PICK m, n \in Int : m = v - y /\ n = u - x
  OBVIOUS
<1>5. s = m * i /\ s \in Int
  BY <1>1, <1>3, <1>4
<1>6. PICK o \in Int : o = 1
  OBVIOUS
<1>7. Same(m * (n * i), m * o) /\ m * o = m /\ s * n = m * (n * i)
  <2>1. PICK t \in Int : t = n * i
    OBVIOUS
  <2>2. Same(t, o)
    BY <1>3, <1>4, <1>6, <2>1
  <2>3. Same(m * t, m * o)
    BY <2>2, SameTimes
  <2>4. s * n = m * (n * i)
    BY <1>5
  <2> QED
    BY <1>6, <2>1, <2>3, <2>4
<1>8. Same(s * n, m)
  BY <1>7
<1>9. PICK g \in Int : g = Again(x, y, u, s)
  BY <1>5 DEF Again
<1>a. PICK c, d \in Int : c = Rest(x, y) /\ d = Rest(u, v)
  BY FieldAssumption DEF Rest
<1>10. g * n = (c - d) - (s * n - m) * (s * n + m + 2 * y)
  <2>1. g = u * u + u * x + x * x - s * s * (u - x) - 2 * s * y
    BY <1>9 DEF Again
  <2>2. c - d = (y * y - x * x * x) - (v * v - u * u * u)
    BY <1>a, FieldAssumption DEF Rest
  <2>3. (u * u + u * x + x * x - s * s * (u - x) - 2 * s * y) * (u - x)
          = ((y * y - x * x * x) - (v * v - u * u * u))
              - (s * (u - x) - (v - y)) * (s * (u - x) + (v - y) + 2 * y)
    BY <1>5
  <2> QED
    BY <1>4, <2>1, <2>2, <2>3
<1>11. Same(c, 0) /\ Same(d, 0)
  BY <1>1, <1>a, CurveIs
<1>b. PICK e \in Int : e = c - d
  OBVIOUS
<1>12. Same(e, 0)
  <2>1. PICK o1 \in Int : o1 = 0
    OBVIOUS
  <2>2. Same(c, o1) /\ Same(o1, d)
    BY <1>11, <2>1, SameIs
  <2>3. Same(c, d)
    BY <2>2, SameIs
  <2> QED
    BY <1>b, <2>3, Difference
<1>13. Same((s * n - m) * (s * n + m + 2 * y), 0)
  <2>0. PICK h \in Int : h = s * n
    BY <1>5
  <2>1. PICK f, t \in Int : f = h - m /\ t = h + m + 2 * y
    OBVIOUS
  <2>2. Same(f, 0)
    BY <1>8, <2>0, <2>1, Difference
  <2>3. Same(f * t, 0)
    BY <2>2, SameZero
  <2> QED
    BY <2>0, <2>1, <2>3
<1>14. Same((c - d) - (s * n - m) * (s * n + m + 2 * y), 0 - 0)
  <2>1. PICK f \in Int : f = (s * n - m) * (s * n + m + 2 * y)
    BY <1>5
  <2>2. Same(f, 0)
    BY <1>13, <2>1
  <2>3. Same(e - f, 0 - 0)
    BY <1>12, <2>2, SameOps
  <2> QED
    BY <1>b, <2>1, <2>3
<1>15. Same(g * n, 0)
  BY <1>10, <1>14
<1>16. Same(g, 0)
  BY <1>2, <1>4, <1>15, Product
<1> QED
  BY <1>1, <1>4, <1>5, <1>8, <1>9, <1>16

LEMMA AddIs ==
  ASSUME NEW a \in Points, NEW b \in Points, ~(a[1] = b[1] /\ a # b)
  PROVE  \E s \in Int : Line(a, b, add(a, b), s)
<1> DEFINE s == IF a = b THEN 3 * a[1] * a[1] * modinv(2 * a[2])
                ELSE (b[2] - a[2]) * modinv(b[1] - a[1])
           x == (s * s - a[1] - b[1]) % P
           y == (s * (a[1] - x) - a[2]) % P
<1>1. s \in Int /\ Same(Again(a[1], a[2], b[1], s), 0)
  <2>1. CASE a = b
    BY <2>1, Tangent
  <2>2. CASE a # b
    BY <2>2, Chord
  <2> QED
    BY <2>1, <2>2
<1>2. /\ a = b => Same(s * (2 * a[2]), 3 * a[1] * a[1])
      /\ a # b => Same(s * (b[1] - a[1]), b[2] - a[2])
  BY Tangent, Chord
<1>3. add(a, b) = <<x, y>>
  <2>1. a # ZERO /\ b # ZERO /\ ~(a[1] = b[1] /\ (a[2] + b[2]) % P = 0)
    BY CurveIs, NotTwoTorsion
  <2> QED
    BY <2>1 DEF add
<1> HIDE DEF s
<1>4. a[1] \in Int /\ a[2] \in Int /\ b[1] \in Int /\ Same(Rest(a[1], a[2]), 0)
  BY CurveIs
<1>5. x \in Field /\ Same(x, s * s - a[1] - b[1])
  <2>1. PICK t \in Int : t = s * s - a[1] - b[1]
    BY <1>1, <1>4
  <2>2. t % P \in Field /\ Same(t % P, t)
    BY Reduced
  <2> QED
    BY <2>1, <2>2
<1> HIDE DEF x
<1>6. y \in Field /\ Same(y, s * (a[1] - x) - a[2])
  <2>1. PICK t \in Int : t = s * (a[1] - x) - a[2]
    BY <1>1, <1>4, <1>5, PIs
  <2>2. t % P \in Field /\ Same(t % P, t)
    BY Reduced
  <2> QED
    BY <2>1, <2>2
<1> HIDE DEF y
<1>7. Same(Rest(x, y), 0)
  BY <1>1, <1>4, <1>5, <1>6, ThirdOnCurve, PIs
<1>8. <<x, y>> \in Points
  BY <1>3, <1>5, <1>6, <1>7, SumIsPoint
<1> QED
  BY <1>1, <1>2, <1>3, <1>5, <1>6, <1>8 DEF Line
(***************************************************************************)
(* The formulas.  p stands for the point a.                                *)
(***************************************************************************)
Triple == Field \X Field \X Field
Stands(p, a) ==
  /\ p \in Triple
  /\ a = ZERO => p[3] = 0
  /\ a # ZERO => /\ p[3] # 0 /\ Same(p[1], a[1] * (p[3] * p[3]))
                 /\ Same(p[2], a[2] * (p[3] * p[3] * p[3]))

\* Point c of the line through a and b, with the values the formulas work out:
\* the new Z, the slope, the abscissa and the ordinate of a in its scale.
LEMMA ThirdStands ==
  ASSUME NEW a \in Points, NEW b \in Points, NEW c, NEW s \in Int, Line(a, b, c, s),
         NEW X \in Field, NEW Y \in Field, NEW Z \in Field, Z # 0,
         NEW e \in Int, NEW u \in Int, NEW v \in Int, NEW d \in Int,
         Same(e, s * Z), Same(u, a[1] * (Z * Z)), Same(v, b[1] * (Z * Z)),
         Same(d, a[2] * (Z * Z * Z)),
         Same(X, e * e - u - v), Same(Y, e * (u - X) - d)
  PROVE  Stands(<<X, Y, Z>>, c)
<1>1. PICK x1, y1, x2, x, y, z \in Int :
        x1 = a[1] /\ y1 = a[2] /\ x2 = b[1] /\ x = c[1] /\ y = c[2] /\ z = Z
  BY CurveIs, PIs DEF Line
<1>2. Same(x, s * s - x1 - x2) /\ Same(y, s * (x1 - x) - y1)
  BY <1>1 DEF Line
<1>3. /\ Same(e, s * z) /\ Same(u, x1 * (z * z)) /\ Same(v, x2 * (z * z))
      /\ Same(d, y1 * (z * z * z)) /\ X \in Int /\ Y \in Int
  BY <1>1, PIs
<1>4. Same(X, x * (z * z))
  <2>1. PICK f, g, h, zz \in Int : f = s * z /\ g = x1 * (z * z) /\ h = x2 * (z * z) /\ zz = z * z
    OBVIOUS
  <2>2. Same(e * e, f * f)
    BY <1>3, <2>1, SameOps
  <2>3. PICK ee, ff \in Int : ee = e * e /\ ff = f * f
    BY <2>1
  <2>4. Same(ee - u, ff - g)
    BY <1>3, <2>1, <2>2, <2>3, SameOps
  <2>5. PICK eu, fg \in Int : eu = ee - u /\ fg = ff - g
    BY <2>3
  <2>6. Same(eu - v, fg - h)
    BY <1>3, <2>1, <2>4, <2>5, SameOps
  <2>7. PICK t, m \in Int : t = fg - h /\ m = s * s - x1 - x2
    BY <2>1, <2>5
  <2>8. Same(X, t)
    <3>1. eu - v = e * e - u - v /\ eu - v \in Int
      BY <2>3, <2>5
    <3> QED
      BY <1>3, <2>6, <2>7, <3>1, SameIs
  <2>9. t = m * zz
    BY <2>1, <2>3, <2>5, <2>7
  <2>10. Same(x * zz, m * zz)
    BY <1>2, <2>7, SameTimes
  <2>11. x * zz \in Int /\ m * zz \in Int
    OBVIOUS
  <2> QED
    BY <1>3, <2>1, <2>8, <2>9, <2>10, <2>11, SameIs
<1>5. Same(Y, y * (z * z * z))
  <2>1. PICK f, g, h, zzz \in Int : f = s * z /\ g = x1 * (z * z) /\ h = x * (z * z) /\ zzz = z * z * z
    OBVIOUS
  <2>2. Same(u - X, g - h)
    BY <1>3, <1>4, <2>1, SameOps
  <2>3. PICK ux, gh \in Int : ux = u - X /\ gh = g - h
    BY <1>3
  <2>4. Same(e * ux, f * gh)
    BY <1>3, <2>1, <2>2, <2>3, SameOps
  <2>5. PICK eu, fg, h2 \in Int : eu = e * ux /\ fg = f * gh /\ h2 = y1 * (z * z * z)
    OBVIOUS
  <2>6. Same(eu - d, fg - h2)
    BY <1>3, <2>4, <2>5, SameOps
  <2>7. PICK t, m \in Int : t = fg - h2 /\ m = s * (x1 - x) - y1
    BY <2>5
  <2>8. Same(Y, t)
    <3>1. eu - d = e * (u - X) - d /\ eu - d \in Int
      BY <2>3, <2>5
    <3> QED
      BY <1>3, <2>6, <2>7, <3>1, SameIs
  <2>9. t = m * zzz
    BY <2>1, <2>3, <2>5, <2>7
  <2>10. Same(y * zzz, m * zzz)
    BY <1>2, <2>7, SameTimes
  <2>11. y * zzz \in Int /\ m * zzz \in Int
    OBVIOUS
  <2> QED
    BY <1>3, <2>1, <2>8, <2>9, <2>10, <2>11, SameIs
<1>6. c # ZERO
  BY CurveIs DEF Line
<1> QED
  BY <1>1, <1>4, <1>5, <1>6 DEF Stands, Triple

LEMMA StandsIs ==
  ASSUME NEW a \in Points, NEW p, Stands(p, a)
  PROVE  /\ p \in Triple /\ p[1] \in Field /\ p[2] \in Field /\ p[3] \in Field
         /\ p[3] # 0 /\ ~Same(p[3], 0) /\ p[2] # 0
         /\ Same(p[1], a[1] * (p[3] * p[3])) /\ Same(p[2], a[2] * (p[3] * p[3] * p[3]))
<1>1. /\ p \in Triple /\ p[1] \in Field /\ p[2] \in Field /\ p[3] \in Field /\ p[3] # 0
      /\ Same(p[1], a[1] * (p[3] * p[3])) /\ Same(p[2], a[2] * (p[3] * p[3] * p[3]))
  BY CurveIs DEF Stands, Triple
<1>2. 0 \in Field
  BY PIs, FieldAssumption
<1>3. ~Same(p[3], 0)
  BY <1>1, <1>2, SameEqual
<1>4. PICK y, z, zz, zzz \in Int : y = a[2] /\ z = p[3] /\ zz = z * z /\ zzz = zz * z
  BY <1>1, CurveIs, PIs
<1>5. ~Same(y, 0) /\ ~Same(z, 0)
  BY <1>2, <1>3, <1>4, CurveIs, SameEqual
<1>6. ~Same(zz, 0)
  <2>1. ~Same(z * z, 0)
    BY <1>5, Product
  <2> QED
    BY <1>4, <2>1
<1>7. ~Same(zzz, 0)
  <2>1. ~Same(zz * z, 0)
    BY <1>5, <1>6, Product
  <2> QED
    BY <1>4, <2>1
<1>8. ~Same(y * zzz, 0)
  BY <1>5, <1>7, Product
<1>9. p[2] # 0
  <2>1. SUFFICES ASSUME p[2] = 0 PROVE FALSE
    OBVIOUS
  <2>2. Same(0, y * zzz) /\ y * zzz \in Int
    BY <1>1, <1>4, <2>1
  <2> QED
    BY <1>8, <2>2, SameIs
<1> QED
  BY <1>1, <1>3, <1>9
LEMMA SamePowers ==
  ASSUME NEW x \in Int, NEW y \in Int, NEW z \in Int, Same(x, y)
  PROVE  Same(z * x, z * y) /\ Same(z * (x * x), z * (y * y)) /\ Same(z * (x * x * x), z * (y * y * y))
<1>1. Same(x * x, y * y)
  BY SameOps
<1>2. PICK xx, yy \in Int : xx = x * x /\ yy = y * y
  OBVIOUS
<1>3. Same(xx * x, yy * y)
  BY <1>1, <1>2, SameOps
<1>4. PICK xxx, yyy \in Int : xxx = xx * x /\ yyy = yy * y
  OBVIOUS
<1>5. Same(z * x, z * y) /\ Same(z * xx, z * yy) /\ Same(z * xxx, z * yyy)
  BY <1>1, <1>2, <1>3, <1>4, SameTimes
<1> QED
  BY <1>2, <1>4, <1>5

\* The double of a finite point, whatever the order its terms are worked out in.
LEMMA DoubleStands ==
  ASSUME NEW a \in Points, NEW X \in Field, NEW Y \in Field, NEW Z \in Field,
         Stands(<<X, Y, Z>>, a),
         NEW nx \in Field, NEW ny \in Field, NEW nz \in Field,
         NEW e \in Int, NEW d \in Int, NEW c \in Int,
         Same(e, 3 * X * X), Same(d, 4 * X * Y * Y), Same(c, 8 * Y * Y * Y * Y),
         Same(nx, e * e - d - d), Same(ny, e * (d - nx) - c), Same(nz, 2 * Y * Z)
  PROVE  Stands(<<nx, ny, nz>>, add(a, a))
<1>1. PICK s \in Int : Line(a, a, add(a, a), s)
  BY AddIs
<1>2. PICK x, y, z \in Int : x = a[1] /\ y = a[2] /\ z = Z
  BY CurveIs, PIs
<1>x. PICK X0 \in Int : X0 = x * (z * z)
  OBVIOUS
<1>y. PICK Y0 \in Int : Y0 = y * (z * z * z)
  OBVIOUS
<1>n. PICK n0 \in Int : n0 = 2 * Y0 * z
  OBVIOUS
<1>3. Same(X, X0) /\ Same(Y, Y0) /\ ~Same(z, 0) /\ ~Same(Y, 0) /\ X \in Int /\ Y \in Int
  <2>1. DEFINE p == <<X, Y, Z>>
  <2>2. p[1] = X /\ p[2] = Y /\ p[3] = Z
    OBVIOUS
  <2> HIDE DEF p
  <2>3. Same(p[1], a[1] * (p[3] * p[3])) /\ Same(p[2], a[2] * (p[3] * p[3] * p[3])) /\ ~Same(p[3], 0) /\ p[2] # 0
    BY StandsIs DEF p
  <2>4. 0 \in Field
    BY PIs, FieldAssumption
  <2> QED
    BY <1>2, <1>x, <1>y, <2>2, <2>3, <2>4, PIs, SameEqual
<1>4. Same(nz, n0) /\ nz \in Int /\ nz # 0
  <2>1. PICK t, u, t0, u0 \in Int : t = Y * z /\ u = 2 * t /\ t0 = Y0 * z /\ u0 = 2 * t0
    BY <1>3
  <2>2. Same(t, t0)
    BY <1>3, <2>1, SameTimes
  <2>3. PICK q \in Int : q = 2
    OBVIOUS
  <2>4. Same(q * t, q * t0)
    BY <2>2, SameTimes
  <2>5. ~Same(t, 0)
    BY <1>3, <2>1, Product
  <2>6. ~Same(q * t, 0)
    BY <2>3, <2>5, Product, Two
  <2>a. 2 * Y * z = 2 * (Y * z) /\ n0 = 2 * (Y0 * z)
    BY <1>3, <1>n
  <2>7. 2 * Y * Z = q * t /\ q * t \in Int /\ n0 = q * t0 /\ nz \in Int
    BY <1>2, <2>1, <2>3, <2>a, PIs
  <2>8. Same(nz, n0)
    BY <2>4, <2>7, SameIs
  <2>9. nz # 0
    BY <2>6, <2>7, SameIs
  <2> QED
    BY <2>7, <2>8, <2>9
<1>5. PICK e0, d0, c0 \in Int : e0 = 3 * (X0 * X0) /\ d0 = x * (n0 * n0) /\ c0 = y * (n0 * n0 * n0)
  OBVIOUS
<1>6. Same(e, e0)
  <2>1. PICK t \in Int : t = 3
    OBVIOUS
  <2>2. Same(t * (X * X), t * (X0 * X0))
    BY <1>3, <2>1, SamePowers
  <2>3. t * (X * X) = 3 * X * X /\ t * (X * X) \in Int /\ t * (X0 * X0) = e0
    BY <1>3, <1>5, <2>1
  <2> QED
    BY <2>2, <2>3, SameIs
<1>7. Same(d, d0)
  <2>1. PICK f, f0, g, g0 \in Int : f = Y * Y /\ f0 = Y0 * Y0 /\ g = 4 * X /\ g0 = 4 * X0
    BY <1>3
  <2>2. Same(f, f0) /\ Same(g, g0)
    <3>1. PICK t \in Int : t = 4
      OBVIOUS
    <3>2. Same(t * X, t * X0) /\ Same(Y * Y, Y0 * Y0)
      BY <1>3, <3>1, SameTimes, SameOps
    <3> QED
      BY <2>1, <3>1, <3>2
  <2>3. Same(g * f, g0 * f0)
    BY <2>2, SameOps
  <2>4. 4 * X * Y * Y = g * f /\ g * f \in Int
    BY <1>3, <2>1
  <2>5. g0 * f0 = d0
    <3>1. g0 * f0 = 4 * (x * (z * z)) * (Y0 * Y0) /\ d0 = x * ((2 * Y0 * z) * (2 * Y0 * z))
      BY <1>x, <1>n, <1>5, <2>1
    <3> QED
      BY <3>1
  <2> QED
    BY <2>3, <2>4, <2>5, SameIs
<1>8. Same(c, c0)
  <2>1. PICK f, f0, h, h0 \in Int : f = Y * Y /\ f0 = Y0 * Y0 /\ h = f * f /\ h0 = f0 * f0
    BY <1>3
  <2>2. Same(f, f0)
    BY <1>3, <2>1, SameOps
  <2>3. PICK t \in Int : t = 8
    OBVIOUS
  <2>4. Same(t * (f * f), t * (f0 * f0))
    BY <2>2, SamePowers
  <2>5. 8 * Y * Y * Y * Y = t * (f * f) /\ t * (f * f) \in Int
    BY <1>3, <2>1, <2>3
  <2>6. t * (f0 * f0) = c0
    <3>1. t * (f0 * f0) = 8 * (Y0 * Y0 * (Y0 * Y0)) /\ c0 = y * ((2 * Y0 * z) * (2 * Y0 * z) * (2 * Y0 * z))
      BY <1>n, <1>5, <2>1, <2>3
    <3>2. c0 = 8 * (Y0 * Y0 * Y0 * (y * (z * z * z)))
      BY <3>1
    <3> QED
      BY <1>y, <3>1, <3>2
  <2> QED
    BY <2>4, <2>5, <2>6, SameIs
<1>9. Same(x * (nz * nz), d0) /\ Same(y * (nz * nz * nz), c0) /\ Same(s * nz, s * n0)
  BY <1>4, <1>5, SamePowers
<1>10. Same(s * n0, e0)
  <2>1. PICK m, g, zz \in Int : m = 2 * y /\ g = 3 * x * x /\ zz = z * z * z * z
    OBVIOUS
  <2>2. PICK sm \in Int : sm = s * m /\ Same(sm, g)
    <3>1. Same(s * (2 * y), 3 * x * x)
      BY <1>1, <1>2 DEF Line
    <3>2. s * m \in Int
      OBVIOUS
    <3> QED
      BY <2>1, <3>1, <3>2
  <2>3. Same(sm * zz, g * zz)
    BY <2>2, SameTimes
  <2>4. s * n0 = sm * zz
    <3>1. s * n0 = s * (2 * (y * (z * z * z)) * z)
      BY <1>y, <1>n
    <3>2. sm * zz = s * (2 * y) * (z * z * z * z)
      BY <2>1, <2>2
    <3> QED
      BY <3>1, <3>2
  <2>5. e0 = g * zz
    <3>1. e0 = 3 * ((x * (z * z)) * (x * (z * z))) /\ g * zz = 3 * x * x * (z * z * z * z)
      BY <1>x, <1>5, <2>1
    <3> QED
      BY <3>1
  <2> QED
    BY <2>3, <2>4, <2>5
<1>11. Same(e, s * nz) /\ Same(d, x * (nz * nz)) /\ Same(c, y * (nz * nz * nz))
  <2>1. s * nz \in Int /\ s * n0 \in Int /\ x * (nz * nz) \in Int /\ y * (nz * nz * nz) \in Int
    BY <1>4
  <2> QED
    BY <1>5, <1>6, <1>7, <1>8, <1>9, <1>10, <2>1, SameIs
<1> QED
  BY <1>1, <1>2, <1>4, <1>11, ThirdStands
\* The sum of two points with different abscissas, both in scale z.
LEMMA ChordStands ==
  ASSUME NEW a \in Points, NEW b \in Points, a[1] # b[1],
         NEW z \in Int, ~Same(z, 0), NEW m \in Int, ~Same(m, 0),
         NEW u1 \in Int, NEW u2 \in Int, NEW s1 \in Int, NEW s2 \in Int,
         Same(u1, a[1] * (z * z)), Same(u2, b[1] * (z * z)),
         Same(s1, a[2] * (z * z * z)), Same(s2, b[2] * (z * z * z)),
         NEW h \in Int, NEW g \in Int, NEW j \in Int, NEW rr \in Int, NEW v \in Int, NEW t \in Int,
         Same(h, u2 - u1), Same(g, m * h * (m * h)), Same(j, h * g),
         Same(rr, m * (s2 - s1)), Same(v, u1 * g), Same(t, m * (s1 * j)),
         NEW nx \in Field, NEW ny \in Field, NEW nz \in Field,
         Same(nx, rr * rr - j - 2 * v), Same(ny, rr * (v - nx) - t), Same(nz, m * h * z)
  PROVE  Stands(<<nx, ny, nz>>, add(a, b))
<1>1. PICK s \in Int : Line(a, b, add(a, b), s)
  BY AddIs
<1>2. PICK x1, y1, x2, y2 \in Int : x1 = a[1] /\ y1 = a[2] /\ x2 = b[1] /\ y2 = b[2]
  BY CurveIs
<1>a. PICK X1, X2, Y1, Y2 \in Int :
        X1 = x1 * (z * z) /\ X2 = x2 * (z * z) /\ Y1 = y1 * (z * z * z) /\ Y2 = y2 * (z * z * z)
  OBVIOUS
<1>b. Same(u1, X1) /\ Same(u2, X2) /\ Same(s1, Y1) /\ Same(s2, Y2)
  BY <1>2, <1>a
<1>c. PICK h0 \in Int : h0 = X2 - X1
  OBVIOUS
<1>d. Same(h, h0)
  <2>1. PICK f \in Int : f = u2 - u1
    OBVIOUS
  <2>2. Same(f, h0)
    BY <1>b, <1>c, <2>1, SameOps
  <2> QED
    BY <2>1, <2>2, SameIs
<1>e. PICK f, f0 \in Int : f = m * h /\ f0 = m * h0
  OBVIOUS
<1>f. Same(f, f0)
  BY <1>d, <1>e, SameTimes
<1>g. PICK g0 \in Int : g0 = f0 * f0
  OBVIOUS
<1>h. Same(g, g0)
  <2>1. Same(f * f, f0 * f0) /\ f * f \in Int
    BY <1>f, SameOps
  <2>2. Same(g, f * f)
    BY <1>e
  <2> QED
    BY <1>g, <2>1, <2>2, SameIs
<1>i. PICK j0 \in Int : j0 = h0 * g0
  OBVIOUS
<1>j. Same(j, j0)
  <2>1. Same(h * g, h0 * g0) /\ h * g \in Int
    BY <1>d, <1>h, SameOps
  <2> QED
    BY <1>i, <2>1, SameIs
<1>k. PICK v0, l0 \in Int : v0 = X1 * g0 /\ l0 = v0 + j0
  OBVIOUS
<1>l. Same(v, v0)
  <2>1. Same(u1 * g, X1 * g0) /\ u1 * g \in Int
    BY <1>b, <1>h, SameOps
  <2> QED
    BY <1>k, <2>1, SameIs
<1>m. PICK l \in Int : l = v + j
  OBVIOUS
<1>n. Same(l, l0)
  BY <1>j, <1>k, <1>l, <1>m, SameOps
<1>o. PICK t0 \in Int : t0 = m * (Y1 * j0)
  OBVIOUS
<1>p. Same(t, t0)
  <2>1. PICK q, q0 \in Int : q = s1 * j /\ q0 = Y1 * j0
    OBVIOUS
  <2>2. Same(q, q0)
    BY <1>b, <1>j, <2>1, SameOps
  <2>a. m * q \in Int /\ m * q0 \in Int
    OBVIOUS
  <2>3. Same(m * q, m * q0)
    BY <2>2, SameTimes
  <2> QED
    BY <1>o, <2>1, <2>a, <2>3, SameIs
<1>q. PICK r0 \in Int : r0 = m * (Y2 - Y1)
  OBVIOUS
<1>r. Same(rr, r0)
  <2>1. PICK q, q0 \in Int : q = s2 - s1 /\ q0 = Y2 - Y1
    OBVIOUS
  <2>2. Same(q, q0)
    BY <1>b, <2>1, SameOps
  <2>a. m * q \in Int /\ m * q0 \in Int
    OBVIOUS
  <2>3. Same(m * q, m * q0)
    BY <2>2, SameTimes
  <2> QED
    BY <1>q, <2>1, <2>a, <2>3, SameIs
<1>s. PICK n0 \in Int : n0 = f0 * z
  OBVIOUS
<1>3. Same(nz, n0) /\ nz \in Int /\ nz # 0
  <2>1. Same(f * z, f0 * z) /\ f * z \in Int /\ nz \in Int
    BY <1>f, SameTimes, PIs
  <2>2. Same(nz, f * z)
    BY <1>e
  <2>3. Same(nz, n0)
    BY <1>s, <2>1, <2>2, SameIs
  <2>4. ~Same(h0, 0)
    <3>1. PICK dx, zz \in Int : dx = x2 - x1 /\ zz = z * z
      OBVIOUS
    <3>2. ~Same(x2, x1)
      BY <1>2, CurveIs, SameEqual
    <3>3. ~Same(dx, 0)
      BY <3>1, <3>2, Difference
    <3>4. ~Same(z * z, 0)
      BY Product
    <3>5. ~Same(zz, 0)
      BY <3>1, <3>4
    <3>6. ~Same(dx * zz, 0)
      BY <3>3, <3>5, Product
    <3>7. h0 = dx * zz
      BY <1>a, <1>c, <3>1
    <3> QED
      BY <3>6, <3>7
  <2>5. ~Same(m * h0, 0)
    BY <2>4, Product
  <2>6. ~Same(f0, 0)
    BY <1>e, <2>5
  <2>7. ~Same(f0 * z, 0)
    BY <2>6, Product
  <2>8. ~Same(n0, 0)
    BY <1>s, <2>7
  <2>9. nz # 0
    BY <2>3, <2>8, SameIs
  <2> QED
    BY <2>1, <2>3, <2>9
<1>4. /\ Same(s * nz, s * n0) /\ Same(x1 * (nz * nz), x1 * (n0 * n0))
      /\ Same(x2 * (nz * nz), x2 * (n0 * n0)) /\ Same(y1 * (nz * nz * nz), y1 * (n0 * n0 * n0))
  BY <1>3, SamePowers
<1>5. v0 = x1 * (n0 * n0)
  <2>1. v0 = (x1 * (z * z)) * (f0 * f0) /\ n0 = f0 * z
    BY <1>a, <1>g, <1>k, <1>s
  <2> QED
    BY <2>1
<1>6. l0 = x2 * (n0 * n0)
  <2>1. l0 = (X1 + h0) * g0
    BY <1>i, <1>k
  <2>2. X1 + h0 = x2 * (z * z)
    BY <1>a, <1>c
  <2>3. l0 = (x2 * (z * z)) * (f0 * f0) /\ n0 = f0 * z
    BY <1>g, <1>s, <2>1, <2>2
  <2> QED
    BY <2>3
<1>7. t0 = y1 * (n0 * n0 * n0)
  <2>1. t0 = Y1 * ((m * h0) * g0)
    BY <1>i, <1>o
  <2>2. t0 = (y1 * (z * z * z)) * (f0 * (f0 * f0)) /\ n0 = f0 * z
    BY <1>a, <1>e, <1>g, <1>s, <2>1
  <2> QED
    BY <2>2
<1>8. Same(s * n0, r0)
  <2>1. PICK dx, dy, q \in Int : dx = x2 - x1 /\ dy = y2 - y1 /\ q = m * (z * z * z)
    OBVIOUS
  <2>2. PICK sd \in Int : sd = s * dx /\ Same(sd, dy)
    <3>1. Same(s * (x2 - x1), y2 - y1)
      BY <1>1, <1>2 DEF Line
    <3>2. s * dx \in Int
      OBVIOUS
    <3> QED
      BY <2>1, <3>1, <3>2
  <2>3. Same(sd * q, dy * q)
    BY <2>2, SameTimes
  <2>4. s * n0 = sd * q
    <3>1. n0 = (m * (x2 * (z * z) - x1 * (z * z))) * z
      BY <1>a, <1>c, <1>e, <1>s
    <3>2. sd * q = s * (x2 - x1) * (m * (z * z * z))
      BY <2>1, <2>2
    <3> QED
      BY <3>1, <3>2
  <2>5. r0 = dy * q
    <3>1. r0 = m * (y2 * (z * z * z) - y1 * (z * z * z)) /\ dy * q = (y2 - y1) * (m * (z * z * z))
      BY <1>a, <1>q, <2>1
    <3> QED
      BY <3>1
  <2> QED
    BY <2>3, <2>4, <2>5
<1>9. Same(rr, s * nz) /\ Same(v, x1 * (nz * nz)) /\ Same(l, x2 * (nz * nz)) /\ Same(t, y1 * (nz * nz * nz))
  <2>1. s * nz \in Int /\ s * n0 \in Int /\ x1 * (nz * nz) \in Int /\ x2 * (nz * nz) \in Int
        /\ y1 * (nz * nz * nz) \in Int
    BY <1>3
  <2> QED
    BY <1>l, <1>n, <1>p, <1>r, <1>4, <1>5, <1>6, <1>7, <1>8, <2>1, SameIs
<1>10. Same(nx, rr * rr - v - l)
  <2>1. rr * rr - j - 2 * v = rr * rr - v - l
    BY <1>m
  <2> QED
    BY <2>1
<1> QED
  BY <1>1, <1>2, <1>3, <1>9, <1>10, ThirdStands
LEMMA InField ==
  /\ \A x, y \in Field : addFp(x, y) \in Field /\ mulFp(x, y) \in Field /\ sqrFp(x) \in Field /\ subFp(x, y) \in Field
  /\ \A x, y \in Field : /\ Same(addFp(x, y), x + y) /\ Same(mulFp(x, y), x * y)
                         /\ Same(sqrFp(x), x * x) /\ Same(subFp(x, y), x - y)
<1>1. \A x \in Field : x \in Nat /\ x <= P
  BY PIs
<1> QED
  BY <1>1, Operations

LEMMA Small == 0 \in Field /\ 1 \in Field /\ 2 \in Field /\ 3 \in Field
BY PIs, FieldAssumption

LEMMA EightTimes == ASSUME NEW x \in Field PROVE mulFp(8, x) \in Field /\ Same(mulFp(8, x), 8 * x)
BY Operations, PIs

\* dbl-2009-l doubles.
LEMMA JacDoubleIs ==
  ASSUME NEW p \in Triple
  PROVE  /\ jacDouble(p) \in Triple
         /\ p[3] = 0 => jacDouble(p)[3] = 0
         /\ \A a \in Points : Stands(p, a) => Stands(jacDouble(p), add(a, a))
<1>1. PICK X, Y, Z \in Field : p = <<X, Y, Z>>
  BY DEF Triple
<1> DEFINE a0 == sqrFp(X)
           b0 == sqrFp(Y)
           c0 == sqrFp(b0)
           f0 == addFp(X, b0)
           g0 == sqrFp(f0)
           h0 == subFp(g0, a0)
           l0 == subFp(h0, c0)
           d0 == mulFp(2, l0)
           e0 == mulFp(3, a0)
           s0 == sqrFp(e0)
           t0 == mulFp(2, d0)
           nx == subFp(s0, t0)
           u0 == subFp(d0, nx)
           v0 == mulFp(e0, u0)
           w0 == mulFp(8, c0)
           ny == subFp(v0, w0)
           y0 == mulFp(Y, Z)
           nz == mulFp(2, y0)
<1>2. jacDouble(p) = <<nx, ny, nz>>
  BY <1>1 DEF jacDouble
<1>3. /\ a0 \in Field /\ b0 \in Field /\ c0 \in Field /\ f0 \in Field /\ g0 \in Field /\ h0 \in Field
      /\ l0 \in Field /\ d0 \in Field /\ e0 \in Field /\ s0 \in Field /\ t0 \in Field /\ nx \in Field
      /\ u0 \in Field /\ v0 \in Field /\ w0 \in Field /\ ny \in Field /\ y0 \in Field /\ nz \in Field
  <2>1. a0 \in Field /\ b0 \in Field
    BY InField
  <2> HIDE DEF a0, b0
  <2>2. c0 \in Field /\ f0 \in Field
    BY <2>1, InField
  <2> HIDE DEF c0, f0
  <2>3. g0 \in Field
    BY <2>2, InField
  <2> HIDE DEF g0
  <2>4. h0 \in Field
    BY <2>1, <2>3, InField
  <2> HIDE DEF h0
  <2>5. l0 \in Field /\ e0 \in Field
    BY <2>1, <2>2, <2>4, InField, Small
  <2> HIDE DEF l0, e0
  <2>6. d0 \in Field /\ s0 \in Field /\ w0 \in Field
    BY <2>2, <2>5, InField, Small, EightTimes
  <2> HIDE DEF d0, s0, w0
  <2>7. t0 \in Field
    BY <2>6, InField, Small
  <2> HIDE DEF t0
  <2>8. nx \in Field
    BY <2>6, <2>7, InField
  <2> HIDE DEF nx
  <2>9. u0 \in Field
    BY <2>6, <2>8, InField
  <2> HIDE DEF u0
  <2>10. v0 \in Field
    BY <2>5, <2>9, InField
  <2> HIDE DEF v0
  <2>11. ny \in Field /\ y0 \in Field
    BY <2>6, <2>10, InField
  <2> HIDE DEF y0
  <2>12. nz \in Field
    BY <2>11, InField, Small
  <2> QED
    BY <2>1, <2>2, <2>3, <2>4, <2>5, <2>6, <2>7, <2>8, <2>9, <2>10, <2>11, <2>12
<1>4. /\ Same(a0, X * X) /\ Same(b0, Y * Y) /\ Same(c0, b0 * b0) /\ Same(f0, X + b0) /\ Same(g0, f0 * f0)
      /\ Same(h0, g0 - a0) /\ Same(l0, h0 - c0) /\ Same(d0, 2 * l0) /\ Same(e0, 3 * a0) /\ Same(s0, e0 * e0)
      /\ Same(t0, 2 * d0) /\ Same(nx, s0 - t0) /\ Same(u0, d0 - nx) /\ Same(v0, e0 * u0)
      /\ Same(w0, 8 * c0) /\ Same(ny, v0 - w0) /\ Same(y0, Y * Z) /\ Same(nz, 2 * y0)
  BY <1>3, InField, Small, EightTimes
<1>5. p[3] = 0 => nz = 0
  <2> SUFFICES ASSUME Z = 0 PROVE nz = 0
    BY <1>1
  <2>1. y0 = 0
    <3>1. Y * Z = 0 /\ 0 % P = 0
      BY PIs, Small, SmallIs
    <3> QED
      BY <3>1 DEF mulFp, vmMod
  <2> QED
    BY <2>1, Small, SmallIs DEF mulFp, vmMod
<1> HIDE DEF a0, b0, c0, f0, g0, h0, l0, d0, e0, s0, t0, nx, u0, v0, w0, ny, y0, nz
<1>6. ASSUME NEW a \in Points, Stands(p, a) PROVE Stands(<<nx, ny, nz>>, add(a, a))
  <2>1. X \in Int /\ Y \in Int /\ Z \in Int
    BY PIs
  <2>2. Same(e0, 3 * X * X)
    <3>1. PICK q, xx \in Int : q = 3 /\ xx = X * X
      BY <2>1
    <3>2. Same(q * a0, q * xx)
      BY <1>3, <1>4, <3>1, SameTimes, PIs
    <3>3. q * a0 \in Int /\ q * xx = 3 * X * X /\ q * xx \in Int
      BY <1>3, <2>1, <3>1, PIs
    <3> QED
      BY <1>3, <1>4, <3>1, <3>2, <3>3, SameIs, PIs
  <2>3. PICK yy \in Int : yy = Y * Y
    BY <2>1
  <2>4. Same(c0, yy * yy)
    <3>1. Same(b0 * b0, yy * yy)
      BY <1>3, <1>4, <2>3, SameOps, PIs
    <3>2. b0 * b0 \in Int /\ yy * yy \in Int /\ c0 \in Int
      BY <1>3, PIs
    <3> QED
      BY <1>4, <3>1, <3>2, SameIs
  <2>5. Same(f0, X + yy)
    <3>1. Same(X + b0, X + yy)
      BY <1>3, <1>4, <2>1, <2>3, SameOps, SameIs, PIs
    <3>2. X + b0 \in Int /\ X + yy \in Int /\ f0 \in Int
      BY <1>3, <2>1, PIs
    <3> QED
      BY <1>4, <3>1, <3>2, SameIs
  <2>6. PICK f, xx, y4 \in Int : f = X + yy /\ xx = X * X /\ y4 = yy * yy
    BY <2>1
  <2>7. Same(g0, f * f)
    <3>1. Same(f0 * f0, f * f)
      BY <1>3, <2>5, <2>6, SameOps, PIs
    <3>2. f0 * f0 \in Int /\ f * f \in Int /\ g0 \in Int
      BY <1>3, PIs
    <3> QED
      BY <1>4, <3>1, <3>2, SameIs
  <2>8. PICK ff \in Int : ff = f * f
    OBVIOUS
  <2>9. Same(h0, ff - xx)
    <3>1. Same(g0 - a0, ff - xx)
      BY <1>3, <1>4, <2>6, <2>7, <2>8, SameOps, PIs
    <3>2. g0 - a0 \in Int /\ ff - xx \in Int /\ h0 \in Int
      BY <1>3, PIs
    <3> QED
      BY <1>4, <3>1, <3>2, SameIs
  <2>10. PICK hh \in Int : hh = ff - xx
    OBVIOUS
  <2>11. Same(l0, hh - y4)
    <3>1. Same(h0 - c0, hh - y4)
      BY <1>3, <2>4, <2>6, <2>9, <2>10, SameOps, PIs
    <3>2. h0 - c0 \in Int /\ hh - y4 \in Int /\ l0 \in Int
      BY <1>3, PIs
    <3> QED
      BY <1>4, <3>1, <3>2, SameIs
  <2>12. Same(d0, 4 * X * Y * Y)
    <3>1. PICK q, l \in Int : q = 2 /\ l = hh - y4
      OBVIOUS
    <3>2. Same(q * l0, q * l)
      BY <1>3, <2>11, <3>1, SameTimes, PIs
    <3>3. q * l0 \in Int /\ q * l \in Int /\ d0 \in Int
      BY <1>3, <3>1, PIs
    <3>4. q * l = 4 * X * Y * Y
      <4>1. l = (X + yy) * (X + yy) - X * X - yy * yy
        BY <2>1, <2>6, <2>8, <2>10, <3>1
      <4>2. q * l = 4 * X * yy
        BY <2>1, <3>1, <4>1
      <4> QED
        BY <2>1, <2>3, <4>2
    <3> QED
      BY <1>4, <3>1, <3>2, <3>3, <3>4, SameIs
  <2>13. Same(w0, 8 * Y * Y * Y * Y)
    <3>1. PICK q \in Int : q = 8
      OBVIOUS
    <3>2. Same(q * c0, q * y4)
      BY <1>3, <2>4, <2>6, SameTimes, PIs
    <3>3. q * c0 \in Int /\ q * y4 \in Int /\ w0 \in Int
      BY <1>3, PIs
    <3>4. q * y4 = 8 * Y * Y * Y * Y
      BY <2>1, <2>3, <2>6, <3>1
    <3> QED
      BY <1>4, <3>1, <3>2, <3>3, <3>4, SameIs
  <2>14. Same(nx, e0 * e0 - d0 - d0)
    <3>1. e0 \in Int /\ d0 \in Int /\ s0 \in Int /\ t0 \in Int /\ nx \in Int
      BY <1>3, PIs
    <3>2. PICK ee, dd \in Int : ee = e0 * e0 /\ dd = 2 * d0
      BY <3>1
    <3>3. Same(s0 - t0, ee - dd)
      BY <1>4, <3>1, <3>2, SameOps
    <3>4. s0 - t0 \in Int /\ ee - dd \in Int /\ ee - dd = e0 * e0 - d0 - d0
      BY <3>1, <3>2
    <3> QED
      BY <1>4, <3>1, <3>3, <3>4, SameIs
  <2>15. Same(ny, e0 * (d0 - nx) - w0)
    <3>1. e0 \in Int /\ d0 \in Int /\ u0 \in Int /\ v0 \in Int /\ nx \in Int /\ w0 \in Int /\ ny \in Int
      BY <1>3, PIs
    <3>2. PICK q \in Int : q = d0 - nx
      BY <3>1
    <3>3. Same(e0 * u0, e0 * q)
      BY <1>4, <3>1, <3>2, SameTimes
    <3>4. PICK eq \in Int : eq = e0 * q
      BY <3>1
    <3>5. e0 * u0 \in Int
      BY <3>1
    <3>6. Same(v0, eq)
      BY <1>4, <3>1, <3>3, <3>4, <3>5, SameIs
    <3>7. Same(v0 - w0, eq - w0)
      BY <3>1, <3>6, SameOps, SameIs
    <3>8. v0 - w0 \in Int /\ eq - w0 \in Int
      BY <3>1
    <3>9. Same(ny, eq - w0)
      BY <1>4, <3>1, <3>7, <3>8, SameIs
    <3> QED
      BY <3>2, <3>4, <3>9
  <2>16. Same(nz, 2 * Y * Z)
    <3>1. PICK q, yz \in Int : q = 2 /\ yz = Y * Z
      BY <2>1
    <3>2. Same(q * y0, q * yz)
      BY <1>3, <1>4, <3>1, SameTimes, PIs
    <3>3. q * y0 \in Int /\ q * yz \in Int /\ nz \in Int /\ q * yz = 2 * Y * Z
      BY <1>3, <2>1, <3>1, PIs
    <3> QED
      BY <1>4, <3>1, <3>2, <3>3, SameIs
  <2>17. e0 \in Int /\ d0 \in Int /\ w0 \in Int /\ Stands(<<X, Y, Z>>, a)
    BY <1>1, <1>3, <1>6, PIs
  <2> QED
    BY <1>3, <2>2, <2>12, <2>13, <2>14, <2>15, <2>16, <2>17, DoubleStands
<1>7. <<nx, ny, nz>> \in Triple
  BY <1>3 DEF Triple
<1> QED
  BY <1>2, <1>5, <1>6, <1>7
LEMMA Carry ==
  ASSUME NEW x \in Int, NEW x0 \in Int, NEW y \in Int, NEW y0 \in Int, NEW v \in Int,
         Same(x, x0), Same(y, y0)
  PROVE  /\ Same(v, x + y) => Same(v, x0 + y0)
         /\ Same(v, x - y) => Same(v, x0 - y0)
         /\ Same(v, x * y) => Same(v, x0 * y0)
<1>1. x + y \in Int /\ x0 + y0 \in Int /\ x - y \in Int /\ x0 - y0 \in Int
  OBVIOUS
<1>2. x * y \in Int /\ x0 * y0 \in Int
  OBVIOUS
<1>3. Same(x + y, x0 + y0) /\ Same(x - y, x0 - y0) /\ Same(x * y, x0 * y0)
  BY SameOps
<1> QED
  BY <1>1, <1>2, <1>3, SameIs

LEMMA CarryTimes ==
  ASSUME NEW x \in Int, NEW x0 \in Int, NEW v \in Int, NEW q \in Int, Same(x, x0), Same(v, q * x)
  PROVE  Same(v, q * x0)
BY Carry, SameIs

LEMMA ZeroTimes ==
  ASSUME NEW x \in Int, NEW y \in Int, NEW v \in Int, Same(v, x * y), Same(x, 0) \/ Same(y, 0)
  PROVE  Same(v, 0)
<1>1. Same(x * y, 0) /\ x * y \in Int
  BY SameZero
<1> QED
  BY <1>1, SameIs

LEMMA MultiplesOfP == ASSUME NEW x \in Int, NEW q \in Int PROVE Same(x + q * P, x)
BY PIs DEF Same, Cong

LEMMA VmModIs == ASSUME NEW x \in Nat PROVE vmMod(x) \in Field /\ Same(vmMod(x), x)
<1>1. x \in Int /\ x >= 0
  OBVIOUS
<1> QED
  BY ONLY <1>1, Reduced

\* The grouped chunks' doubling doubles.
LEMMA JacDoubleGroupedIs ==
  ASSUME NEW p \in Triple
  PROVE  /\ jacDoubleGrouped(p) \in Triple
         /\ \A a \in Points : Stands(p, a) => Stands(jacDoubleGrouped(p), add(a, a))
<1>1. PICK X, Y, Z \in Field : p = <<X, Y, Z>>
  BY DEF Triple
<1>2. X \in Nat /\ Y \in Nat /\ Z \in Nat
  BY PIs
<1> DEFINE a0 == vmMod(X * X)
           b0 == vmMod(Y * Y)
           c0 == vmMod(b0 * b0)
           d0 == vmMod(4 * X * b0)
           e0 == vmMod(a0 * 3)
           f0 == vmMod(e0 * e0)
           nx == vmMod(f0 - 2 * d0 + 2 * P)
           ny == vmMod((d0 - nx + P) * e0 + 8 * P - c0 * 8)
           nz == vmMod(2 * Y * Z)
<1>3. jacDoubleGrouped(p) = <<nx, ny, nz>>
  BY <1>1 DEF jacDoubleGrouped
<1>4. a0 \in Field /\ Same(a0, X * X) /\ b0 \in Field /\ Same(b0, Y * Y)
  <2>1. X * X \in Nat /\ Y * Y \in Nat
    BY <1>2
  <2> QED
    BY <2>1, VmModIs
<1>5. nz \in Field /\ Same(nz, 2 * Y * Z)
  <2>1. 2 * Y * Z \in Nat
    BY <1>2
  <2> QED
    BY <2>1, VmModIs
<1> HIDE DEF a0, b0, nz
<1>6. a0 \in Nat /\ b0 \in Nat
  BY <1>4, PIs
<1>7. c0 \in Field /\ Same(c0, b0 * b0) /\ d0 \in Field /\ Same(d0, 4 * X * b0) /\ e0 \in Field /\ Same(e0, a0 * 3)
  <2>1. b0 * b0 \in Nat /\ 4 * X * b0 \in Nat /\ a0 * 3 \in Nat
    BY <1>2, <1>6
  <2> QED
    BY <2>1, VmModIs
<1> HIDE DEF c0, d0, e0
<1>8. c0 \in Nat /\ d0 \in Nat /\ e0 \in Nat /\ c0 < P /\ d0 < P
  BY <1>7, PIs
<1>9. f0 \in Field /\ Same(f0, e0 * e0)
  <2>1. e0 * e0 \in Nat
    BY <1>8
  <2> QED
    BY <2>1, VmModIs
<1> HIDE DEF f0
<1>10. nx \in Field /\ Same(nx, f0 - 2 * d0 + 2 * P)
  <2>1. f0 - 2 * d0 + 2 * P \in Nat
    BY <1>8, <1>9, PIs
  <2> QED
    BY <2>1, VmModIs
<1> HIDE DEF nx
<1>11. ny \in Field /\ Same(ny, (d0 - nx + P) * e0 + 8 * P - c0 * 8)
  <2>1. PICK q \in Nat : q = d0 - nx + P
    BY <1>8, <1>10, PIs
  <2>2. PICK l \in Nat : l = 8 * P - c0 * 8
    <3>1. 8 * P - c0 * 8 \in Int /\ 8 * P - c0 * 8 >= 0
      BY <1>8, PIs
    <3> QED
      BY <3>1
  <2>3. q * e0 \in Nat
    BY <1>8
  <2>4. q * e0 + l \in Nat /\ q * e0 + l = (d0 - nx + P) * e0 + 8 * P - c0 * 8
    BY <1>8, <2>1, <2>2, <2>3, PIs
  <2> QED
    BY <2>4, VmModIs
<1> HIDE DEF ny
<1>12. ASSUME NEW a \in Points, Stands(p, a) PROVE Stands(<<nx, ny, nz>>, add(a, a))
  <2>1. nx \in Int /\ ny \in Int /\ f0 \in Int /\ X \in Int /\ Y \in Int /\ P \in Int
    BY <1>2, <1>9, <1>10, <1>11, PIs
  <2>2. PICK xx, yy, y4, q, x4 \in Int : xx = X * X /\ yy = Y * Y /\ y4 = Y * Y * Y * Y /\ q = 3 /\ x4 = 4 * X
    BY <2>1
  <2>3. Same(e0, 3 * X * X)
    <3>1. Same(e0, xx * q)
      <4>1. Same(q, q) /\ Same(a0, xx) /\ Same(e0, a0 * q)
        BY <1>4, <1>7, <2>2, SameIs
      <4> QED
        BY <1>6, <1>8, <4>1, Carry
    <3> QED
      BY <2>1, <2>2, <3>1
  <2>4. Same(d0, 4 * X * Y * Y)
    <3>1. Same(d0, x4 * yy)
      <4>1. Same(b0, yy) /\ Same(d0, x4 * b0)
        BY <1>4, <1>7, <2>2
      <4> QED
        BY <1>6, <1>8, <4>1, CarryTimes
    <3>2. x4 * yy = 4 * X * Y * Y
      BY <2>1, <2>2
    <3> QED
      BY <3>1, <3>2
  <2>5. PICK c \in Int : c = 8 * c0
    BY <1>8
  <2>6. Same(c, 8 * Y * Y * Y * Y)
    <3>1. Same(b0, yy) /\ b0 \in Int /\ c0 \in Int
      BY <1>4, <1>6, <1>8, <2>2
    <3>2. Same(c0, yy * yy)
      BY <1>7, <3>1, Carry
    <3>3. PICK t, y2 \in Int : t = 8 /\ y2 = yy * yy
      OBVIOUS
    <3>4. Same(t * c0, t * y2)
      BY <3>1, <3>2, <3>3, SameTimes
    <3>5. t * y2 = 8 * Y * Y * Y * Y
      BY <2>1, <2>2, <3>3
    <3> QED
      BY <2>5, <3>3, <3>4, <3>5
  <2>7. Same(nx, e0 * e0 - d0 - d0)
    <3>1. PICK l, m, t, dd \in Int : l = f0 - dd /\ t = 2 /\ dd = 2 * d0 /\ m = e0 * e0
      <4>1. PICK m, dd, t \in Int : m = e0 * e0 /\ dd = 2 * d0 /\ t = 2
        BY <1>8
      <4>2. f0 - dd \in Int
        BY <2>1
      <4> QED
        BY <4>1, <4>2
    <3>2. Same(l + t * P, l) /\ l + t * P \in Int
      BY <2>1, MultiplesOfP
    <3>3. l + t * P = f0 - 2 * d0 + 2 * P
      BY <1>8, <2>1, <3>1
    <3>4. Same(nx, l)
      BY <1>10, <2>1, <3>2, <3>3, SameIs
    <3>5. Same(nx, m - dd)
      <4>1. Same(nx, f0 - dd) /\ Same(dd, dd) /\ Same(f0, m)
        BY <1>9, <3>1, <3>4, SameIs
      <4> QED
        BY <2>1, <4>1, Carry
    <3>6. m - dd = e0 * e0 - d0 - d0
      BY <1>8, <3>1
    <3> QED
      BY <3>5, <3>6
  <2>8. Same(ny, e0 * (d0 - nx) - c)
    <3>1. PICK l, t \in Int : l = e0 * (d0 - nx) - c /\ t = e0 + 8
      BY <1>8, <2>1
    <3>2. (d0 - nx + P) * e0 + 8 * P - c0 * 8 = l + t * P
      BY <1>8, <2>1, <2>5, <3>1
    <3>3. Same(l + t * P, l) /\ l + t * P \in Int
      BY <2>1, MultiplesOfP
    <3>4. Same(ny, l)
      BY <1>11, <2>1, <3>2, <3>3, SameIs
    <3> QED
      BY <3>1, <3>4
  <2>9. Stands(<<X, Y, Z>>, a) /\ e0 \in Int /\ d0 \in Int
    BY <1>1, <1>8, <1>12
  <2> QED
    BY <1>5, <1>10, <1>11, <2>3, <2>4, <2>6, <2>7, <2>8, <2>9, DoubleStands
<1>13. <<nx, ny, nz>> \in Triple
  BY <1>5, <1>10, <1>11 DEF Triple
<1> QED
  BY <1>3, <1>12, <1>13
\* What an accumulator keeps: its ordinate is never zero, not even at infinity.
Sound(p, a) == Stands(p, a) /\ p[2] # 0

\* Two points in one scale z: what the formulas compare.
Scaled(a, z, u, s) == Same(u, a[1] * (z * z)) /\ Same(s, a[2] * (z * z * z))

LEMMA ScalesAre ==
  ASSUME NEW z \in Int, ~Same(z, 0)
  PROVE  ~Same(z * z, 0) /\ ~Same(z * z * z, 0)
<1>1. ~Same(z * z, 0)
  BY Product
<1>2. PICK zz \in Int : zz = z * z
  OBVIOUS
<1>3. ~Same(zz * z, 0)
  BY <1>1, <1>2, Product
<1> QED
  BY <1>1, <1>2, <1>3

LEMMA TestIs ==
  ASSUME NEW a \in Points, NEW b \in Points, NEW z \in Int, ~Same(z, 0),
         NEW u1 \in Field, NEW u2 \in Field, NEW s1 \in Field, NEW s2 \in Field,
         Scaled(a, z, u1, s1), Scaled(b, z, u2, s2)
  PROVE  (u1 = u2 <=> a[1] = b[1]) /\ (s1 = s2 <=> a[2] = b[2]) /\ (u1 = u2 /\ s1 = s2 <=> a = b)
<1>1. PICK x1, y1, x2, y2 \in Field : x1 = a[1] /\ y1 = a[2] /\ x2 = b[1] /\ y2 = b[2]
  BY CurveIs
<1>2. PICK zz, zzz \in Int : zz = z * z /\ zzz = z * z * z
  OBVIOUS
<1>3. ~Same(zz, 0) /\ ~Same(zzz, 0)
  BY <1>2, ScalesAre
<1>4. Same(u1, x1 * zz) /\ Same(u2, x2 * zz) /\ Same(s1, y1 * zzz) /\ Same(s2, y2 * zzz)
  BY <1>1, <1>2 DEF Scaled
<1>5. /\ x1 \in Int /\ x2 \in Int /\ y1 \in Int /\ y2 \in Int
      /\ u1 \in Int /\ u2 \in Int /\ s1 \in Int /\ s2 \in Int
  BY PIs
<1>6. x1 * zz \in Int /\ x2 * zz \in Int /\ y1 * zzz \in Int /\ y2 * zzz \in Int
  BY <1>5
<1>7. ASSUME u1 = u2 PROVE x1 = x2
  <2>1. Same(x1 * zz, x2 * zz)
    BY <1>4, <1>5, <1>6, <1>7, SameIs
  <2>2. Same(x1, x2)
    BY <1>3, <1>5, <2>1, Cancel
  <2> QED
    BY <2>2, SameEqual
<1>8. ASSUME s1 = s2 PROVE y1 = y2
  <2>1. Same(y1 * zzz, y2 * zzz)
    BY <1>4, <1>5, <1>6, <1>8, SameIs
  <2>2. Same(y1, y2)
    BY <1>3, <1>5, <2>1, Cancel
  <2> QED
    BY <2>2, SameEqual
<1>9. ASSUME x1 = x2 PROVE u1 = u2
  BY <1>4, <1>5, <1>6, <1>9, SameIs, SameEqual
<1>10. ASSUME y1 = y2 PROVE s1 = s2
  BY <1>4, <1>5, <1>6, <1>10, SameIs, SameEqual
<1>11. a = <<x1, y1>> /\ b = <<x2, y2>>
  BY <1>1, CurveIs
<1> QED
  BY <1>1, <1>7, <1>8, <1>9, <1>10, <1>11

\* The sum of a point and its opposite: the ordinate that stays is not zero.
LEMMA OppositeStands ==
  ASSUME NEW a \in Points, NEW b \in Points, a[1] = b[1], a # b,
         NEW z \in Int, ~Same(z, 0), NEW m \in Int, ~Same(m, 0),
         NEW u1 \in Int, NEW u2 \in Int, NEW s1 \in Int, NEW s2 \in Int,
         Scaled(a, z, u1, s1), Scaled(b, z, u2, s2),
         NEW h \in Int, NEW g \in Int, NEW j \in Int, NEW rr \in Int, NEW v \in Int, NEW t \in Int,
         Same(h, u2 - u1), Same(g, m * h * (m * h)), Same(j, h * g),
         Same(rr, m * (s2 - s1)), Same(v, u1 * g), Same(t, m * (s1 * j)),
         NEW nx \in Field, NEW ny \in Field, NEW nz \in Field,
         Same(nx, rr * rr - j - 2 * v), Same(ny, rr * (v - nx) - t), Same(nz, m * h * z)
  PROVE  Sound(<<nx, ny, nz>>, add(a, b))
<1>1. PICK x, y1, y2 \in Int : x = a[1] /\ x = b[1] /\ y1 = a[2] /\ y2 = b[2]
  BY CurveIs
<1>2. PICK o, X1, zzz \in Int : o = 0 /\ X1 = x * (z * z) /\ zzz = z * z * z
  OBVIOUS
<1>3. Same(u1, X1) /\ Same(u2, X1) /\ Same(s1, y1 * zzz) /\ Same(s2, y2 * zzz)
  BY <1>1, <1>2 DEF Scaled
<1>4. Same(h, o)
  <2>1. Same(u2, u1)
    BY <1>3, SameIs
  <2>2. PICK f \in Int : f = u2 - u1
    OBVIOUS
  <2>3. Same(f, 0)
    BY <2>1, <2>2, Difference
  <2> QED
    BY <1>2, <2>2, <2>3, SameIs
<1>5. PICK f, q \in Int : f = m * h /\ q = s1 * j
  OBVIOUS
<1>6. Same(f, o)
  BY <1>2, <1>4, <1>5, SameZero
<1>7. Same(g, o)
  <2>1. Same(f * f, o) /\ f * f \in Int
    BY <1>2, <1>6, SameZero
  <2> QED
    BY <1>5, <2>1, SameIs
<1>8. Same(j, o)
  BY <1>2, <1>7, ZeroTimes
<1>9. Same(v, o)
  BY <1>2, <1>7, ZeroTimes
<1>10. Same(t, o)
  <2>1. Same(s1 * j, 0)
    BY <1>2, <1>8, SameZero
  <2>2. Same(q, 0) /\ Same(t, m * q)
    BY <1>2, <1>5, <2>1
  <2> QED
    BY <1>2, <2>2, ZeroTimes
<1>11. nx \in Int /\ ny \in Int /\ nz \in Int
  BY PIs
<1>12. nz = 0
  <2>1. Same(f * z, o) /\ f * z \in Int
    BY <1>2, <1>6, SameZero
  <2>2. Same(nz, o)
    BY <1>5, <1>11, <2>1, SameIs
  <2> QED
    BY <1>2, <2>2, Small, SameEqual
<1>13. PICK r2 \in Int : r2 = rr * rr
  OBVIOUS
<1>14. Same(nx, r2)
  <2>1. PICK d, e \in Int : d = 2 * v /\ e = rr * rr - j
    OBVIOUS
  <2>2. Same(d, o)
    <3>1. PICK l \in Int : l = 2
      OBVIOUS
    <3>2. Same(l * v, o)
      BY <1>2, <1>9, SameZero
    <3> QED
      BY <2>1, <3>1, <3>2
  <2>3. Same(e, e) /\ Same(nx, e - d)
    BY <2>1, SameIs
  <2>4. Same(nx, e - o)
    BY <1>11, <2>2, <2>3, Carry
  <2>5. Same(nx, r2 - j)
    BY <1>2, <1>13, <2>1, <2>4
  <2>6. Same(nx, r2 - o)
    BY <1>8, <1>11, <2>5, Carry, SameIs
  <2> QED
    BY <1>2, <2>6
<1>15. Same(ny, rr * (o - r2))
  <2>1. PICK d, e \in Int : d = v - nx /\ e = o - r2
    BY <1>11
  <2>2. Same(d, e)
    BY <1>9, <1>11, <1>14, <2>1, SameOps
  <2>3. Same(rr * d, rr * e)
    BY <2>2, SameTimes
  <2>4. PICK l, l0 \in Int : l = rr * d /\ l0 = rr * e
    OBVIOUS
  <2>5. Same(ny, l - t)
    BY <2>1, <2>4
  <2>6. Same(ny, l0 - o)
    BY <1>10, <1>11, <2>3, <2>4, <2>5, Carry
  <2> QED
    BY <1>2, <2>1, <2>4, <2>6
<1>16. ~Same(rr, 0)
  <2>1. PICK d, dy, e \in Int : d = s2 - s1 /\ dy = y2 - y1 /\ e = y2 * zzz - y1 * zzz
    OBVIOUS
  <2>2. Same(d, e)
    <3>1. PICK l1, l2 \in Int : l1 = y1 * zzz /\ l2 = y2 * zzz
      OBVIOUS
    <3>2. Same(s2 - s1, l2 - l1)
      BY <1>3, <3>1, SameOps
    <3> QED
      BY <2>1, <3>1, <3>2
  <2>3. ~Same(y2, y1)
    <3>1. a = <<x, y1>> /\ b = <<x, y2>>
      BY <1>1, CurveIs
    <3>2. y1 \in Field /\ y2 \in Field
      BY <1>1, CurveIs
    <3> QED
      BY <3>1, <3>2, SameEqual
  <2>4. ~Same(dy, 0) /\ ~Same(zzz, 0)
    BY <1>2, <2>1, <2>3, Difference, ScalesAre
  <2>5. ~Same(dy * zzz, 0)
    BY <2>4, Product
  <2>6. e = dy * zzz
    BY <2>1
  <2>7. ~Same(d, 0)
    BY <2>2, <2>5, <2>6, SameIs
  <2>8. ~Same(m * d, 0) /\ m * d \in Int
    BY <2>7, Product
  <2> QED
    BY <2>1, <2>8, SameIs
<1>17. ~Same(ny, 0)
  <2>1. PICK e, l \in Int : e = o - r2 /\ l = -1
    OBVIOUS
  <2>2. ~Same(rr * rr, 0)
    BY <1>16, Product
  <2>3. ~Same(r2, 0)
    BY <1>13, <2>2
  <2>4. ~Same(e, 0)
    <3>1. ASSUME Same(e, 0) PROVE FALSE
      <4>1. Same(l * e, 0)
        BY <3>1, SameZero
      <4>2. l * e = r2
        BY <1>2, <2>1
      <4> QED
        BY <2>3, <4>1, <4>2
    <3> QED
      BY <3>1
  <2>5. ~Same(rr * e, 0) /\ rr * e \in Int
    BY <1>16, <2>4, Product
  <2> QED
    BY <1>11, <1>15, <2>1, <2>5, SameIs
<1>18. ny # 0
  BY <1>17, Small, SameEqual
<1>19. add(a, b) = ZERO
  BY OppositeIs
<1> QED
  BY <1>12, <1>18, <1>19 DEF Sound, Stands, Triple
\* What the scripts' additions end with, m = 2 (madd-2007-bl, add-2007-bl).
Rise(u1, u2) == subFp(u2, u1)
Run(s1, s2) == mulFp(2, subFp(s2, s1))
Fourth(u1, u2) == sqrFp(mulFp(2, Rise(u1, u2)))
SumX(u1, u2, s1, s2) ==
  subFp(subFp(sqrFp(Run(s1, s2)), mulFp(Rise(u1, u2), Fourth(u1, u2))), mulFp(2, mulFp(u1, Fourth(u1, u2))))
SumY(u1, u2, s1, s2) ==
  subFp(mulFp(Run(s1, s2), subFp(mulFp(u1, Fourth(u1, u2)), SumX(u1, u2, s1, s2))),
        mulFp(2, mulFp(s1, mulFp(Rise(u1, u2), Fourth(u1, u2)))))

LEMMA TailIs ==
  ASSUME NEW u1 \in Field, NEW u2 \in Field, NEW s1 \in Field, NEW s2 \in Field, NEW q \in Field
  PROVE  /\ SumX(u1, u2, s1, s2) \in Field /\ SumY(u1, u2, s1, s2) \in Field
         /\ mulFp(q, Rise(u1, u2)) \in Field
         /\ q = 0 => mulFp(q, Rise(u1, u2)) = 0
         /\ \A a, b \in Points, z \in Int :
              a # b /\ ~Same(z, 0) /\ Scaled(a, z, u1, s1) /\ Scaled(b, z, u2, s2) /\ Same(q, 2 * z)
              => Sound(<<SumX(u1, u2, s1, s2), SumY(u1, u2, s1, s2), mulFp(q, Rise(u1, u2))>>, add(a, b))
<1> DEFINE h == Rise(u1, u2)
           f == mulFp(2, h)
           g == Fourth(u1, u2)
           d == subFp(s2, s1)
           rr == Run(s1, s2)
           j == mulFp(h, g)
           v == mulFp(u1, g)
           r2 == sqrFp(rr)
           e == subFp(r2, j)
           vv == mulFp(2, v)
           nx == SumX(u1, u2, s1, s2)
           l == subFp(v, nx)
           rl == mulFp(rr, l)
           sj == mulFp(s1, j)
           t == mulFp(2, sj)
           ny == SumY(u1, u2, s1, s2)
           nz == mulFp(q, h)
<1>1. h \in Field /\ Same(h, u2 - u1) /\ d \in Field /\ Same(d, s2 - s1)
  BY InField DEF Rise
<1> HIDE DEF h, d
<1>2. f \in Field /\ Same(f, 2 * h) /\ rr \in Field /\ Same(rr, 2 * d)
  BY <1>1, InField, Small DEF Run, d
<1> HIDE DEF f, rr
<1>3. g \in Field /\ Same(g, f * f)
  BY <1>2, InField DEF Fourth, f, h
<1> HIDE DEF g
<1>4. j \in Field /\ Same(j, h * g) /\ v \in Field /\ Same(v, u1 * g) /\ r2 \in Field /\ Same(r2, rr * rr)
  BY <1>1, <1>2, <1>3, InField
<1> HIDE DEF j, v, r2
<1>5. e \in Field /\ Same(e, r2 - j) /\ vv \in Field /\ Same(vv, 2 * v) /\ sj \in Field /\ Same(sj, s1 * j)
  BY <1>4, InField, Small
<1> HIDE DEF e, vv, sj
<1>6. nx \in Field /\ Same(nx, e - vv)
  BY <1>5, InField DEF SumX, e, vv, r2, j, v, rr, h, g
<1> HIDE DEF nx
<1>7. l \in Field /\ Same(l, v - nx) /\ t \in Field /\ Same(t, 2 * sj)
  BY <1>4, <1>5, <1>6, InField, Small
<1> HIDE DEF l, t
<1>8. rl \in Field /\ Same(rl, rr * l)
  BY <1>2, <1>7, InField
<1> HIDE DEF rl
<1>9. ny \in Field /\ Same(ny, rl - t)
  BY <1>7, <1>8, InField DEF SumY, rl, l, t, sj, j, v, rr, h, g, nx
<1> HIDE DEF ny
<1>10. nz \in Field /\ Same(nz, q * h)
  BY <1>1, InField
<1>11. q = 0 => nz = 0
  <2>1. 0 * h = 0 /\ 0 % P = 0
    BY <1>1, PIs, Small, SmallIs
  <2> QED
    BY <2>1 DEF mulFp, vmMod
<1> HIDE DEF nz
<1>12. ASSUME NEW a \in Points, NEW b \in Points, NEW z \in Int, a # b, ~Same(z, 0),
              Scaled(a, z, u1, s1), Scaled(b, z, u2, s2), Same(q, 2 * z)
       PROVE  Sound(<<nx, ny, nz>>, add(a, b))
  <2>1. /\ h \in Int /\ f \in Int /\ g \in Int /\ d \in Int /\ rr \in Int /\ j \in Int /\ v \in Int
        /\ r2 \in Int /\ e \in Int /\ vv \in Int /\ nx \in Int /\ l \in Int /\ rl \in Int /\ sj \in Int
        /\ t \in Int /\ ny \in Int /\ nz \in Int /\ q \in Int
        /\ u1 \in Int /\ u2 \in Int /\ s1 \in Int /\ s2 \in Int
    BY <1>1, <1>2, <1>3, <1>4, <1>5, <1>6, <1>7, <1>8, <1>9, <1>10, PIs
  <2>2. PICK m, dx, dy \in Int : m = 2 /\ dx = u2 - u1 /\ dy = s2 - s1
    BY <2>1
  <2>3. ~Same(m, 0) /\ Same(h, u2 - u1) /\ Same(j, h * g) /\ Same(v, u1 * g)
    BY <1>1, <1>4, <2>2, Two
  <2>4. Same(g, m * h * (m * h))
    <3>1. PICK mh \in Int : mh = m * h
      BY <2>1
    <3>2. Same(f, mh)
      BY <1>2, <2>2, <3>1
    <3>3. Same(g, mh * mh)
      BY <1>3, <2>1, <3>2, Carry
    <3> QED
      BY <3>1, <3>3
  <2>5. Same(rr, m * (s2 - s1))
    <3>1. Same(d, dy) /\ Same(rr, m * d)
      BY <1>1, <1>2, <2>2
    <3>2. Same(rr, m * dy)
      BY <2>1, <3>1, CarryTimes
    <3> QED
      BY <2>2, <3>2
  <2>6. Same(t, m * (s1 * j))
    <3>1. PICK y \in Int : y = s1 * j
      BY <2>1
    <3>2. Same(sj, y) /\ Same(t, m * sj)
      BY <1>5, <1>7, <2>2, <3>1
    <3>3. Same(t, m * y)
      BY <2>1, <3>2, CarryTimes
    <3> QED
      BY <3>1, <3>3
  <2>7. Same(nx, rr * rr - j - 2 * v)
    <3>1. PICK y, y2, y3 \in Int : y = rr * rr /\ y2 = 2 * v /\ y3 = rr * rr - j
      BY <2>1
    <3>2. Same(r2, y) /\ Same(vv, y2) /\ Same(j, j)
      BY <1>4, <1>5, <2>1, <3>1, SameIs
    <3>3. Same(e, y - j)
      BY <1>5, <2>1, <3>2, Carry
    <3>4. Same(e, y3)
      BY <3>1, <3>3
    <3>5. Same(nx, y3 - y2)
      BY <1>6, <2>1, <3>2, <3>4, Carry
    <3> QED
      BY <3>1, <3>5
  <2>8. Same(ny, rr * (v - nx) - t)
    <3>1. PICK y \in Int : y = v - nx
      BY <2>1
    <3>2. Same(l, y) /\ Same(t, t)
      BY <1>7, <2>1, <3>1, SameIs
    <3>3. Same(rl, rr * y)
      BY <1>8, <2>1, <3>2, CarryTimes
    <3>4. PICK y2 \in Int : y2 = rr * y
      BY <2>1
    <3>5. Same(rl, y2)
      BY <3>3, <3>4
    <3>6. Same(ny, y2 - t)
      BY <1>9, <2>1, <3>2, <3>5, Carry
    <3> QED
      BY <3>1, <3>4, <3>6
  <2>9. Same(nz, m * h * z)
    <3>1. PICK y \in Int : y = m * z
      BY <2>2
    <3>2. Same(q, y) /\ Same(h, h)
      BY <1>12, <2>1, <2>2, <3>1, SameIs
    <3>3. Same(nz, y * h)
      BY <1>10, <2>1, <3>2, Carry
    <3>4. y * h = m * h * z
      BY <2>1, <3>1
    <3> QED
      BY <3>3, <3>4
  <2>10. nx \in Field /\ ny \in Field /\ nz \in Field
    BY <1>6, <1>9, <1>10
  <2>11. CASE a[1] = b[1]
    <3>1. a # b /\ ~Same(z, 0) /\ Scaled(a, z, u1, s1) /\ Scaled(b, z, u2, s2)
      BY <1>12
    <3>2. /\ h \in Int /\ g \in Int /\ rr \in Int /\ j \in Int /\ v \in Int /\ t \in Int
          /\ u1 \in Int /\ u2 \in Int /\ s1 \in Int /\ s2 \in Int
      BY <2>1
    <3> QED
      BY ONLY <3>1, <3>2, <2>2, <2>3, <2>4, <2>5, <2>6, <2>7, <2>8, <2>9, <2>10, <2>11,
         OppositeStands
  <2>12. CASE a[1] # b[1]
    <3>1. Stands(<<nx, ny, nz>>, add(a, b))
      BY <1>12, <2>1, <2>3, <2>4, <2>5, <2>6, <2>7, <2>8, <2>9, <2>10, <2>12, ChordStands DEF Scaled
    <3>2. add(a, b) \in Points
      BY <2>12, AddIs DEF Line
    <3>3. <<nx, ny, nz>>[2] # 0
      BY <3>1, <3>2, StandsIs
    <3> QED
      BY <3>1, <3>3 DEF Sound
  <2> QED
    BY <2>11, <2>12
<1> QED
  BY <1>6, <1>9, <1>10, <1>11, <1>12 DEF nx, ny, nz, h
Group == Points \cup {ZERO}

LEMMA SoundIs ==
  ASSUME NEW a \in Group, NEW p, Sound(p, a)
  PROVE  /\ p \in Triple /\ p[1] \in Field /\ p[2] \in Field /\ p[3] \in Field
         /\ p = <<p[1], p[2], p[3]>> /\ p[2] # 0 /\ (p[3] = 0 <=> a = ZERO)
BY DEF Sound, Stands, Triple, Group

LEMMA FiniteIsSound ==
  ASSUME NEW a \in Points, NEW p, Stands(p, a)
  PROVE  Sound(p, a)
BY StandsIs DEF Sound

LEMMA DoubleIsSound ==
  ASSUME NEW a \in Points, NEW p, Stands(p, a)
  PROVE  /\ add(a, a) \in Points
         /\ Sound(jacDouble(p), add(a, a)) /\ Sound(jacDoubleGrouped(p), add(a, a))
<1>1. p \in Triple /\ add(a, a) \in Points
  BY AddIs DEF Stands, Line
<1>2. Stands(jacDouble(p), add(a, a)) /\ Stands(jacDoubleGrouped(p), add(a, a))
  BY <1>1, JacDoubleIs, JacDoubleGroupedIs
<1> QED
  BY <1>1, <1>2, FiniteIsSound

LEMMA FromInfinity ==
  ASSUME NEW b \in Points
  PROVE  Sound(<<b[1], b[2], 1>>, b) /\ add(ZERO, b) = b
<1>1. PICK x, y \in Int : x = b[1] /\ y = b[2]
  BY CurveIs
<1>2. x * (1 * 1) = x /\ y * (1 * 1 * 1) = y /\ Same(x, x) /\ Same(y, y)
  BY SameIs
<1>3. Same(b[1], b[1] * (1 * 1)) /\ Same(b[2], b[2] * (1 * 1 * 1))
  BY <1>1, <1>2
<1>4. <<b[1], b[2], 1>> \in Triple /\ b # ZERO /\ b[2] # 0
  BY CurveIs, Small DEF Triple
<1>5. Stands(<<b[1], b[2], 1>>, b)
  BY <1>3, <1>4 DEF Stands
<1> QED
  BY <1>4, <1>5 DEF Sound, add

\* The tables' and IC0's mixed addition, for every accumulator.
LEMMA JacAddAffineIs ==
  ASSUME NEW a \in Group, NEW p, Sound(p, a), NEW b \in Points
  PROVE  Sound(jacAddAffine(p, b), add(a, b))
<1>1. PICK X, Y, Z \in Field : p = <<X, Y, Z>> /\ X = p[1] /\ Y = p[2] /\ Z = p[3]
  BY SoundIs
<1>2. CASE Z = 0
  <2>1. a = ZERO /\ jacAddAffine(p, b) = <<b[1], b[2], 1>>
    BY <1>1, <1>2, SoundIs DEF jacAddAffine
  <2> QED
    BY <2>1, FromInfinity
<1>3. CASE Z # 0
  <2> DEFINE zz == sqrFp(Z)
             u2 == mulFp(b[1], zz)
             bz == mulFp(b[2], Z)
             s2 == mulFp(bz, zz)
             z1 == addFp(Z, 1)
             z2 == sqrFp(z1)
             z3 == subFp(z2, zz)
             q == subFp(z3, 1)
  <2>1. a \in Points /\ Stands(p, a)
    BY <1>1, <1>3, SoundIs DEF Group, Sound
  <2>2. /\ jacAddAffine(p, b) = IF X = u2 /\ Y = s2 THEN jacDouble(p)
                                ELSE <<SumX(X, u2, Y, s2), SumY(X, u2, Y, s2), mulFp(q, Rise(X, u2))>>
    BY <1>1, <1>3 DEF jacAddAffine, SumX, SumY, Rise, Run, Fourth
  <2>3. PICK x, y \in Field : x = b[1] /\ y = b[2]
    BY CurveIs
  <2>4. /\ zz \in Field /\ Same(zz, Z * Z) /\ bz \in Field /\ Same(bz, y * Z)
        /\ z1 \in Field /\ Same(z1, Z + 1)
    BY <2>3, InField, Small
  <2> HIDE DEF zz, bz, z1
  <2>5. u2 \in Field /\ Same(u2, x * zz) /\ s2 \in Field /\ Same(s2, bz * zz) /\ z2 \in Field /\ Same(z2, z1 * z1)
    BY <2>3, <2>4, InField
  <2> HIDE DEF u2, s2, z2
  <2>6. z3 \in Field /\ Same(z3, z2 - zz)
    BY <2>4, <2>5, InField
  <2> HIDE DEF z3
  <2>7. q \in Field /\ Same(q, z3 - 1)
    BY <2>6, InField, Small
  <2> HIDE DEF q
  <2>8. /\ X \in Int /\ Y \in Int /\ Z \in Int /\ x \in Int /\ y \in Int /\ zz \in Int /\ bz \in Int
        /\ z1 \in Int /\ u2 \in Int /\ s2 \in Int /\ z2 \in Int /\ z3 \in Int /\ q \in Int
    BY <2>3, <2>4, <2>5, <2>6, <2>7, PIs
  <2>9. PICK z0, y0 \in Int : z0 = Z * Z /\ y0 = y * Z
    BY <2>8
  <2>10. Same(u2, b[1] * (Z * Z))
    <3>1. Same(zz, z0) /\ Same(u2, x * zz)
      BY <2>4, <2>5, <2>9
    <3>2. Same(u2, x * z0)
      BY <2>8, <3>1, CarryTimes
    <3> QED
      BY <2>3, <2>9, <3>2
  <2>11. Same(s2, b[2] * (Z * Z * Z))
    <3>1. Same(bz, y0) /\ Same(zz, z0)
      BY <2>4, <2>9
    <3>2. Same(s2, y0 * z0)
      BY <2>5, <2>8, <3>1, Carry
    <3>3. y0 * z0 = y * (Z * Z * Z)
      BY <2>8, <2>9
    <3> QED
      BY <2>3, <3>2, <3>3
  <2>12. Same(q, 2 * Z)
    <3>1. PICK l, l2, d \in Int : l = Z + 1 /\ l2 = l * l /\ d = l2 - z0
      <4>1. PICK l \in Int : l = Z + 1
        BY <2>8
      <4>2. PICK l2 \in Int : l2 = l * l
        OBVIOUS
      <4>3. l2 - z0 \in Int
        OBVIOUS
      <4> QED
        BY <4>1, <4>2, <4>3
    <3>2. Same(z1, l) /\ Same(zz, z0)
      BY <2>4, <2>9, <3>1
    <3>3. Same(z2, l * l)
      BY <2>5, <2>8, <3>2, Carry
    <3>4. Same(z2, l2)
      BY <3>1, <3>3
    <3>5. Same(z3, l2 - z0)
      BY <2>6, <2>8, <3>2, <3>4, Carry
    <3>6. PICK o \in Int : o = 1 /\ Same(o, o) /\ Same(z3, d) /\ Same(q, z3 - o)
      BY <2>7, <3>1, <3>5, SameIs
    <3>7. Same(q, d - o)
      BY <2>8, <3>6, Carry
    <3>8. d - o = 2 * Z
      BY <2>8, <2>9, <3>1, <3>6
    <3> QED
      BY <3>7, <3>8
  <2>13. Scaled(a, Z, X, Y) /\ Scaled(b, Z, u2, s2) /\ ~Same(Z, 0)
    BY <1>1, <2>1, <2>10, <2>11, StandsIs DEF Scaled
  <2>14. X = u2 /\ Y = s2 <=> a = b
    BY <2>1, <2>5, <2>8, <2>13, TestIs
  <2>15. CASE a = b
    BY <2>1, <2>2, <2>14, <2>15, DoubleIsSound
  <2>16. CASE a # b
    <3>1. jacAddAffine(p, b) = <<SumX(X, u2, Y, s2), SumY(X, u2, Y, s2), mulFp(q, Rise(X, u2))>>
      BY <2>2, <2>14, <2>16
    <3>2. Sound(<<SumX(X, u2, Y, s2), SumY(X, u2, Y, s2), mulFp(q, Rise(X, u2))>>, add(a, b))
      BY <2>1, <2>5, <2>7, <2>8, <2>12, <2>13, <2>16, TailIs
    <3> QED
      BY <3>1, <3>2
  <2> QED
    BY <2>15, <2>16
<1> QED
  BY <1>2, <1>3
\* The grouped chunks' mixed addition, for every accumulator.
LEMMA JacAddGroupedIs ==
  ASSUME NEW a \in Group, NEW p, Sound(p, a), NEW b \in Points
  PROVE  Sound(jacAddGrouped(p, b), add(a, b))
<1>1. PICK X, Y, Z \in Field : p = <<X, Y, Z>> /\ X = p[1] /\ Y = p[2] /\ Z = p[3]
  BY SoundIs
<1>2. CASE Z = 0
  <2>1. a = ZERO /\ jacAddGrouped(p, b) = <<b[1], b[2], 1>>
    BY <1>1, <1>2, SoundIs DEF jacAddGrouped
  <2> QED
    BY <2>1, FromInfinity
<1>3. CASE Z # 0
  <2> DEFINE zz == vmMod(Z * Z)
             u2 == vmMod(b[1] * zz)
             s2 == vmMod(zz * Z * b[2])
             h == vmMod(u2 + P - X)
             hh == vmMod(h * h)
             hhh == vmMod(h * hh)
             rr == vmMod(s2 + P - Y)
             v == vmMod(hh * X)
             t == vmMod(Y * hhh)
             nx == vmMod(rr * rr + 3 * P - hhh - 2 * v)
             ny == vmMod((v - nx + P) * rr + P - t)
             nz == vmMod(Z * h)
  <2>1. a \in Points /\ Stands(p, a)
    BY <1>1, <1>3, SoundIs DEF Group, Sound
  <2>2. jacAddGrouped(p, b) = IF X = u2 /\ Y = s2 THEN jacDoubleGrouped(p) ELSE <<nx, ny, nz>>
    BY <1>1, <1>3 DEF jacAddGrouped
  <2>3. PICK x, y \in Field : x = b[1] /\ y = b[2]
    BY CurveIs
  <2>4. X \in Nat /\ Y \in Nat /\ Z \in Nat /\ x \in Nat /\ y \in Nat /\ X < P /\ Y < P
    BY PIs
  <2>5. zz \in Field /\ Same(zz, Z * Z)
    <3>1. Z * Z \in Nat
      BY <2>4
    <3> QED
      BY <3>1, VmModIs
  <2> HIDE DEF zz
  <2>6. zz \in Nat
    BY <2>5, PIs
  <2>7. u2 \in Field /\ Same(u2, x * zz) /\ s2 \in Field /\ Same(s2, zz * Z * y)
    <3>1. x * zz \in Nat /\ zz * Z * y \in Nat
      BY <2>4, <2>6
    <3> QED
      BY <2>3, <3>1, VmModIs
  <2> HIDE DEF u2, s2
  <2>8. u2 \in Nat /\ s2 \in Nat
    BY <2>7, PIs
  <2>9. h \in Field /\ Same(h, u2 + P - X) /\ rr \in Field /\ Same(rr, s2 + P - Y)
    <3>1. u2 + P - X \in Nat /\ s2 + P - Y \in Nat
      BY <2>4, <2>8, PIs
    <3> QED
      BY <3>1, VmModIs
  <2> HIDE DEF h, rr
  <2>10. h \in Nat /\ rr \in Nat
    BY <2>9, PIs
  <2>11. hh \in Field /\ Same(hh, h * h) /\ nz \in Field /\ Same(nz, Z * h)
    <3>1. h * h \in Nat /\ Z * h \in Nat
      BY <2>4, <2>10
    <3> QED
      BY <3>1, VmModIs
  <2> HIDE DEF hh, nz
  <2>12. hh \in Nat
    BY <2>11, PIs
  <2>13. hhh \in Field /\ Same(hhh, h * hh) /\ v \in Field /\ Same(v, hh * X)
    <3>1. h * hh \in Nat /\ hh * X \in Nat
      BY <2>4, <2>10, <2>12
    <3> QED
      BY <3>1, VmModIs
  <2> HIDE DEF hhh, v
  <2>14. hhh \in Nat /\ v \in Nat /\ hhh < P /\ v < P
    BY <2>13, PIs
  <2>15. t \in Field /\ Same(t, Y * hhh) /\ nx \in Field /\ Same(nx, rr * rr + 3 * P - hhh - 2 * v)
    <3>1. Y * hhh \in Nat /\ rr * rr \in Nat
      BY <2>4, <2>10, <2>14
    <3>2. rr * rr + 3 * P - hhh - 2 * v \in Nat
      BY <2>14, <3>1, PIs
    <3> QED
      BY <3>1, <3>2, VmModIs
  <2> HIDE DEF t, nx
  <2>16. t \in Nat /\ t < P /\ nx \in Nat /\ nx < P
    BY <2>15, PIs
  <2>17. ny \in Field /\ Same(ny, (v - nx + P) * rr + P - t)
    <3>1. PICK q \in Nat : q = v - nx + P
      BY <2>14, <2>16, PIs
    <3>2. q * rr \in Nat
      BY <2>10
    <3>3. q * rr + P - t \in Nat
      BY <2>16, <3>2, PIs
    <3> QED
      BY <3>1, <3>3, VmModIs
  <2> HIDE DEF ny
  <2>18. /\ X \in Int /\ Y \in Int /\ Z \in Int /\ x \in Int /\ y \in Int /\ zz \in Int /\ u2 \in Int
         /\ s2 \in Int /\ h \in Int /\ hh \in Int /\ hhh \in Int /\ rr \in Int /\ v \in Int /\ t \in Int
         /\ nx \in Int /\ ny \in Int /\ nz \in Int /\ P \in Int
    BY <2>4, <2>6, <2>8, <2>10, <2>11, <2>12, <2>14, <2>16, <2>17, PIs
  <2>19. PICK z0 \in Int : z0 = Z * Z /\ Same(zz, z0)
    BY <2>5, <2>18
  <2>20. Same(u2, b[1] * (Z * Z))
    <3>1. Same(u2, x * z0)
      BY <2>7, <2>18, <2>19, CarryTimes
    <3> QED
      BY <2>3, <2>19, <3>1
  <2>21. Same(s2, b[2] * (Z * Z * Z))
    <3>1. PICK l \in Int : l = Z * y
      BY <2>18
    <3>2. l * zz = zz * Z * y /\ l * z0 = y * (Z * Z * Z)
      BY <2>18, <2>19, <3>1
    <3>3. Same(s2, l * zz)
      BY <2>7, <3>2
    <3>4. Same(s2, l * z0)
      BY <2>18, <2>19, <3>3, CarryTimes
    <3> QED
      BY <2>3, <3>2, <3>4
  <2>22. PICK m, dx, dy \in Int : m = 1 /\ dx = u2 - X /\ dy = s2 - Y
    BY <2>18
  <2>23. Same(h, dx) /\ Same(rr, dy)
    <3>1. u2 + P - X = dx + m * P /\ s2 + P - Y = dy + m * P
      BY <2>18, <2>22
    <3>2. Same(dx + m * P, dx) /\ Same(dy + m * P, dy)
      BY MultiplesOfP
    <3>3. dx + m * P \in Int /\ dy + m * P \in Int
      BY <2>18
    <3>4. Same(h, dx + m * P) /\ Same(rr, dy + m * P)
      BY <2>9, <3>1
    <3> QED
      BY <2>18, <3>2, <3>3, <3>4, SameIs
  <2>24. Same(hh, m * h * (m * h)) /\ Same(rr, m * (s2 - Y)) /\ Same(t, m * (Y * hhh)) /\ Same(nz, m * h * Z)
    <3>1. m * h = h /\ m * dy = dy /\ Z * h = h * Z
      BY <2>18, <2>22
    <3>2. Y * hhh \in Int
      BY <2>18
    <3>3. m * (Y * hhh) = Y * hhh
      BY <2>22, <3>2
    <3>4. Same(hh, m * h * (m * h))
      BY <2>11, <3>1
    <3>5. Same(rr, m * (s2 - Y))
      BY <2>22, <2>23, <3>1
    <3>6. Same(t, m * (Y * hhh))
      BY <2>15, <3>3
    <3>7. Same(nz, m * h * Z)
      BY <2>11, <3>1
    <3> QED
      BY <3>4, <3>5, <3>6, <3>7
  <2>25. Same(v, X * hh)
    <3>1. hh * X = X * hh
      BY <2>18
    <3> QED
      BY <2>13, <3>1
  <2>26. Same(nx, rr * rr - hhh - 2 * v)
    <3>1. PICK r2 \in Int : r2 = rr * rr
      BY <2>18
    <3>2. PICK l, q \in Int : l = r2 - hhh - 2 * v /\ q = 3
      BY <2>18
    <3>3. rr * rr + 3 * P - hhh - 2 * v = l + q * P
      BY <2>18, <3>1, <3>2
    <3>4. Same(l + q * P, l) /\ l + q * P \in Int
      BY <2>18, MultiplesOfP
    <3>5. Same(nx, l + q * P)
      BY <2>15, <3>3
    <3>6. Same(nx, l)
      BY <2>18, <3>4, <3>5, SameIs
    <3> QED
      BY <3>1, <3>2, <3>6
  <2>27. Same(ny, rr * (v - nx) - t)
    <3>1. PICK l, q \in Int : l = rr * (v - nx) - t /\ q = rr + 1
      BY <2>18
    <3>2. (v - nx + P) * rr + P - t = l + q * P
      BY <2>18, <3>1
    <3>3. Same(l + q * P, l) /\ l + q * P \in Int
      BY <2>18, MultiplesOfP
    <3>4. Same(ny, l + q * P)
      BY <2>17, <3>2
    <3>5. Same(ny, l)
      BY <2>18, <3>3, <3>4, SameIs
    <3> QED
      BY <3>1, <3>5
  <2>28. Scaled(a, Z, X, Y) /\ Scaled(b, Z, u2, s2) /\ ~Same(Z, 0)
    BY <1>1, <2>1, <2>20, <2>21, StandsIs DEF Scaled
  <2>29. X = u2 /\ Y = s2 <=> a = b
    BY <2>1, <2>7, <2>18, <2>28, TestIs
  <2>30. CASE a = b
    BY <2>1, <2>2, <2>29, <2>30, DoubleIsSound
  <2>31. CASE a # b
    <3>1. jacAddGrouped(p, b) = <<nx, ny, nz>>
      BY <2>2, <2>29, <2>31
    <3>2. nx \in Field /\ ny \in Field /\ nz \in Field /\ ~Same(m, 0)
      BY <2>11, <2>15, <2>17, <2>22, Two
    <3>3. Same(h, u2 - X)
      BY <2>22, <2>23
    <3>4. CASE a[1] = b[1]
      <4>1. b \in Points
        OBVIOUS
      <4>2. Sound(<<nx, ny, nz>>, add(a, b))
        BY ONLY <2>1, <2>13, <2>18, <2>22, <2>24, <2>25, <2>26, <2>27, <2>28, <2>31, <3>2,
           <3>3, <3>4, <4>1,
                OppositeStands
      <4> QED
        BY <3>1, <4>2
    <3>5. CASE a[1] # b[1]
      <4>1. Stands(<<nx, ny, nz>>, add(a, b))
        BY <2>1, <2>13, <2>18, <2>22, <2>24, <2>25, <2>26, <2>27, <2>28, <3>2, <3>3, <3>5,
           ChordStands DEF Scaled
      <4>2. add(a, b) \in Points
        BY <2>1, <3>5, AddIs DEF Line
      <4> QED
        BY <3>1, <4>1, <4>2, FiniteIsSound
    <3> QED
      BY <3>4, <3>5
  <2> QED
    BY <2>30, <2>31
<1> QED
  BY <1>2, <1>3
\* The two loops' addition: right for finite points; an infinite left one stays.
LEMMA AddBlockIs ==
  ASSUME NEW a \in Group, NEW p, Stands(p, a), NEW b \in Points, NEW p2, Stands(p2, b)
  PROVE  Stands(addBlock(p, p2), IF a = ZERO THEN ZERO ELSE add(a, b))
<1>1. PICK X, Y, Z \in Field : p = <<X, Y, Z>> /\ X = p[1] /\ Y = p[2] /\ Z = p[3]
  BY DEF Stands, Triple
<1>2. PICK X2, Y2, Z2 \in Field : p2 = <<X2, Y2, Z2>> /\ X2 = p2[1] /\ Y2 = p2[2] /\ Z2 = p2[3]
  BY DEF Stands, Triple
<1>3. PICK x2, y2 \in Int : x2 = b[1] /\ y2 = b[2]
  BY CurveIs
<1>4. Same(X2, x2 * (Z2 * Z2)) /\ Same(Y2, y2 * (Z2 * Z2 * Z2)) /\ ~Same(Z2, 0)
  BY <1>2, <1>3, StandsIs
<1> DEFINE zz == sqrFp(Z)
           ww == sqrFp(Z2)
           u1 == mulFp(X, ww)
           u2 == mulFp(X2, zz)
           l1 == mulFp(Y, Z2)
           l2 == mulFp(Y2, Z)
           s1 == mulFp(l1, ww)
           s2 == mulFp(l2, zz)
           z1 == addFp(Z, Z2)
           z2 == sqrFp(z1)
           z3 == subFp(z2, zz)
           q == subFp(z3, ww)
<1>5. addBlock(p, p2) = IF u1 = u2 /\ s1 = s2 THEN jacDouble(p)
                        ELSE <<SumX(u1, u2, s1, s2), SumY(u1, u2, s1, s2), mulFp(q, Rise(u1, u2))>>
  BY <1>1, <1>2 DEF addBlock, SumX, SumY, Rise, Run, Fourth
<1>6. /\ zz \in Field /\ Same(zz, Z * Z) /\ ww \in Field /\ Same(ww, Z2 * Z2) /\ z1 \in Field /\ Same(z1, Z + Z2)
      /\ l1 \in Field /\ Same(l1, Y * Z2) /\ l2 \in Field /\ Same(l2, Y2 * Z)
  BY InField
<1> HIDE DEF zz, ww, z1, l1, l2
<1>7. /\ u1 \in Field /\ Same(u1, X * ww) /\ u2 \in Field /\ Same(u2, X2 * zz)
      /\ s1 \in Field /\ Same(s1, l1 * ww) /\ s2 \in Field /\ Same(s2, l2 * zz) /\ z2 \in Field /\ Same(z2, z1 * z1)
  BY <1>6, InField
<1> HIDE DEF u1, u2, s1, s2, z2
<1>8. z3 \in Field /\ Same(z3, z2 - zz)
  BY <1>6, <1>7, InField
<1> HIDE DEF z3
<1>9. q \in Field /\ Same(q, z3 - ww)
  BY <1>6, <1>8, InField
<1> HIDE DEF q
<1>10. /\ X \in Int /\ Y \in Int /\ Z \in Int /\ X2 \in Int /\ Y2 \in Int /\ Z2 \in Int
       /\ zz \in Int /\ ww \in Int /\ z1 \in Int /\ l1 \in Int /\ l2 \in Int /\ u1 \in Int /\ u2 \in Int
       /\ s1 \in Int /\ s2 \in Int /\ z2 \in Int /\ z3 \in Int /\ q \in Int
  BY <1>6, <1>7, <1>8, <1>9, PIs
<1>a. PICK z0 \in Int : z0 = Z * Z
  BY <1>10
<1>b. PICK w0 \in Int : w0 = Z2 * Z2
  BY <1>10
<1>c. PICK m1, m2, z \in Int : m1 = Y * Z2 /\ m2 = Y2 * Z /\ z = Z * Z2
  BY <1>10
<1>d. Same(zz, z0) /\ Same(ww, w0) /\ Same(l1, m1) /\ Same(l2, m2)
  BY <1>6, <1>a, <1>b, <1>c
<1>11. Same(q, 2 * z)
  <2>1. PICK l \in Int : l = Z + Z2
    BY <1>10
  <2>2. PICK l0 \in Int : l0 = l * l
    OBVIOUS
  <2>3. Same(z1, l)
    BY <1>6, <2>1
  <2>4. Same(z2, l * l)
    BY <1>7, <1>10, <2>3, Carry
  <2>5. Same(z2, l0)
    BY <2>2, <2>4
  <2>6. PICK d \in Int : d = l0 - z0
    OBVIOUS
  <2>7. Same(z3, l0 - z0)
    BY <1>8, <1>10, <1>d, <2>5, Carry
  <2>8. Same(z3, d)
    BY <2>6, <2>7
  <2>9. Same(q, d - w0)
    BY <1>9, <1>10, <1>d, <2>8, Carry
  <2>10. d - w0 = 2 * z
    BY <1>10, <1>a, <1>b, <1>c, <2>1, <2>2, <2>6
  <2> QED
    BY <2>9, <2>10
<1>12. CASE a = ZERO
  <2>1. Z = 0
    BY <1>1, <1>12 DEF Stands
  <2>2. z = 0 /\ 2 * z = 0
    BY <1>10, <1>c, <2>1
  <2>3. q = 0
    BY <1>9, <1>11, <2>2, Small, SameEqual
  <2>4. /\ mulFp(q, Rise(u1, u2)) = 0 /\ SumX(u1, u2, s1, s2) \in Field /\ SumY(u1, u2, s1, s2) \in Field
    <3>1. Rise(u1, u2) \in Field
      BY <1>7, InField DEF Rise
    <3>2. q * Rise(u1, u2) = 0 /\ 0 % P = 0
      BY <2>3, <3>1, PIs, Small, SmallIs
    <3>3. mulFp(q, Rise(u1, u2)) = 0
      BY <3>2 DEF mulFp, vmMod
    <3>4. SumX(u1, u2, s1, s2) \in Field /\ SumY(u1, u2, s1, s2) \in Field
      BY <1>7, <1>9, TailIs
    <3> QED
      BY <3>3, <3>4
  <2>5. p \in Triple /\ p[3] = 0
    BY <1>1, <2>1 DEF Stands
  <2>6. jacDouble(p) \in Triple /\ jacDouble(p)[3] = 0
    BY <2>5, JacDoubleIs
  <2>7. addBlock(p, p2) \in Triple /\ addBlock(p, p2)[3] = 0
    BY <1>5, <2>4, <2>6, Small DEF Triple
  <2> QED
    BY <1>12, <2>7 DEF Stands
<1>13. CASE a # ZERO
  <2>1. a \in Points
    BY <1>13 DEF Group
  <2>2. PICK x, y \in Int : x = a[1] /\ y = a[2]
    BY <2>1, CurveIs
  <2>3. Same(X, x * (Z * Z)) /\ Same(Y, y * (Z * Z * Z)) /\ ~Same(Z, 0)
    BY <1>1, <2>1, <2>2, StandsIs
  <2>4. ~Same(z, 0)
    <3>1. ~Same(Z * Z2, 0)
      BY <1>4, <1>10, <2>3, Product
    <3> QED
      BY <1>c, <3>1
  <2>5. PICK c, c2 \in Int : c = x * z0 /\ c2 = x2 * w0
    OBVIOUS
  <2>6. PICK d, d2 \in Int : d = y * (Z * Z * Z) /\ d2 = y2 * (Z2 * Z2 * Z2)
    BY <1>10
  <2>7. Same(X, c) /\ Same(X2, c2) /\ Same(Y, d) /\ Same(Y2, d2)
    BY <1>4, <1>a, <1>b, <2>3, <2>5, <2>6
  <2>8. Same(u1, x * (z * z))
    <3>1. Same(u1, c * w0)
      BY <1>7, <1>10, <1>d, <2>7, Carry
    <3>2. c * w0 = x * (z * z)
      BY <1>10, <1>a, <1>b, <1>c, <2>5
    <3> QED
      BY <3>1, <3>2
  <2>9. Same(u2, x2 * (z * z))
    <3>1. Same(u2, c2 * z0)
      BY <1>7, <1>10, <1>d, <2>7, Carry
    <3>2. c2 * z0 = x2 * (z * z)
      BY <1>10, <1>a, <1>b, <1>c, <2>5
    <3> QED
      BY <3>1, <3>2
  <2>10. Same(s1, y * (z * z * z))
    <3>1. Same(l1, d * Z2)
      <4>1. Same(Z2, Z2) /\ Same(l1, Y * Z2)
        BY <1>6, <1>10, SameIs
      <4> QED
        BY <1>10, <2>7, <4>1, Carry
    <3>2. PICK e \in Int : e = d * Z2
      BY <1>10
    <3>3. Same(s1, e * w0)
      BY <1>7, <1>10, <1>d, <3>1, <3>2, Carry
    <3>4. e * w0 = y * (Z * Z * Z) * Z2 * (Z2 * Z2)
      BY <1>b, <2>6, <3>2
    <3>5. e * w0 = y * (z * z * z)
      BY <1>10, <1>c, <3>4
    <3> QED
      BY <3>3, <3>5
  <2>11. Same(s2, y2 * (z * z * z))
    <3>1. Same(l2, d2 * Z)
      <4>1. Same(Z, Z) /\ Same(l2, Y2 * Z)
        BY <1>6, <1>10, SameIs
      <4> QED
        BY <1>10, <2>7, <4>1, Carry
    <3>2. PICK e \in Int : e = d2 * Z
      BY <1>10
    <3>3. Same(s2, e * z0)
      BY <1>7, <1>10, <1>d, <3>1, <3>2, Carry
    <3>4. e * z0 = y2 * (Z2 * Z2 * Z2) * Z * (Z * Z)
      BY <1>a, <2>6, <3>2
    <3>5. e * z0 = y2 * (z * z * z)
      BY <1>10, <1>c, <3>4
    <3> QED
      BY <3>3, <3>5
  <2>12. Scaled(a, z, u1, s1) /\ Scaled(b, z, u2, s2)
    BY <1>3, <2>2, <2>8, <2>9, <2>10, <2>11 DEF Scaled
  <2>13. u1 = u2 /\ s1 = s2 <=> a = b
    BY <1>7, <2>1, <2>4, <2>12, TestIs
  <2>14. CASE a = b
    BY <1>5, <1>13, <2>1, <2>13, <2>14, DoubleIsSound DEF Sound
  <2>15. CASE a # b
    <3>1. addBlock(p, p2) = <<SumX(u1, u2, s1, s2), SumY(u1, u2, s1, s2), mulFp(q, Rise(u1, u2))>>
      BY <1>5, <2>13, <2>15
    <3>2. Sound(<<SumX(u1, u2, s1, s2), SumY(u1, u2, s1, s2), mulFp(q, Rise(u1, u2))>>, add(a, b))
      BY <1>7, <1>9, <1>11, <2>1, <2>4, <2>12, <2>15, TailIs
    <3> QED
      BY <1>13, <3>1, <3>2 DEF Sound
  <2> QED
    BY <2>14, <2>15
<1> QED
  BY <1>12, <1>13
(***************************************************************************)
(* The group: N multiples of BASE.                                         *)
(***************************************************************************)
LEMMA NIs == N \in Nat \ {0} /\ N \in Int /\ N > 1
BY CurveAssumption

LEMMA MultiplesAre ==
  /\ \A n \in Int : n % N \in 0..N-1 /\ multiply(n) \in Group /\ (multiply(n) = ZERO <=> n % N = 0)
  /\ \A n \in Int : multiply(n) # ZERO => multiply(n) \in Points
  /\ \A n \in 0..N-1 : multiply(n) = Multiples[n] /\ n % N = n
  /\ \A g \in Points : g # ZERO
<1>1. \A n \in Int : n % N \in 0..N-1
  BY NIs
<1>2. \A n \in 0..N-1 : n % N = n
  BY NIs
<1>3. \A g \in Points : g # ZERO
  BY CurveIs
<1>4. \A n \in 1..N-1 : Multiples[n] \in Points
  BY DEF Points
<1>5. Multiples[0] = ZERO
  BY CurveAssumption
<1>6. ASSUME NEW n \in Int
      PROVE  /\ multiply(n) \in Group /\ (multiply(n) = ZERO <=> n % N = 0)
             /\ multiply(n) # ZERO => multiply(n) \in Points
  <2>1. n % N = 0 \/ n % N \in 1..N-1
    BY <1>1, NIs
  <2> QED
    BY <1>3, <1>4, <1>5, <2>1 DEF multiply, Group
<1> QED
  BY <1>1, <1>2, <1>3, <1>6 DEF multiply

LEMMA SumOfMultiples ==
  ASSUME NEW m \in Int, NEW n \in Int
  PROVE  add(multiply(m), multiply(n)) = multiply(m + n)
<1>1. m % N \in 0..N-1 /\ n % N \in 0..N-1
  BY NIs
<1>2. PICK x, y \in Int : x = m % N /\ y = n % N
  BY <1>1
<1>3. add(multiply(m), multiply(n)) = Multiples[(x + y) % N]
  BY <1>1, <1>2, CurveAssumption DEF multiply
<1>4. Cong(N, x, m) /\ Cong(N, y, n)
  BY <1>2, CongRest, NIs
<1>5. Cong(N, x + y, m + n)
  BY <1>4, CongSum, NIs
<1>6. (x + y) % N = (m + n) % N
  <2>1. PICK f, g \in Int : f = x + y /\ g = m + n
    OBVIOUS
  <2>2. f % N = g % N
    BY <1>5, <2>1, CongMod, NIs
  <2> QED
    BY <2>1, <2>2
<1> QED
  BY <1>3, <1>6 DEF multiply

LEMMA EqualMultiples ==
  ASSUME NEW m \in Int, NEW n \in Int
  PROVE  multiply(m) = multiply(n) <=> Cong(N, m, n)
<1>1. ASSUME Cong(N, m, n) PROVE multiply(m) = multiply(n)
  BY <1>1, CongMod, NIs DEF multiply
<1>2. ASSUME multiply(m) = multiply(n) PROVE Cong(N, m, n)
  <2>1. PICK l \in Int : l = -n
    OBVIOUS
  <2>2. add(multiply(m), multiply(l)) = multiply(m + l) /\ add(multiply(n), multiply(l)) = multiply(n + l)
    BY SumOfMultiples
  <2>3. multiply(m + l) = multiply(n + l) /\ n + l = 0
    BY <1>2, <2>1, <2>2
  <2>4. 0 % N = 0
    BY MultiplesAre, NIs
  <2>5. (m + l) % N = 0 % N
    BY <2>1, <2>3, <2>4, MultiplesAre
  <2>6. PICK x, o \in Int : x = m + l /\ o = 0
    OBVIOUS
  <2>7. x % N = o % N
    BY <2>5, <2>6
  <2>8. Cong(N, x, o)
    BY <2>7, CongMod, NIs
  <2>9. PICK q \in Int : x = o + q * N
    BY <2>8 DEF Cong
  <2>10. m = n + q * N
    BY <2>1, <2>6, <2>9, NIs
  <2> QED
    BY <2>10 DEF Cong
<1> QED
  BY <1>1, <1>2

LEMMA LogIs ==
  ASSUME NEW n \in Int
  PROVE  log(multiply(n)) \in 0..N-1 /\ Cong(N, log(multiply(n)), n) /\ multiply(log(multiply(n))) = multiply(n)
<1>1. n % N \in 0..N-1 /\ Multiples[n % N] = multiply(n)
  BY MultiplesAre DEF multiply
<1>2. log(multiply(n)) \in 0..N-1 /\ Multiples[log(multiply(n))] = multiply(n)
  BY <1>1 DEF log
<1>3. PICK e \in Int : e = log(multiply(n)) /\ e \in 0..N-1
  BY <1>2
<1>4. multiply(e) = multiply(n)
  BY <1>2, <1>3, MultiplesAre
<1> QED
  BY <1>2, <1>3, <1>4, EqualMultiples

LEMMA ZeroIs == multiply(0) = ZERO /\ \A a \in Group : add(ZERO, a) = a /\ add(a, ZERO) = a
<1>1. 0 \in 0..N-1
  BY NIs
<1> QED
  BY <1>1, MultiplesAre, CurveAssumption DEF add

\* The affine point of what stands for a point.
LEMMA AffineIs ==
  ASSUME NEW a \in Group, NEW p, Stands(p, a)
  PROVE  toAffine(p) = a
<1>1. CASE a = ZERO
  BY <1>1 DEF Stands, toAffine
<1>2. CASE a # ZERO
  <2>1. a \in Points
    BY <1>2 DEF Group
  <2>2. PICK x, y, z, X, Y \in Int : x = a[1] /\ y = a[2] /\ z = p[3] /\ X = p[1] /\ Y = p[2]
    BY <2>1, StandsIs, CurveIs, PIs
  <2>3. /\ Same(X, x * (z * z)) /\ Same(Y, y * (z * z * z)) /\ ~Same(z, 0) /\ p[3] # 0
        /\ x \in Field /\ y \in Field /\ a = <<x, y>>
    BY <2>1, <2>2, StandsIs, CurveIs
  <2>4. PICK i \in Int : i = modinv(z) /\ Same(z * i, 1)
    BY <2>3, InverseIs, PIs
  <2>5. PICK j, o \in Int : j = z * i /\ o = 1 /\ Same(j, o)
    BY <2>4
  <2>6. toAffine(p) = <<(X * (i * i)) % P, (Y * (i * i) * i) % P>>
    BY <2>2, <2>3, <2>4 DEF toAffine
  <2>7. Same(X * (i * i), x)
    <3>1. PICK l, m \in Int : l = x * (z * z) /\ m = i * i
      OBVIOUS
    <3>2. Same(X * m, l * m)
      BY <2>3, <3>1, SameTimes
    <3>3. l * m = x * (j * j) /\ x * (o * o) = x
      BY <2>5, <3>1
    <3>4. Same(x * (j * j), x * (o * o))
      BY <2>5, SamePowers
    <3>5. X * m \in Int /\ l * m \in Int
      OBVIOUS
    <3> QED
      BY <3>1, <3>2, <3>3, <3>4, <3>5, SameIs
  <2>8. Same(Y * (i * i) * i, y)
    <3>1. PICK l, m \in Int : l = y * (z * z * z) /\ m = i * i * i
      OBVIOUS
    <3>2. Same(Y * m, l * m)
      BY <2>3, <3>1, SameTimes
    <3>3. l * m = y * (j * j * j) /\ y * (o * o * o) = y
      BY <2>5, <3>1
    <3>4. Same(y * (j * j * j), y * (o * o * o))
      BY <2>5, SamePowers
    <3>5. Y * m \in Int /\ l * m \in Int /\ Y * m = Y * (i * i) * i
      BY <3>1
    <3> QED
      BY <3>1, <3>2, <3>3, <3>4, <3>5, SameIs
  <2>9. PICK f, g \in Int : f = X * (i * i) /\ g = Y * (i * i) * i
    OBVIOUS
  <2>10. f % P = x /\ g % P = y
    BY <2>3, <2>7, <2>8, <2>9, SameMod, SmallIs
  <2> QED
    BY <2>3, <2>6, <2>9, <2>10
<1> QED
  BY <1>1, <1>2
(***************************************************************************)
(* Powers of two, and the bits of a number.                                *)
(***************************************************************************)
LEMMA TwoToIs ==
  /\ twoTo[0] = 1
  /\ \A i \in Nat : twoTo[i] \in Nat \ {0} /\ twoTo[i + 1] = 2 * twoTo[i]
<1> DEFINE S == Nat \ {0}
           F == [x \in S \X Nat |-> 2 * x[1]]
<1>1. ASSUME NEW n \in Nat PROVE StaysIn(F, S, n)
  <2> SUFFICES ASSUME NEW x \in S, NEW j \in 1..n PROVE F[<<x, j>>] \in S
    BY DEF StaysIn
  <2> QED
    OBVIOUS
<1>2. \A x \in S, j \in Nat : F[<<x, j>>] = 2 * x
  OBVIOUS
<1>3. 1 \in S
  OBVIOUS
<1> HIDE DEF S, F
<1>a. PICK o \in S : o = 1
  BY <1>3
<1>4. PICK h \in [Nat -> S] : h[0] = o /\ \A j \in Nat \ {0} : h[j] = F[<<h[j - 1], j>>]
  <2>1. AlwaysStaysIn(F, S)
    BY <1>1 DEF AlwaysStaysIn
  <2> QED
    BY <2>1, NatRecursion DEF AlwaysFollows
<1>5. \A j \in Nat \ {0} : h[j] = 2 * h[j - 1]
  <2> SUFFICES ASSUME NEW j \in Nat \ {0} PROVE h[j] = 2 * h[j - 1]
    OBVIOUS
  <2>1. j - 1 \in Nat /\ h[j - 1] \in S
    BY <1>4
  <2> QED
    BY <1>2, <1>4, <2>1
<1>6. h = [i \in Nat |-> IF i = 0 THEN 1 ELSE 2 * h[i - 1]]
  BY <1>4, <1>5, <1>a
<1>7. twoTo = [i \in Nat |-> IF i = 0 THEN 1 ELSE 2 * twoTo[i - 1]]
  BY <1>6 DEF twoTo
<1>8. twoTo[0] = 1 /\ \A i \in Nat : twoTo[i + 1] = 2 * twoTo[i]
  <2>1. ASSUME NEW i \in Nat PROVE twoTo[i + 1] = 2 * twoTo[i]
    <3>1. i + 1 \in Nat /\ i + 1 # 0 /\ (i + 1) - 1 = i
      OBVIOUS
    <3> QED
      BY <1>7, <3>1
  <2>2. twoTo[0] = 1
    BY <1>7
  <2> QED
    BY <2>1, <2>2
<1>9. ASSUME NEW n \in Nat PROVE twoTo[n] \in Nat \ {0}
  <2> DEFINE T == {i \in 0..n : twoTo[i] \in Nat \ {0}}
  <2>1. 0 \in T
    BY <1>8
  <2>2. \A i \in 0..n : i \in T /\ i < n => i + 1 \in T
    BY <1>8
  <2> HIDE DEF T
  <2>3. \A i \in 0..n : i \in T
    BY <2>1, <2>2, UpTo
  <2> QED
    BY <2>3 DEF T
<1> QED
  BY <1>8, <1>9

LEMMA TwoToSum ==
  ASSUME NEW m \in Nat, NEW n \in Nat
  PROVE  twoTo[m + n] = twoTo[m] * twoTo[n]
<1> DEFINE T == {i \in 0..n : twoTo[m + i] = twoTo[m] * twoTo[i]}
<1>1. 0 \in T
  <2>1. m + 0 = m /\ twoTo[m] * 1 = twoTo[m]
    BY TwoToIs
  <2> QED
    BY <2>1, TwoToIs
<1>2. \A i \in 0..n : i \in T /\ i < n => i + 1 \in T
  <2> SUFFICES ASSUME NEW i \in 0..n, i \in T, i < n PROVE i + 1 \in T
    OBVIOUS
  <2>1. m + (i + 1) = (m + i) + 1 /\ m + i \in Nat /\ i + 1 \in 0..n
    OBVIOUS
  <2>2. twoTo[m + (i + 1)] = 2 * (twoTo[m] * twoTo[i]) /\ twoTo[i + 1] = 2 * twoTo[i]
    BY <2>1, TwoToIs
  <2>3. PICK x, y \in Nat : x = twoTo[m] /\ y = twoTo[i]
    BY TwoToIs
  <2>4. 2 * (x * y) = x * (2 * y)
    OBVIOUS
  <2> QED
    BY <2>1, <2>2, <2>3, <2>4
<1> HIDE DEF T
<1>3. \A i \in 0..n : i \in T
  BY <1>1, <1>2, UpTo
<1> QED
  BY <1>3 DEF T

LEMMA QuotientIs ==
  ASSUME NEW m \in Nat \ {0}, NEW n \in Nat, NEW q \in Int, NEW t \in 0..m-1, n = m * q + t
  PROVE  n \div m = q /\ n % m = t
<1>1. n % m = t
  BY RemainderIs
<1>2. PICK u \in Int : u = n \div m /\ n = m * u + t
  <2>1. n = m * (n \div m) + (n % m) /\ n \div m \in Int
    BY DivMod
  <2> QED
    BY <1>1, <2>1
<1>3. m * (u - q) = 0
  BY <1>2
<1>4. u - q = 0
  <2>1. m * (u - q) < m /\ m * (u - q) > 0 - m /\ u - q \in Int
    BY <1>3
  <2> QED
    BY <2>1, SmallMultiple
<1> QED
  BY <1>1, <1>2, <1>4

LEMMA DivIs ==
  ASSUME NEW m \in Nat \ {0}, NEW n \in Nat
  PROVE  n \div m \in Nat /\ n % m \in 0..m-1 /\ n = m * (n \div m) + (n % m)
<1>1. n = m * (n \div m) + (n % m) /\ n \div m \in Int /\ n % m \in 0..m-1
  OBVIOUS
<1>2. PICK u \in Int : u = n \div m
  BY <1>1
<1>3. u <= -1 => m * u <= -m
  OBVIOUS
<1>4. u >= 0
  <2>1. PICK y, t \in Int : y = m * u /\ t = n % m /\ t < m /\ n = y + t
    BY <1>1, <1>2
  <2> QED
    BY <1>3, <2>1
<1> QED
  BY <1>1, <1>2, <1>4

\* Halving once more; and the lowest bits of a number, one more of them.
LEMMA HalfIs ==
  ASSUME NEW n \in Nat, NEW m \in Nat \ {0}
  PROVE  n \div m = 2 * (n \div (2 * m)) + ((n \div m) % 2) /\ (n \div m) \div 2 = n \div (2 * m)
<1>1. PICK q, t \in Nat : q = n \div m /\ t = n % m /\ n = m * q + t /\ t < m
  BY DivIs
<1>2. PICK q2, b \in Nat : q2 = q \div 2 /\ b = q % 2 /\ q = 2 * q2 + b /\ b < 2
  OBVIOUS
<1>3. PICK m2 \in Nat \ {0} : m2 = 2 * m
  OBVIOUS
<1>4. PICK t2 \in Nat : t2 = m * b + t
  OBVIOUS
<1>5. t2 < m2
  <2>1. b = 0 \/ b = 1
    BY <1>2
  <2> QED
    BY <1>1, <1>3, <1>4, <2>1
<1>6. n = m2 * q2 + t2
  <2>1. n = m * (2 * q2 + b) + t
    BY <1>1, <1>2
  <2>2. m2 * q2 + t2 = (2 * m) * q2 + (m * b + t)
    BY <1>3, <1>4
  <2>3. (2 * m) * q2 + (m * b + t) = m * (2 * q2 + b) + t
    OBVIOUS
  <2> QED
    BY <2>1, <2>2, <2>3
<1>7. n \div m2 = q2
  BY <1>5, <1>6, QuotientIs
<1> QED
  BY <1>1, <1>2, <1>3, <1>7

LEMMA LowIs ==
  ASSUME NEW n \in Nat, NEW m \in Nat \ {0}
  PROVE  n % (2 * m) = 2 * ((n \div 2) % m) + (n % 2)
<1>1. PICK q, b \in Nat : q = n \div 2 /\ b = n % 2 /\ n = 2 * q + b /\ b < 2
  OBVIOUS
<1>2. PICK q2, t \in Nat : q2 = q \div m /\ t = q % m /\ q = m * q2 + t /\ t < m
  BY DivIs
<1>3. PICK m2 \in Nat \ {0} : m2 = 2 * m
  OBVIOUS
<1>4. PICK t2 \in Nat : t2 = 2 * t + b
  OBVIOUS
<1>5. t2 < m2 /\ n = m2 * q2 + t2
  <2>1. t2 < m2
    BY <1>1, <1>2, <1>3, <1>4
  <2>2. n = 2 * (m * q2 + t) + b
    BY <1>1, <1>2
  <2>3. m2 * q2 + t2 = (2 * m) * q2 + (2 * t + b)
    BY <1>3, <1>4
  <2>4. (2 * m) * q2 + (2 * t + b) = 2 * (m * q2 + t) + b
    OBVIOUS
  <2> QED
    BY <2>1, <2>2, <2>3, <2>4
<1>6. n % m2 = t2
  BY <1>5, QuotientIs
<1> QED
  BY <1>1, <1>2, <1>3, <1>4, <1>6

LEMMA BitIs == ASSUME NEW n \in Nat, NEW i \in Nat PROVE bit(n, i) \in {0, 1}
<1>1. twoTo[i] \in Nat \ {0}
  BY TwoToIs
<1>2. n \div twoTo[i] \in Nat
  BY <1>1, DivIs
<1> QED
  BY <1>2 DEF bit
(***************************************************************************)
(* The bits a schedule has done: of each group, the topmost.               *)
(***************************************************************************)
\* The sum of c[g] 2^(g wd) over the first g of n groups of wd bits.
Weigh(n, wd, c) ==
  LET t[g \in 0..n] == IF g = 0 THEN 0 ELSE t[g - 1] + twoTo[(g - 1) * wd] * c[g - 1] IN t

LEMMA WeighIs ==
  ASSUME NEW n \in Nat, NEW wd \in Nat, NEW c \in [0..n-1 -> Nat]
  PROVE  /\ Weigh(n, wd, c) \in [0..n -> Nat] /\ Weigh(n, wd, c)[0] = 0
         /\ \A g \in 0..n-1 : Weigh(n, wd, c)[g + 1] = Weigh(n, wd, c)[g] + twoTo[g * wd] * c[g]
<1> DEFINE plus(x, j) == x + twoTo[(j - 1) * wd] * c[j - 1]
           F == [x \in Nat \X (1..n) |-> plus(x[1], x[2])]
<1>1. ASSUME NEW j \in 1..n PROVE j - 1 \in 0..n-1 /\ twoTo[(j - 1) * wd] * c[j - 1] \in Nat
  <2>1. (j - 1) * wd \in Nat /\ j - 1 \in 0..n-1
    OBVIOUS
  <2>2. PICK x, y \in Nat : x = twoTo[(j - 1) * wd] /\ y = c[j - 1]
    BY <2>1, TwoToIs
  <2>3. x * y \in Nat
    OBVIOUS
  <2> QED
    BY <2>1, <2>2, <2>3
<1> HIDE DEF plus
<1>a. \A x \in Nat, j \in 1..n : F[<<x, j>>] = plus(x, j)
  OBVIOUS
<1> HIDE DEF F
<1>2. \A x \in Nat, j \in 1..n : F[<<x, j>>] = x + twoTo[(j - 1) * wd] * c[j - 1]
  BY <1>a DEF plus
<1>3. StaysIn(F, Nat, n)
  <2> SUFFICES ASSUME NEW x \in Nat, NEW j \in 1..n PROVE F[<<x, j>>] \in Nat
    BY DEF StaysIn
  <2>1. PICK y \in Nat : y = twoTo[(j - 1) * wd] * c[j - 1]
    BY <1>1
  <2>2. F[<<x, j>>] = x + y
    BY <1>2, <2>1
  <2> QED
    BY <2>2
<1>4. PICK h \in [0..n -> Nat] : Follows(h, 0, F, n)
  BY <1>3, Recursion
<1>5. \A g \in 1..n : h[g] = h[g - 1] + twoTo[(g - 1) * wd] * c[g - 1]
  <2> SUFFICES ASSUME NEW g \in 1..n PROVE h[g] = h[g - 1] + twoTo[(g - 1) * wd] * c[g - 1]
    OBVIOUS
  <2>1. h[g - 1] \in Nat /\ h[g] = F[<<h[g - 1], g>>]
    BY <1>4 DEF Follows
  <2> QED
    BY <1>2, <2>1
<1>6. h = [g \in 0..n |-> IF g = 0 THEN 0 ELSE h[g - 1] + twoTo[(g - 1) * wd] * c[g - 1]]
  BY <1>4, <1>5 DEF Follows
<1> DEFINE W0 == Weigh(n, wd, c)
<1>7. W0 = [g \in 0..n |-> IF g = 0 THEN 0 ELSE W0[g - 1] + twoTo[(g - 1) * wd] * c[g - 1]]
  BY <1>6 DEF Weigh
<1> HIDE DEF W0
<1>8. W0[0] = 0 /\ \A g \in 0..n-1 : W0[g + 1] = W0[g] + twoTo[g * wd] * c[g]
  <2>1. ASSUME NEW g \in 0..n-1 PROVE W0[g + 1] = W0[g] + twoTo[g * wd] * c[g]
    <3>1. g + 1 \in 0..n /\ g + 1 # 0 /\ (g + 1) - 1 = g
      OBVIOUS
    <3> QED
      BY <1>7, <3>1
  <2>2. W0[0] = 0
    BY <1>7
  <2> QED
    BY <2>1, <2>2
<1> DEFINE T == {g \in 0..n : W0[g] \in Nat}
<1>9. 0 \in T /\ \A g \in 0..n : g \in T /\ g < n => g + 1 \in T
  <2>1. ASSUME NEW g \in 0..n, g \in T, g < n PROVE g + 1 \in T
    <3>1. g + 1 \in 1..n /\ (g + 1) - 1 = g /\ g \in 0..n-1
      BY <2>1
    <3>2. PICK x, y \in Nat : x = W0[g] /\ y = twoTo[g * wd] * c[g]
      BY <1>1, <2>1, <3>1
    <3>3. W0[g + 1] = x + y
      BY <1>8, <3>1, <3>2
    <3> QED
      BY <3>1, <3>3
  <2> QED
    BY <1>8, <2>1
<1> HIDE DEF T
<1>10. \A g \in 0..n : g \in T
  BY <1>9, UpTo
<1>11. W0 \in [0..n -> Nat]
  BY <1>7, <1>10 DEF T
<1> QED
  BY <1>8, <1>11 DEF W0

\* Of each group of x, the j bits done; and the bits at position i.
Done(x, n, wd, j) == [g \in 0..n-1 |-> (x \div twoTo[g * wd + (wd - j)]) % twoTo[j]]
BitsAt(x, n, wd, i) == [g \in 0..n-1 |-> bit(x, i + g * wd)]

LEMMA DoneIs ==
  ASSUME NEW x \in Nat, NEW n \in Nat, NEW wd \in Nat
  PROVE  /\ \A j \in 0..wd : Done(x, n, wd, j) \in [0..n-1 -> Nat]
         /\ \A i \in Nat : BitsAt(x, n, wd, i) \in [0..n-1 -> Nat]
<1>1. ASSUME NEW j \in 0..wd, NEW g \in 0..n-1
      PROVE  (x \div twoTo[g * wd + (wd - j)]) % twoTo[j] \in Nat
  <2>1. g * wd \in Nat /\ wd - j \in Nat
    OBVIOUS
  <2>2. g * wd + (wd - j) \in Nat
    BY <2>1
  <2>3. PICK m \in Nat : m = x \div twoTo[g * wd + (wd - j)]
    BY <2>2, TwoToIs, DivIs
  <2>4. PICK l \in Nat \ {0} : l = twoTo[j]
    BY TwoToIs
  <2>5. m % l \in Nat
    BY DivIs
  <2> QED
    BY <2>3, <2>4, <2>5
<1>2. ASSUME NEW i \in Nat, NEW g \in 0..n-1 PROVE bit(x, i + g * wd) \in Nat
  <2>1. i + g * wd \in Nat
    OBVIOUS
  <2> QED
    BY <2>1, BitIs
<1> QED
  BY <1>1, <1>2 DEF Done, BitsAt

LEMMA DoneNext ==
  ASSUME NEW x \in Nat, NEW n \in Nat, NEW wd \in Nat, NEW j \in 0..wd, j < wd, NEW g \in 0..n-1
  PROVE  Done(x, n, wd, j + 1)[g] = 2 * Done(x, n, wd, j)[g] + BitsAt(x, n, wd, wd - (j + 1))[g]
<1>1. PICK e \in Nat : e = g * wd + (wd - (j + 1))
  <2>1. g * wd \in Nat /\ wd - (j + 1) \in Nat
    OBVIOUS
  <2> QED
    BY <2>1
<1>2. e + 1 = g * wd + (wd - j) /\ e = (wd - (j + 1)) + g * wd /\ j + 1 \in 0..wd
  <2>1. PICK l \in Nat : l = g * wd
    OBVIOUS
  <2> QED
    BY <1>1, <2>1
<1>a. PICK m \in Nat \ {0} : m = twoTo[e] /\ twoTo[e + 1] = 2 * m
  BY TwoToIs
<1>b. PICK l \in Nat \ {0} : l = twoTo[j] /\ twoTo[j + 1] = 2 * l
  BY TwoToIs
<1>3. m = twoTo[e] /\ twoTo[e + 1] = 2 * m /\ l = twoTo[j] /\ twoTo[j + 1] = 2 * l
  BY <1>a, <1>b
<1>4. PICK y \in Nat : y = x \div m
  BY DivIs
<1>5. y % (2 * l) = 2 * ((y \div 2) % l) + (y % 2) /\ y \div 2 = x \div (2 * m)
  BY <1>4, LowIs, HalfIs
<1>6. Done(x, n, wd, j + 1)[g] = y % (2 * l)
  BY <1>1, <1>2, <1>3, <1>4 DEF Done
<1>7. Done(x, n, wd, j)[g] = (y \div 2) % l
  BY <1>2, <1>3, <1>5 DEF Done
<1>8. BitsAt(x, n, wd, wd - (j + 1))[g] = y % 2
  BY <1>2, <1>3, <1>4 DEF BitsAt, bit
<1> QED
  BY <1>5, <1>6, <1>7, <1>8

LEMMA SumDone ==
  ASSUME NEW x \in Nat, NEW n \in Nat, NEW wd \in Nat
  PROVE  /\ Weigh(n, wd, Done(x, n, wd, 0))[n] = 0
         /\ x < twoTo[n * wd] => Weigh(n, wd, Done(x, n, wd, wd))[n] = x
         /\ \A j \in 0..wd : j < wd =>
              Weigh(n, wd, Done(x, n, wd, j + 1))[n]
                = 2 * Weigh(n, wd, Done(x, n, wd, j))[n] + Weigh(n, wd, BitsAt(x, n, wd, wd - (j + 1)))[n]
<1>1. ASSUME NEW j \in 0..wd, j < wd
      PROVE  Weigh(n, wd, Done(x, n, wd, j + 1))[n]
               = 2 * Weigh(n, wd, Done(x, n, wd, j))[n] + Weigh(n, wd, BitsAt(x, n, wd, wd - (j + 1)))[n]
  <2> DEFINE c == Done(x, n, wd, j)
             b == BitsAt(x, n, wd, wd - (j + 1))
             d == Done(x, n, wd, j + 1)
  <2>a. j + 1 \in 0..wd /\ wd - (j + 1) \in Nat
    BY <1>1
  <2>b. b \in [0..n-1 -> Nat]
    BY <2>a, DoneIs
  <2>c. d \in [0..n-1 -> Nat]
    BY <2>a, DoneIs
  <2>1. c \in [0..n-1 -> Nat] /\ b \in [0..n-1 -> Nat] /\ d \in [0..n-1 -> Nat]
    BY <2>b, <2>c, DoneIs
  <2>2. ASSUME NEW g \in 0..n-1 PROVE d[g] = 2 * c[g] + b[g]
    BY <1>1, DoneNext
  <2> HIDE DEF b, c, d
  <2>d. \A g \in 0..n-1 : d[g] = 2 * c[g] + b[g]
    BY <2>2
  <2>3. \A g \in 0..n : Weigh(n, wd, d)[g] = 2 * Weigh(n, wd, c)[g] + Weigh(n, wd, b)[g]
    <3> DEFINE f == Weigh(n, wd, c)
               h == Weigh(n, wd, b)
               q == Weigh(n, wd, d)
               T == {g \in 0..n : q[g] = 2 * f[g] + h[g]}
    <3>a. f \in [0..n -> Nat] /\ f[0] = 0 /\ \A g \in 0..n-1 : f[g + 1] = f[g] + twoTo[g * wd] * c[g]
      BY <2>1, WeighIs
    <3>b. h \in [0..n -> Nat] /\ h[0] = 0 /\ \A g \in 0..n-1 : h[g + 1] = h[g] + twoTo[g * wd] * b[g]
      BY <2>1, WeighIs
    <3>c. q \in [0..n -> Nat] /\ q[0] = 0 /\ \A g \in 0..n-1 : q[g + 1] = q[g] + twoTo[g * wd] * d[g]
      BY <2>1, WeighIs
    <3> HIDE DEF f, h, q
    <3>1. 0 \in T
      BY <3>a, <3>b, <3>c
    <3>2. ASSUME NEW g \in 0..n, g \in T, g < n PROVE g + 1 \in T
      <4>1. g \in 0..n-1 /\ g + 1 \in 0..n
        BY ONLY n \in Nat, g \in 0..n, <3>2
      <4>2. g * wd \in Nat
        BY ONLY g \in 0..n, n \in Nat, wd \in Nat
      <4>3. PICK m \in Nat : m = twoTo[g * wd]
        BY <4>2, TwoToIs
      <4>4. c[g] \in Nat /\ b[g] \in Nat /\ d[g] = 2 * c[g] + b[g]
        BY <2>1, <2>d, <4>1
      <4>5. f[g] \in Nat /\ h[g] \in Nat /\ q[g] = 2 * f[g] + h[g]
        BY <3>a, <3>b, <3>2
      <4>6. f[g + 1] = f[g] + m * c[g]
        BY <3>a, <4>1, <4>3
      <4>7. h[g + 1] = h[g] + m * b[g]
        BY <3>b, <4>1, <4>3
      <4>8. q[g + 1] = q[g] + m * d[g]
        BY <3>c, <4>1, <4>3
      <4>9. PICK u \in Nat : u = c[g]
        BY <4>4
      <4>10. PICK y \in Nat : y = b[g]
        BY <4>4
      <4>11. PICK s \in Nat : s = f[g]
        BY <4>5
      <4>12. PICK t \in Nat : t = h[g]
        BY <4>5
      <4>13. (2 * s + t) + m * (2 * u + y) = 2 * (s + m * u) + (t + m * y)
        OBVIOUS
      <4>14. q[g + 1] = 2 * f[g + 1] + h[g + 1]
        BY <4>4, <4>5, <4>6, <4>7, <4>8, <4>9, <4>10, <4>11, <4>12, <4>13
      <4> QED
        BY <4>1, <4>14
    <3> HIDE DEF T
    <3>3. \A g \in 0..n : g \in T
      BY <3>1, <3>2, UpTo
    <3> QED
      BY <3>3 DEF T, f, h, q
  <2>4. Weigh(n, wd, d)[n] = 2 * Weigh(n, wd, c)[n] + Weigh(n, wd, b)[n]
    BY <2>3
  <2> QED
    BY <2>4 DEF b, c, d
<1>2. Weigh(n, wd, Done(x, n, wd, 0))[n] = 0
  <2> DEFINE c == Done(x, n, wd, 0)
             W0 == Weigh(n, wd, c)
  <2>a. 0 \in 0..wd
    OBVIOUS
  <2>1. c \in [0..n-1 -> Nat]
    BY <2>a, DoneIs
  <2>2. \A g \in 0..n-1 : c[g] = 0
    <3> SUFFICES ASSUME NEW g \in 0..n-1 PROVE c[g] = 0
      OBVIOUS
    <3>1. g * wd + (wd - 0) \in Nat
      OBVIOUS
    <3>2. PICK m \in Nat : m = x \div twoTo[g * wd + (wd - 0)]
      BY <3>1, TwoToIs, DivIs
    <3>3. m % 1 = 0
      OBVIOUS
    <3> QED
      BY <3>2, <3>3, TwoToIs DEF Done
  <2> HIDE DEF c
  <2>3. W0[0] = 0 /\ W0 \in [0..n -> Nat] /\ \A g \in 0..n-1 : W0[g + 1] = W0[g] + twoTo[g * wd] * c[g]
    BY <2>1, WeighIs
  <2> HIDE DEF W0
  <2> DEFINE T == {g \in 0..n : W0[g] = 0}
  <2>4. \A g \in 0..n : g \in T /\ g < n => g + 1 \in T
    <3> SUFFICES ASSUME NEW g \in 0..n, g \in T, g < n PROVE g + 1 \in T
      OBVIOUS
    <3>1. g \in 0..n-1 /\ g + 1 \in 0..n /\ g * wd \in Nat
      OBVIOUS
    <3>2. twoTo[g * wd] \in Nat
      BY <3>1, TwoToIs
    <3>3. W0[g + 1] = 0 + twoTo[g * wd] * 0
      BY <2>2, <2>3, <3>1
    <3> QED
      BY <3>1, <3>2, <3>3
  <2> HIDE DEF T
  <2>5. \A g \in 0..n : g \in T
    <3>1. 0 \in T
      BY <2>3 DEF T
    <3> QED
      BY <2>4, <3>1, UpTo
  <2> QED
    BY <2>5 DEF T, W0, c
<1>3. ASSUME x < twoTo[n * wd] PROVE Weigh(n, wd, Done(x, n, wd, wd))[n] = x
  <2> DEFINE c == Done(x, n, wd, wd)
             W0 == Weigh(n, wd, c)
  <2>a. wd \in 0..wd
    OBVIOUS
  <2>1. c \in [0..n-1 -> Nat]
    BY <2>a, DoneIs
  <2>2. \A g \in 0..n-1 : c[g] = (x \div twoTo[g * wd]) % twoTo[wd]
    <3> SUFFICES ASSUME NEW g \in 0..n-1 PROVE c[g] = (x \div twoTo[g * wd]) % twoTo[wd]
      OBVIOUS
    <3>1. g * wd + (wd - wd) = g * wd
      OBVIOUS
    <3> QED
      BY <3>1 DEF Done
  <2> HIDE DEF c
  <2>3. W0[0] = 0 /\ W0 \in [0..n -> Nat] /\ \A g \in 0..n-1 : W0[g + 1] = W0[g] + twoTo[g * wd] * c[g]
    BY <2>1, WeighIs
  <2> HIDE DEF W0
  <2> DEFINE T == {g \in 0..n : W0[g] = x % twoTo[g * wd]}
  <2>4. \A g \in 0..n : g \in T /\ g < n => g + 1 \in T
    <3> SUFFICES ASSUME NEW g \in 0..n, g \in T, g < n PROVE g + 1 \in T
      OBVIOUS
    <3>a. g \in 0..n-1 /\ g + 1 \in 0..n
      OBVIOUS
    <3>b. g * wd \in Nat /\ (g + 1) * wd = g * wd + wd
      BY ONLY g \in 0..n, n \in Nat, wd \in Nat
    <3>1. g \in 0..n-1 /\ g + 1 \in 0..n /\ g * wd \in Nat /\ (g + 1) * wd = g * wd + wd
      BY <3>a, <3>b
    <3>c. PICK e \in Nat : e = g * wd
      BY <3>b
    <3>d. PICK m \in Nat \ {0} : m = twoTo[e]
      BY TwoToIs
    <3>e. PICK l \in Nat \ {0} : l = twoTo[wd]
      BY TwoToIs
    <3>f. twoTo[e + wd] = m * l
      BY <3>d, <3>e, TwoToSum
    <3>2. m = twoTo[g * wd] /\ l = twoTo[wd] /\ twoTo[(g + 1) * wd] = m * l
      BY <3>1, <3>c, <3>d, <3>e, <3>f
    <3>g. PICK q \in Nat : q = x \div m
      BY DivIs
    <3>h. PICK t \in 0..m-1 : t = x % m
      <4>1. x % m \in 0..m-1
        BY ONLY x \in Nat, m \in Nat \ {0}
      <4> QED
        BY <4>1
    <3>3. q = x \div m /\ t = x % m /\ x = m * q + t /\ t < m
      BY <3>g, <3>h, DivIs
    <3>i. PICK q2 \in Nat : q2 = q \div l
      BY DivIs
    <3>j. PICK t2 \in 0..l-1 : t2 = q % l
      <4>1. q % l \in 0..l-1
        BY ONLY q \in Nat, l \in Nat \ {0}
      <4> QED
        BY <4>1
    <3>4. q2 = q \div l /\ t2 = q % l /\ q = l * q2 + t2 /\ t2 < l
      BY <3>i, <3>j, DivIs
    <3>5. PICK ml \in Nat \ {0} : ml = m * l
      OBVIOUS
    <3>6. PICK u \in Nat : u = m * t2 + t
      OBVIOUS
    <3>7. u < ml
      <4>1. m * (t2 + 1) <= m * l
        <5>1. PICK d \in Nat : l = t2 + 1 + d
          <6>1. l - (t2 + 1) \in Nat /\ l = t2 + 1 + (l - (t2 + 1))
            BY <3>4
          <6> QED
            BY <6>1
        <5>2. m * l = m * (t2 + 1) + m * d /\ m * d >= 0
          BY <5>1
        <5>3. m * l \in Int /\ m * (t2 + 1) \in Int /\ m * d \in Int
          OBVIOUS
        <5> QED
          BY <5>2, <5>3
      <4>2. m * (t2 + 1) = m * t2 + m
        OBVIOUS
      <4>3. PICK y \in Nat : y = m * t2
        OBVIOUS
      <4> QED
        BY <3>3, <3>5, <3>6, <4>1, <4>2, <4>3
    <3>8. x = ml * q2 + u
      <4>1. x = m * (l * q2 + t2) + t
        BY <3>3, <3>4
      <4>2. ml * q2 + u = (m * l) * q2 + (m * t2 + t)
        BY <3>5, <3>6
      <4>3. (m * l) * q2 + (m * t2 + t) = m * (l * q2 + t2) + t
        OBVIOUS
      <4> QED
        BY <4>1, <4>2, <4>3
    <3>9. x % ml = u
      <4>1. PICK v \in 0..ml-1 : v = u
        BY <3>7
      <4>2. x = ml * q2 + v
        BY <3>8, <4>1
      <4>3. x % ml = v
        BY <4>2, QuotientIs
      <4> QED
        BY <4>1, <4>3
    <3>10. W0[g + 1] = t + m * t2
      BY <2>2, <2>3, <3>1, <3>2, <3>3, <3>4
    <3>11. t + m * t2 = u
      BY <3>6
    <3> QED
      BY <3>1, <3>2, <3>5, <3>9, <3>10, <3>11
  <2> HIDE DEF T
  <2>5. 0 \in T
    <3>1. 0 * wd = 0 /\ x % 1 = 0
      BY ONLY x \in Nat, wd \in Nat
    <3>2. x % twoTo[0 * wd] = 0
      BY <3>1, TwoToIs
    <3> QED
      BY <2>3, <3>2 DEF T
  <2>6. \A g \in 0..n : g \in T
    BY <2>4, <2>5, UpTo
  <2>7. W0[n] = x % twoTo[n * wd]
    BY <2>6 DEF T
  <2>8. x % twoTo[n * wd] = x
    <3>1. n * wd \in Nat
      OBVIOUS
    <3>2. PICK m \in Nat \ {0} : m = twoTo[n * wd] /\ x < m
      BY <1>3, <3>1, TwoToIs
    <3>3. x % m = x
      BY <3>2
    <3> QED
      BY <3>2, <3>3
  <2> QED
    BY <2>7, <2>8 DEF W0, c
<1> QED
  BY <1>1, <1>2, <1>3

(***************************************************************************)
(* What a schedule adds at a bit position.                                 *)
(***************************************************************************)
Size(s) == IF s = "shamir" THEN BITS ELSE ITERS

LEMMA WidthIs ==
  ASSUME NEW s \in Schedules
  PROVE  width(s) \in Nat /\ groups(s) \in Nat \ {0} /\ groups(s) * width(s) = Size(s)
<1>1. CASE s = "shamir"
  BY <1>1, ScheduleAssumption DEF width, groups, Size
<1>2. CASE s = "glv"
  <2>1. groups(s) = 1 /\ width(s) = ITERS \div 1 /\ Size(s) = ITERS
    BY <1>2 DEF width, groups, Size
  <2>2. ITERS \in Nat /\ ITERS \div 1 = ITERS
    BY ScheduleAssumption
  <2> QED
    BY <2>1, <2>2
<1>3. CASE s = "grouped"
  <2>1. groups(s) = GROUPS /\ width(s) = ITERS \div GROUPS /\ Size(s) = ITERS
    BY <1>3 DEF width, groups, Size
  <2>2. PICK m \in Nat \ {0} : m = GROUPS
    BY ScheduleAssumption
  <2>3. PICK n \in Nat : n = ITERS /\ n % m = 0
    BY <2>2, ScheduleAssumption
  <2>4. n \div m \in Nat /\ n = m * (n \div m)
    <3>1. n \div m \in Nat /\ n = m * (n \div m) + (n % m)
      BY DivIs
    <3>2. PICK q \in Nat : q = n \div m
      BY <3>1
    <3>3. n = m * q + 0
      BY <2>3, <3>1, <3>2
    <3> QED
      BY <3>2, <3>3
  <2> QED
    BY <2>1, <2>2, <2>3, <2>4
<1> QED
  BY <1>1, <1>2, <1>3 DEF Schedules

LEMMA KeyIs ==
  ASSUME NEW v \in VKS
  PROVE  v[1] \in 1..N-1 /\ v[2] \in 1..N-1 /\ v[3] \in 1..N-1
  BY ScheduleAssumption

\* The multiple each point is of, and the sum of x of each.
Coef(v, s) ==
  IF s = "shamir" THEN <<v[2], v[3], 0, 0>> ELSE <<v[2], LAM * v[2], v[3], LAM * v[3]>>
Mix(d, x1, x2, x3, x4) == d[1] * x1 + d[2] * x2 + d[3] * x3 + d[4] * x4
PointCount(s) == IF s = "shamir" THEN 2 ELSE 4

LEMMA CoefIs ==
  ASSUME NEW v \in VKS, NEW s \in Schedules
  PROVE  /\ Coef(v, s) \in Int \X Int \X Int \X Int
         /\ \A l \in 1..4 : Coef(v, s)[l] \in Int
         /\ s = "shamir" => Coef(v, s)[3] = 0 /\ Coef(v, s)[4] = 0
<1>1. LAM \in Int /\ v[2] \in Int /\ v[3] \in Int
  BY KeyIs, EndomorphismAssumption, NIs
<1>2. LAM * v[2] \in Int /\ LAM * v[3] \in Int
  BY <1>1
<1> QED
  BY <1>1, <1>2 DEF Coef

LEMMA MixLinear ==
  ASSUME NEW d \in Int \X Int \X Int \X Int, NEW m \in Int, NEW n \in Int,
         NEW x1 \in Int, NEW x2 \in Int, NEW x3 \in Int, NEW x4 \in Int,
         NEW y1 \in Int, NEW y2 \in Int, NEW y3 \in Int, NEW y4 \in Int
  PROVE  /\ Mix(d, x1, x2, x3, x4) \in Int
         /\ Mix(d, m * x1 + n * y1, m * x2 + n * y2, m * x3 + n * y3, m * x4 + n * y4)
              = m * Mix(d, x1, x2, x3, x4) + n * Mix(d, y1, y2, y3, y4)
<1>1. PICK d1, d2, d3, d4 \in Int : d1 = d[1] /\ d2 = d[2] /\ d3 = d[3] /\ d4 = d[4]
  OBVIOUS
<1>2. d1 * x1 + d2 * x2 + d3 * x3 + d4 * x4 \in Int
  OBVIOUS
<1>3. d1 * (m * x1 + n * y1) + d2 * (m * x2 + n * y2) + d3 * (m * x3 + n * y3) + d4 * (m * x4 + n * y4)
        = m * (d1 * x1 + d2 * x2 + d3 * x3 + d4 * x4) + n * (d1 * y1 + d2 * y2 + d3 * y3 + d4 * y4)
  OBVIOUS
<1> QED
  BY <1>1, <1>2, <1>3 DEF Mix

LEMMA BasesAre ==
  ASSUME NEW v \in VKS, NEW s \in Schedules
  PROVE  Len(bases(v, s)) = PointCount(s) /\ \A l \in 1..PointCount(s) : bases(v, s)[l] = multiply(Coef(v, s)[l])
<1>1. ASSUME NEW n \in 1..N-1 PROVE phiPt(multiply(n)) = multiply(LAM * n)
  <2>1. n \in 0..N-1
    BY NIs
  <2>2. multiply(n) = Multiples[n]
    BY <2>1, MultiplesAre
  <2> QED
    BY <2>1, <2>2, EndomorphismAssumption
<1>2. v[2] \in 1..N-1 /\ v[3] \in 1..N-1
  BY KeyIs
<1>3. CASE s = "shamir"
  <2>1. bases(v, s) = <<multiply(v[2]), multiply(v[3])>> /\ PointCount(s) = 2
    BY <1>3 DEF bases, PointCount
  <2>2. Coef(v, s) = <<v[2], v[3], 0, 0>>
    BY <1>3 DEF Coef
  <2> QED
    BY <2>1, <2>2
<1>4. CASE s # "shamir"
  <2>1. bases(v, s) = <<multiply(v[2]), phiPt(multiply(v[2])), multiply(v[3]), phiPt(multiply(v[3]))>>
        /\ PointCount(s) = 4
    BY <1>4 DEF bases, PointCount
  <2>2. phiPt(multiply(v[2])) = multiply(LAM * v[2]) /\ phiPt(multiply(v[3])) = multiply(LAM * v[3])
    BY <1>1, <1>2
  <2>3. Coef(v, s) = <<v[2], LAM * v[2], v[3], LAM * v[3]>>
    BY <1>4 DEF Coef
  <2> QED
    BY <2>1, <2>2, <2>3
<1> QED
  BY <1>3, <1>4
\* The sum of t times each point, over the bits of idx.
LEMMA EntryIs ==
  ASSUME NEW v \in VKS, NEW s \in Schedules, NEW g \in Nat, NEW idx \in Nat
  PROVE  entry(v, s, g, idx)
           = multiply(twoTo[g * width(s)]
                        * Mix(Coef(v, s), bit(idx, 0), bit(idx, 1), bit(idx, 2), bit(idx, 3)))
<1>1. PICK t \in Nat : t = twoTo[g * width(s)]
  <2>1. g * width(s) \in Nat
    BY WidthIs
  <2> QED
    BY <2>1, TwoToIs
<1>2. PICK n \in Nat : n = Len(bases(v, s)) /\ n = PointCount(s)
  BY BasesAre DEF PointCount
<1>3. PICK d \in Int \X Int \X Int \X Int :
        d = Coef(v, s) /\ \A l \in 1..4 : d[l] \in Int
  BY CoefIs
<1>4. n \in {2, 4} /\ (n = 2 => s = "shamir")
  BY <1>2 DEF PointCount
<1> DEFINE shifted(l) == multiply(log(bases(v, s)[l]) * t)
           S == {multiply(e) : e \in Int}
           step(x, l) == IF bit(idx, l - 1) = 1 THEN add(x, shifted(l)) ELSE x
           F == [y \in S \X (1..n) |-> step(y[1], y[2])]
<1>5. ASSUME NEW l \in 1..n PROVE d[l] \in Int /\ shifted(l) = multiply(t * d[l])
  <2>1. PICK c \in Int : c = d[l]
    BY <1>3, <1>4
  <2>2. bases(v, s)[l] = multiply(c)
    BY <1>2, <1>3, <2>1, BasesAre
  <2>3. PICK lg \in Int : lg = log(multiply(c)) /\ Cong(N, lg, c)
    BY LogIs, NIs
  <2>4. Cong(N, lg * t, c * t)
    BY <2>3, CongProduct, CongSame, NIs
  <2>5. lg * t \in Int /\ c * t \in Int /\ c * t = t * c
    OBVIOUS
  <2>6. multiply(lg * t) = multiply(t * c)
    BY <2>4, <2>5, EqualMultiples
  <2> QED
    BY <2>1, <2>2, <2>3, <2>6
<1>6. ASSUME NEW e \in Int, NEW l \in 1..n
      PROVE  step(multiply(e), l) = multiply(e + t * (d[l] * bit(idx, l - 1)))
  <2>1. l - 1 \in Nat
    OBVIOUS
  <2>2. PICK b \in {0, 1} : b = bit(idx, l - 1)
    BY <2>1, BitIs
  <2>3. PICK c \in Int : c = d[l] /\ shifted(l) = multiply(t * c)
    BY <1>5
  <2> HIDE DEF shifted
  <2>4. CASE b = 1
    <3>1. t * c \in Int /\ e + t * (c * b) = e + t * c
      BY <2>4
    <3>2. add(multiply(e), multiply(t * c)) = multiply(e + t * c)
      BY <3>1, SumOfMultiples
    <3> QED
      BY <2>2, <2>3, <2>4, <3>1, <3>2
  <2>5. CASE b = 0
    <3>1. e + t * (c * b) = e
      BY <2>5
    <3> QED
      BY <2>2, <2>3, <2>5, <3>1
  <2> QED
    BY <2>4, <2>5
<1> HIDE DEF step
<1>7. \A x \in S, l \in 1..n : F[<<x, l>>] = step(x, l)
  OBVIOUS
<1> HIDE DEF F
<1>8. ASSUME NEW x \in S, NEW l \in 1..n PROVE step(x, l) \in S
  <2>1. PICK e \in Int : x = multiply(e)
    OBVIOUS
  <2>2. l - 1 \in Nat
    OBVIOUS
  <2>3. PICK b \in Int : b = bit(idx, l - 1)
    BY <2>2, BitIs
  <2>4. PICK c \in Int : c = d[l]
    BY <1>5
  <2>5. e + t * (c * b) \in Int
    OBVIOUS
  <2> QED
    BY <1>6, <2>1, <2>3, <2>4, <2>5
<1>9. ZERO \in S /\ ZERO = multiply(0)
  <2>1. 0 \in Int /\ ZERO = multiply(0)
    BY ZeroIs
  <2> QED
    BY <2>1
<1> HIDE DEF S
<1>10. StaysIn(F, S, n)
  BY <1>7, <1>8 DEF StaysIn
<1>11. PICK h \in [0..n -> S] : Follows(h, ZERO, F, n)
  BY <1>9, <1>10, Recursion
<1>12. \A l \in 1..n : h[l] = step(h[l - 1], l)
  <2> SUFFICES ASSUME NEW l \in 1..n PROVE h[l] = step(h[l - 1], l)
    OBVIOUS
  <2>1. h[l - 1] \in S /\ h[l] = F[<<h[l - 1], l>>]
    BY <1>11 DEF Follows
  <2> QED
    BY <1>7, <2>1
<1>13. h = [l \in 0..n |-> IF l = 0 THEN ZERO ELSE step(h[l - 1], l)]
  BY <1>11, <1>12 DEF Follows
<1>14. \E f : f = [l \in 0..n |-> IF l = 0 THEN ZERO ELSE step(f[l - 1], l)] /\ entry(v, s, g, idx) = f[n]
  BY <1>1, <1>2, <1>13 DEF entry, step
<1>15. PICK f : f = [l \in 0..n |-> IF l = 0 THEN ZERO ELSE step(f[l - 1], l)] /\ entry(v, s, g, idx) = f[n]
  BY <1>14
<1>16. f[0] = multiply(0) /\ \A l \in 1..n : f[l] = step(f[l - 1], l)
  BY <1>9, <1>15
<1>17. PICK b1, b2, b3, b4 \in Int : /\ b1 = bit(idx, 0) /\ b2 = bit(idx, 1)
                                     /\ b3 = bit(idx, 2) /\ b4 = bit(idx, 3)
  BY BitIs
<1>18. PICK d1, d2, d3, d4 \in Int : d1 = d[1] /\ d2 = d[2] /\ d3 = d[3] /\ d4 = d[4]
  BY <1>3
<1>19. /\ 0 + t * (d1 * b1) \in Int /\ 0 + t * (d1 * b1) + t * (d2 * b2) \in Int
       /\ 0 + t * (d1 * b1) + t * (d2 * b2) + t * (d3 * b3) \in Int
  OBVIOUS
<1>20. f[1] = multiply(0 + t * (d1 * b1)) /\ f[2] = multiply(0 + t * (d1 * b1) + t * (d2 * b2))
  <2>1. 0 \in Int /\ 1 \in 1..n /\ 2 \in 1..n /\ 1 - 1 = 0 /\ 2 - 1 = 1
    BY <1>4
  <2>2. f[1] = multiply(0 + t * (d1 * b1))
    <3>1. PICK z \in Int : z = 0
      OBVIOUS
    <3>2. PICK l \in 1..n : l = 1 /\ l - 1 = 0
      BY <2>1
    <3>3. step(multiply(z), l) = multiply(z + t * (d[l] * bit(idx, l - 1)))
      BY <1>6
    <3>4. f[l] = step(f[l - 1], l)
      BY <1>16
    <3> QED
      BY <1>16, <1>17, <1>18, <3>1, <3>2, <3>3, <3>4
  <2> QED
    BY <1>6, <1>16, <1>17, <1>18, <1>19, <2>1, <2>2
<1>21. CASE n = 2
  <2>1. d3 = 0 /\ d4 = 0
    BY <1>3, <1>4, <1>18, <1>21, CoefIs
  <2>2. 0 + t * (d1 * b1) + t * (d2 * b2) = t * (d1 * b1 + d2 * b2 + d3 * b3 + d4 * b4)
    BY <2>1
  <2> QED
    BY <1>1, <1>3, <1>15, <1>17, <1>18, <1>20, <1>21, <2>2 DEF Mix
<1>22. CASE n = 4
  <2>1. 3 \in 1..n /\ 4 \in 1..n /\ 3 - 1 = 2 /\ 4 - 1 = 3
    BY <1>22
  <2>2. f[3] = multiply(0 + t * (d1 * b1) + t * (d2 * b2) + t * (d3 * b3))
    <3>1. PICK z \in Int : z = 0 + t * (d1 * b1) + t * (d2 * b2)
      OBVIOUS
    <3>2. PICK l \in 1..n : l = 3 /\ l - 1 = 2
      BY <2>1
    <3>3. step(multiply(z), l) = multiply(z + t * (d[l] * bit(idx, l - 1)))
      BY <1>6
    <3>4. f[l] = step(f[l - 1], l)
      BY <1>16
    <3> QED
      BY <1>17, <1>18, <1>20, <3>1, <3>2, <3>3, <3>4
  <2>3. f[4] = multiply(0 + t * (d1 * b1) + t * (d2 * b2) + t * (d3 * b3) + t * (d4 * b4))
    BY <1>6, <1>16, <1>17, <1>18, <1>19, <2>1, <2>2
  <2>4. 0 + t * (d1 * b1) + t * (d2 * b2) + t * (d3 * b3) + t * (d4 * b4)
          = t * (d1 * b1 + d2 * b2 + d3 * b3 + d4 * b4)
    OBVIOUS
  <2> QED
    BY <1>1, <1>3, <1>15, <1>17, <1>18, <1>22, <2>3, <2>4 DEF Mix
<1> QED
  BY <1>4, <1>21, <1>22
\* The scalars of a schedule, no more bits than it has positions.
Fits(s, ks) ==
  IF s = "shamir" THEN ks \in (0..twoTo[BITS] - 1) \X (0..twoTo[BITS] - 1)
  ELSE ks \in (0..twoTo[ITERS] - 1) \X (0..twoTo[ITERS] - 1) \X (0..twoTo[ITERS] - 1) \X (0..twoTo[ITERS] - 1)
Scalar(ks, l) == IF l <= Len(ks) THEN ks[l] ELSE 0

\* What is added at bit position i, as a multiple of BASE.
At(v, s, ks, i) ==
  Mix(Coef(v, s), bit(Scalar(ks, 1), i), bit(Scalar(ks, 2), i), bit(Scalar(ks, 3), i), bit(Scalar(ks, 4), i))

LEMMA FitsIs ==
  ASSUME NEW s \in Schedules, NEW ks, Fits(s, ks)
  PROVE  /\ Len(ks) = PointCount(s) /\ \A l \in 1..PointCount(s) : Scalar(ks, l) = ks[l]
         /\ \A l \in 1..4 : Scalar(ks, l) \in Nat /\ Scalar(ks, l) < twoTo[Size(s)]
<1>1. twoTo[BITS] \in Nat \ {0} /\ twoTo[ITERS] \in Nat \ {0}
  BY TwoToIs, ScheduleAssumption
<1>2. CASE s = "shamir"
  <2>1. ks \in (0..twoTo[BITS] - 1) \X (0..twoTo[BITS] - 1)
    BY <1>2 DEF Fits
  <2>2. Len(ks) = 2 /\ ks[1] \in 0..twoTo[BITS] - 1 /\ ks[2] \in 0..twoTo[BITS] - 1
    BY <2>1
  <2>3. /\ Scalar(ks, 1) = ks[1] /\ Scalar(ks, 2) = ks[2] /\ Scalar(ks, 3) = 0 /\ Scalar(ks, 4) = 0
        /\ PointCount(s) = 2 /\ Size(s) = BITS
    BY <1>2, <2>2 DEF Scalar, PointCount, Size
  <2> QED
    BY <1>1, <2>2, <2>3
<1>3. CASE s # "shamir"
  <2> DEFINE M == 0..twoTo[ITERS] - 1
  <2>1. ks \in M \X M \X M \X M
    BY <1>3 DEF Fits
  <2>2. Len(ks) = 4 /\ ks[1] \in M /\ ks[2] \in M /\ ks[3] \in M /\ ks[4] \in M
    BY <2>1
  <2>3. /\ Scalar(ks, 1) = ks[1] /\ Scalar(ks, 2) = ks[2] /\ Scalar(ks, 3) = ks[3] /\ Scalar(ks, 4) = ks[4]
        /\ PointCount(s) = 4 /\ Size(s) = ITERS
    BY <1>3, <2>2 DEF Scalar, PointCount, Size
  <2> QED
    BY <1>1, <2>2, <2>3
<1> QED
  BY <1>2, <1>3

LEMMA NoBit == ASSUME NEW i \in Nat PROVE bit(0, i) = 0
<1>1. PICK m \in Nat \ {0} : m = twoTo[i]
  BY TwoToIs
<1>2. 0 \div m = 0 /\ 0 % 2 = 0
  OBVIOUS
<1> QED
  BY <1>1, <1>2 DEF bit

LEMMA DigitsAre ==
  ASSUME NEW b1 \in {0, 1}, NEW b2 \in {0, 1}, NEW b3 \in {0, 1}, NEW b4 \in {0, 1},
         NEW idx, idx = b1 + 2 * b2 + (4 * b3 + 8 * b4)
  PROVE  bit(idx, 0) = b1 /\ bit(idx, 1) = b2 /\ bit(idx, 2) = b3 /\ bit(idx, 3) = b4
<1>1. twoTo[0] = 1 /\ twoTo[1] = 2 /\ twoTo[2] = 4 /\ twoTo[3] = 8
  <2>1. twoTo[0 + 1] = 2 * twoTo[0] /\ twoTo[1 + 1] = 2 * twoTo[1] /\ twoTo[2 + 1] = 2 * twoTo[2] /\ twoTo[0] = 1
    BY TwoToIs
  <2> QED
    BY <2>1
<1>2. /\ bit(idx, 0) = (idx \div 1) % 2 /\ bit(idx, 1) = (idx \div 2) % 2
      /\ bit(idx, 2) = (idx \div 4) % 2 /\ bit(idx, 3) = (idx \div 8) % 2
  BY <1>1 DEF bit
<1>3. idx \in 0..15
  OBVIOUS
<1>4. (idx \div 1) % 2 = b1
  OBVIOUS
<1>5. (idx \div 2) % 2 = b2
  OBVIOUS
<1>6. (idx \div 4) % 2 = b3
  OBVIOUS
<1>7. (idx \div 8) % 2 = b4
  OBVIOUS
<1> QED
  BY <1>2, <1>4, <1>5, <1>6, <1>7

LEMMA TableIs ==
  ASSUME NEW v \in VKS, NEW s \in Schedules, NEW g \in 0..groups(s)-1, NEW idx \in 1..15,
         PointCount(s) = 2 => idx < 4
  PROVE  Tables[<<v, s, g, idx>>] = entry(v, s, g, idx)
<1>1. GROUPS \in Nat \ {0} /\ groups(s) \in Nat \ {0} /\ groups(s) <= GROUPS
  BY ScheduleAssumption DEF groups
<1>2. g \in 0..GROUPS - 1 /\ g < groups(s)
  BY <1>1
<1>3. twoTo[2] = 4 /\ twoTo[4] = 16
  <2>1. twoTo[0 + 1] = 2 * twoTo[0] /\ twoTo[1 + 1] = 2 * twoTo[1] /\ twoTo[2 + 1] = 2 * twoTo[2]
        /\ twoTo[3 + 1] = 2 * twoTo[3] /\ twoTo[0] = 1
    BY TwoToIs
  <2> QED
    BY <2>1
<1>4. idx < twoTo[Len(bases(v, s))]
  <2>1. Len(bases(v, s)) = PointCount(s)
    BY BasesAre
  <2> QED
    BY <1>3, <2>1 DEF PointCount
<1> DEFINE all == {<<a, b, c, d>> : a \in VKS, b \in Schedules, c \in 0..GROUPS - 1, d \in 1..15}
           ok(e) == e[3] < groups(e[2]) /\ e[4] < twoTo[Len(bases(e[1], e[2]))]
           at(e) == entry(e[1], e[2], e[3], e[4])
           Entries == {e \in all : ok(e)}
<1>5. <<v, s, g, idx>> \in all
  BY <1>2
<1>6. ok(<<v, s, g, idx>>)
  BY <1>2, <1>4
<1>7. at(<<v, s, g, idx>>) = entry(v, s, g, idx)
  OBVIOUS
<1>8. Tables = [e \in Entries |-> at(e)]
  BY DEF Tables
<1> HIDE DEF all, ok, at
<1>9. <<v, s, g, idx>> \in Entries
  BY <1>5, <1>6
<1> HIDE DEF Entries
<1>10. PICK e \in Entries : e = <<v, s, g, idx>>
  BY <1>9
<1>11. Tables[e] = at(e)
  BY <1>8
<1> QED
  BY <1>7, <1>10, <1>11, Zenon

LEMMA SelectIs ==
  ASSUME NEW v \in VKS, NEW s \in Schedules, NEW ks, Fits(s, ks), NEW g \in 0..groups(s)-1,
         NEW i \in Nat
  PROVE  select(v, s, g, index(ks, i)) = multiply(twoTo[g * width(s)] * At(v, s, ks, i))
<1>1. \A l \in 1..4 : Scalar(ks, l) \in Nat
  BY FitsIs
<1>2. PICK b1 \in {0, 1} : b1 = bit(Scalar(ks, 1), i)
  BY <1>1, BitIs
<1>3. PICK b2 \in {0, 1} : b2 = bit(Scalar(ks, 2), i)
  BY <1>1, BitIs
<1>4. PICK b3 \in {0, 1} : b3 = bit(Scalar(ks, 3), i)
  BY <1>1, BitIs
<1>5. PICK b4 \in {0, 1} : b4 = bit(Scalar(ks, 4), i)
  BY <1>1, BitIs
<1>6. At(v, s, ks, i) = Mix(Coef(v, s), b1, b2, b3, b4)
  BY <1>2, <1>3, <1>4, <1>5 DEF At
<1>7. PICK idx \in 0..15 : idx = b1 + 2 * b2 + (4 * b3 + 8 * b4)
  OBVIOUS
<1>8. index(ks, i) = idx /\ (PointCount(s) = 2 => idx < 4)
  <2>1. CASE s = "shamir"
    <3>1. PointCount(s) = 2 /\ Len(ks) = 2 /\ Scalar(ks, 3) = 0 /\ Scalar(ks, 4) = 0
      BY <2>1, FitsIs DEF PointCount, Scalar
    <3>2. b3 = 0 /\ b4 = 0
      BY <1>4, <1>5, <3>1, NoBit
    <3>3. Scalar(ks, 1) = ks[1] /\ Scalar(ks, 2) = ks[2]
      BY <3>1 DEF Scalar
    <3>4. index(ks, i) = b1 + 2 * b2 + 0
      BY <1>2, <1>3, <3>1, <3>3 DEF index
    <3> QED
      BY <1>7, <3>1, <3>2, <3>4
  <2>2. CASE s # "shamir"
    <3>1. PointCount(s) = 4 /\ Len(ks) = 4
      BY <2>2, FitsIs DEF PointCount
    <3>2. Scalar(ks, 1) = ks[1] /\ Scalar(ks, 2) = ks[2] /\ Scalar(ks, 3) = ks[3] /\ Scalar(ks, 4) = ks[4]
      BY <3>1 DEF Scalar
    <3>3. index(ks, i) = b1 + 2 * b2 + (4 * b3 + 8 * b4)
      BY <1>2, <1>3, <1>4, <1>5, <3>1, <3>2 DEF index
    <3> QED
      BY <1>7, <3>1, <3>3
  <2> QED
    BY <2>1, <2>2
<1>9. CASE idx = 0
  <2>1. b1 = 0 /\ b2 = 0 /\ b3 = 0 /\ b4 = 0
    BY <1>7, <1>9
  <2>2. PICK d1, d2, d3, d4 \in Int : /\ d1 = Coef(v, s)[1] /\ d2 = Coef(v, s)[2]
                                      /\ d3 = Coef(v, s)[3] /\ d4 = Coef(v, s)[4]
    BY CoefIs
  <2>3. d1 * b1 + d2 * b2 + d3 * b3 + d4 * b4 = 0
    BY <2>1
  <2>4. At(v, s, ks, i) = 0
    BY <1>6, <2>2, <2>3 DEF Mix
  <2>5. twoTo[g * width(s)] * 0 = 0
    <3>1. g * width(s) \in Nat
      BY WidthIs
    <3>2. twoTo[g * width(s)] \in Nat
      BY <3>1, TwoToIs
    <3> QED
      BY <3>2
  <2>6. select(v, s, g, index(ks, i)) = ZERO
    BY <1>8, <1>9 DEF select
  <2> QED
    BY <2>4, <2>5, <2>6, ZeroIs
<1>10. CASE idx # 0
  <2>1. idx \in 1..15 /\ idx \in Nat /\ g \in Nat
    BY <1>10, WidthIs
  <2>2. select(v, s, g, index(ks, i)) = entry(v, s, g, idx)
    BY <1>8, <1>10, <2>1, TableIs DEF select
  <2>3. bit(idx, 0) = b1 /\ bit(idx, 1) = b2 /\ bit(idx, 2) = b3 /\ bit(idx, 3) = b4
    BY <1>7, DigitsAre
  <2> QED
    BY <1>6, <2>1, <2>2, <2>3, EntryIs
<1> QED
  BY <1>9, <1>10
\* What the first g groups add at position i of each, and the multiple that
\* the accumulator is once j positions are done.
Part(v, s, ks, i, g) ==
  LET u(l) == Weigh(groups(s), width(s), BitsAt(Scalar(ks, l), groups(s), width(s), i))[g]
  IN  Mix(Coef(v, s), u(1), u(2), u(3), u(4))
Expo(v, s, ks, j) ==
  LET u(l) == Weigh(groups(s), width(s), Done(Scalar(ks, l), groups(s), width(s), j))[groups(s)]
  IN  Mix(Coef(v, s), u(1), u(2), u(3), u(4))

LEMMA MixZero == ASSUME NEW d \in Int \X Int \X Int \X Int PROVE Mix(d, 0, 0, 0, 0) = 0
<1>1. PICK d1, d2, d3, d4 \in Int : d1 = d[1] /\ d2 = d[2] /\ d3 = d[3] /\ d4 = d[4]
  OBVIOUS
<1>2. d1 * 0 + d2 * 0 + d3 * 0 + d4 * 0 = 0
  OBVIOUS
<1> QED
  BY <1>1, <1>2 DEF Mix

LEMMA PartIs ==
  ASSUME NEW v \in VKS, NEW s \in Schedules, NEW ks, Fits(s, ks), NEW i \in Nat
  PROVE  /\ \A g \in 0..groups(s) : Part(v, s, ks, i, g) \in Int
         /\ Part(v, s, ks, i, 0) = 0
         /\ \A g \in 0..groups(s)-1 :
              Part(v, s, ks, i, g + 1)
                = Part(v, s, ks, i, g) + twoTo[g * width(s)] * At(v, s, ks, i + g * width(s))
<1>1. PICK n \in Nat \ {0} : n = groups(s)
  BY WidthIs
<1>2. PICK wd \in Nat : wd = width(s)
  BY WidthIs
<1>3. PICK d \in Int \X Int \X Int \X Int : d = Coef(v, s)
  BY CoefIs
<1>c. n = groups(s) /\ wd = width(s) /\ d = Coef(v, s)
  BY <1>1, <1>2, <1>3
<1> DEFINE c(l) == BitsAt(Scalar(ks, l), n, wd, i)
           u(l) == Weigh(n, wd, c(l))
<1>4. ASSUME NEW l \in 1..4
      PROVE  /\ u(l) \in [0..n -> Nat] /\ u(l)[0] = 0
             /\ \A g \in 0..n-1 : u(l)[g + 1] = u(l)[g] + twoTo[g * wd] * bit(Scalar(ks, l), i + g * wd)
  <2>1. PICK x \in Nat : x = Scalar(ks, l)
    BY FitsIs
  <2>2. BitsAt(x, n, wd, i) \in [0..n-1 -> Nat]
    BY DoneIs
  <2>3. PICK y \in [0..n-1 -> Nat] : y = BitsAt(x, n, wd, i)
    BY <2>2
  <2>4. /\ Weigh(n, wd, y) \in [0..n -> Nat] /\ Weigh(n, wd, y)[0] = 0
        /\ \A g \in 0..n-1 : Weigh(n, wd, y)[g + 1] = Weigh(n, wd, y)[g] + twoTo[g * wd] * y[g]
    BY WeighIs
  <2>5. \A g \in 0..n-1 : y[g] = bit(x, i + g * wd)
    BY <2>3 DEF BitsAt
  <2> QED
    BY <2>1, <2>3, <2>4, <2>5
<1>5. ASSUME NEW g \in 0..n PROVE Part(v, s, ks, i, g) = Mix(d, u(1)[g], u(2)[g], u(3)[g], u(4)[g])
  BY <1>c DEF Part, u
<1> HIDE DEF u
<1>a. ASSUME NEW l \in 1..4, NEW g \in 0..n PROVE u(l)[g] \in Int
  <2>1. u(l) \in [0..n -> Nat]
    BY <1>4
  <2>2. u(l)[g] \in Nat
    BY <2>1
  <2> QED
    BY <2>2
<1>b. ASSUME NEW l \in 1..4, NEW g \in 0..n-1, NEW t, t = twoTo[g * wd], NEW p \in Nat,
             p = i + g * wd
      PROVE  \E x, y \in Int : x = u(l)[g] /\ y = bit(Scalar(ks, l), p) /\ u(l)[g + 1] = x + t * y
  <2>1. PICK y \in Int : y = bit(Scalar(ks, l), p)
    BY FitsIs, BitIs
  <2>2. PICK x \in Int : x = u(l)[g]
    BY <1>a
  <2>3. u(l)[g + 1] = u(l)[g] + t * bit(Scalar(ks, l), p)
    BY <1>4, <1>b
  <2> QED
    BY <2>1, <2>2, <2>3
<1>6. ASSUME NEW g \in 0..n PROVE Part(v, s, ks, i, g) \in Int
  <2>1. PICK x1 \in Int : x1 = u(1)[g]
    BY <1>a
  <2>2. PICK x2 \in Int : x2 = u(2)[g]
    BY <1>a
  <2>3. PICK x3 \in Int : x3 = u(3)[g]
    BY <1>a
  <2>4. PICK x4 \in Int : x4 = u(4)[g]
    BY <1>a
  <2>5. PICK o \in Int : o = 1
    OBVIOUS
  <2>6. Mix(d, x1, x2, x3, x4) \in Int
    BY MixLinear, <2>5
  <2> QED
    BY <1>5, <2>1, <2>2, <2>3, <2>4, <2>6
<1>7. Part(v, s, ks, i, 0) = 0
  <2>1. 0 \in 0..n /\ u(1)[0] = 0 /\ u(2)[0] = 0 /\ u(3)[0] = 0 /\ u(4)[0] = 0
    BY <1>4
  <2> QED
    BY <1>5, <2>1, MixZero
<1>8. ASSUME NEW g \in 0..n-1
      PROVE  Part(v, s, ks, i, g + 1) = Part(v, s, ks, i, g) + twoTo[g * wd] * At(v, s, ks, i + g * wd)
  <2>1. g \in 0..n /\ g + 1 \in 0..n
    OBVIOUS
  <2>2. g * wd \in Nat
    OBVIOUS
  <2>3. PICK p \in Nat : p = i + g * wd
    BY <2>2
  <2>4. PICK t \in Int : t = twoTo[g * wd]
    BY <2>2, TwoToIs
  <2>5. PICK x1, y1 \in Int : x1 = u(1)[g] /\ y1 = bit(Scalar(ks, 1), p) /\ u(1)[g + 1] = x1 + t * y1
    <3>1. PICK l \in 1..4 : l = 1
      OBVIOUS
    <3> QED
      BY <1>b, <2>3, <2>4, <3>1
  <2>6. PICK x2, y2 \in Int : x2 = u(2)[g] /\ y2 = bit(Scalar(ks, 2), p) /\ u(2)[g + 1] = x2 + t * y2
    <3>1. PICK l \in 1..4 : l = 2
      OBVIOUS
    <3> QED
      BY <1>b, <2>3, <2>4, <3>1
  <2>7. PICK x3, y3 \in Int : x3 = u(3)[g] /\ y3 = bit(Scalar(ks, 3), p) /\ u(3)[g + 1] = x3 + t * y3
    <3>1. PICK l \in 1..4 : l = 3
      OBVIOUS
    <3> QED
      BY <1>b, <2>3, <2>4, <3>1
  <2>8. PICK x4, y4 \in Int : x4 = u(4)[g] /\ y4 = bit(Scalar(ks, 4), p) /\ u(4)[g + 1] = x4 + t * y4
    <3>1. PICK l \in 1..4 : l = 4
      OBVIOUS
    <3> QED
      BY <1>b, <2>3, <2>4, <3>1
  <2>9. PICK o \in Int : o = 1
    OBVIOUS
  <2>10. /\ Mix(d, x1, x2, x3, x4) \in Int /\ Mix(d, y1, y2, y3, y4) \in Int
         /\ Mix(d, o * x1 + t * y1, o * x2 + t * y2, o * x3 + t * y3, o * x4 + t * y4)
              = o * Mix(d, x1, x2, x3, x4) + t * Mix(d, y1, y2, y3, y4)
    BY MixLinear
  <2>11. o * x1 = x1 /\ o * x2 = x2 /\ o * x3 = x3 /\ o * x4 = x4
    BY <2>9
  <2>12. Mix(d, x1 + t * y1, x2 + t * y2, x3 + t * y3, x4 + t * y4)
           = Mix(d, x1, x2, x3, x4) + t * Mix(d, y1, y2, y3, y4)
    BY <2>9, <2>10, <2>11
  <2>13. At(v, s, ks, p) = Mix(d, y1, y2, y3, y4)
    BY <1>3, <2>5, <2>6, <2>7, <2>8 DEF At
  <2>14. Part(v, s, ks, i, g) = Mix(d, x1, x2, x3, x4)
    BY <1>5, <2>1, <2>5, <2>6, <2>7, <2>8
  <2>15. Part(v, s, ks, i, g + 1) = Mix(d, x1 + t * y1, x2 + t * y2, x3 + t * y3, x4 + t * y4)
    BY <1>5, <2>1, <2>5, <2>6, <2>7, <2>8
  <2> QED
    BY <2>3, <2>4, <2>12, <2>13, <2>14, <2>15
<1> QED
  BY <1>1, <1>2, <1>6, <1>7, <1>8

LEMMA ExpoIs ==
  ASSUME NEW v \in VKS, NEW s \in Schedules, NEW ks, Fits(s, ks)
  PROVE  /\ \A j \in 0..width(s) : Expo(v, s, ks, j) \in Int
         /\ Expo(v, s, ks, 0) = 0
         /\ Expo(v, s, ks, width(s))
              = Mix(Coef(v, s), Scalar(ks, 1), Scalar(ks, 2), Scalar(ks, 3), Scalar(ks, 4))
         /\ \A j \in 0..width(s) : j < width(s) =>
              Expo(v, s, ks, j + 1)
                = 2 * Expo(v, s, ks, j) + Part(v, s, ks, width(s) - (j + 1), groups(s))
<1>1. PICK n \in Nat \ {0} : n = groups(s)
  BY WidthIs
<1>2. PICK wd \in Nat : wd = width(s)
  BY WidthIs
<1>3. PICK d \in Int \X Int \X Int \X Int : d = Coef(v, s)
  BY CoefIs
<1>4. n \in 0..n
  OBVIOUS
<1> DEFINE u(l, j) == Weigh(n, wd, Done(Scalar(ks, l), n, wd, j))[n]
           p(l, i) == Weigh(n, wd, BitsAt(Scalar(ks, l), n, wd, i))[n]
<1>5. ASSUME NEW l \in 1..4
      PROVE  /\ u(l, 0) = 0 /\ u(l, wd) = Scalar(ks, l)
             /\ \A j \in 0..wd : u(l, j) \in Int
             /\ \A i \in Nat : p(l, i) \in Int
             /\ \A j \in 0..wd : j < wd => u(l, j + 1) = 2 * u(l, j) + p(l, wd - (j + 1))
  <2>1. PICK x \in Nat : x = Scalar(ks, l) /\ x < twoTo[n * wd]
    BY <1>1, <1>2, FitsIs, WidthIs
  <2>2. /\ Weigh(n, wd, Done(x, n, wd, 0))[n] = 0
        /\ x < twoTo[n * wd] => Weigh(n, wd, Done(x, n, wd, wd))[n] = x
        /\ \A j \in 0..wd : j < wd =>
             Weigh(n, wd, Done(x, n, wd, j + 1))[n]
               = 2 * Weigh(n, wd, Done(x, n, wd, j))[n] + Weigh(n, wd, BitsAt(x, n, wd, wd - (j + 1)))[n]
    BY SumDone
  <2>3. ASSUME NEW y \in [0..n-1 -> Nat] PROVE Weigh(n, wd, y)[n] \in Int
    <3>1. Weigh(n, wd, y) \in [0..n -> Nat]
      BY WeighIs
    <3> QED
      BY <1>4, <3>1
  <2>4. \A j \in 0..wd : Weigh(n, wd, Done(x, n, wd, j))[n] \in Int
    BY <2>3, DoneIs
  <2>5. \A i \in Nat : Weigh(n, wd, BitsAt(x, n, wd, i))[n] \in Int
    BY <2>3, DoneIs
  <2> QED
    BY <2>1, <2>2, <2>4, <2>5
<1>6. \A j \in 0..wd : Expo(v, s, ks, j) = Mix(d, u(1, j), u(2, j), u(3, j), u(4, j))
  BY <1>1, <1>2, <1>3 DEF Expo
<1>7. \A i \in Nat : Part(v, s, ks, i, n) = Mix(d, p(1, i), p(2, i), p(3, i), p(4, i))
  BY <1>1, <1>2, <1>3 DEF Part
<1> HIDE DEF u, p
<1>8. ASSUME NEW j \in 0..wd PROVE Expo(v, s, ks, j) \in Int
  <2>1. PICK x1 \in Int : x1 = u(1, j)
    BY <1>5
  <2>2. PICK x2 \in Int : x2 = u(2, j)
    BY <1>5
  <2>3. PICK x3 \in Int : x3 = u(3, j)
    BY <1>5
  <2>4. PICK x4 \in Int : x4 = u(4, j)
    BY <1>5
  <2>5. PICK o \in Int : o = 1
    OBVIOUS
  <2>6. Mix(d, x1, x2, x3, x4) \in Int
    BY MixLinear, <2>5
  <2> QED
    BY <1>6, <2>1, <2>2, <2>3, <2>4, <2>6
<1>9. Expo(v, s, ks, 0) = 0
  <2>1. 0 \in 0..wd /\ u(1, 0) = 0 /\ u(2, 0) = 0 /\ u(3, 0) = 0 /\ u(4, 0) = 0
    BY <1>5
  <2> QED
    BY <1>6, <2>1, MixZero
<1>10. Expo(v, s, ks, wd) = Mix(d, Scalar(ks, 1), Scalar(ks, 2), Scalar(ks, 3), Scalar(ks, 4))
  <2>1. wd \in 0..wd
    OBVIOUS
  <2>2. /\ u(1, wd) = Scalar(ks, 1) /\ u(2, wd) = Scalar(ks, 2)
        /\ u(3, wd) = Scalar(ks, 3) /\ u(4, wd) = Scalar(ks, 4)
    BY <1>5
  <2> QED
    BY <1>6, <2>1, <2>2
<1>11. ASSUME NEW j \in 0..wd, j < wd
       PROVE  Expo(v, s, ks, j + 1) = 2 * Expo(v, s, ks, j) + Part(v, s, ks, wd - (j + 1), n)
  <2>1. j + 1 \in 0..wd
    BY <1>11
  <2>2. PICK i \in Nat : i = wd - (j + 1)
    BY <2>1
  <2>3. PICK x1 \in Int : x1 = u(1, j)
    BY <1>5
  <2>4. PICK x2 \in Int : x2 = u(2, j)
    BY <1>5
  <2>5. PICK x3 \in Int : x3 = u(3, j)
    BY <1>5
  <2>6. PICK x4 \in Int : x4 = u(4, j)
    BY <1>5
  <2>7. PICK y1 \in Int : y1 = p(1, i)
    BY <1>5
  <2>8. PICK y2 \in Int : y2 = p(2, i)
    BY <1>5
  <2>9. PICK y3 \in Int : y3 = p(3, i)
    BY <1>5
  <2>10. PICK y4 \in Int : y4 = p(4, i)
    BY <1>5
  <2>11. PICK m \in Int : m = 2
    OBVIOUS
  <2>12. PICK o \in Int : o = 1
    OBVIOUS
  <2>13. /\ u(1, j + 1) = m * x1 + o * y1 /\ u(2, j + 1) = m * x2 + o * y2
         /\ u(3, j + 1) = m * x3 + o * y3 /\ u(4, j + 1) = m * x4 + o * y4
    <3>1. /\ u(1, j + 1) = 2 * u(1, j) + p(1, wd - (j + 1)) /\ u(2, j + 1) = 2 * u(2, j) + p(2, wd - (j + 1))
          /\ u(3, j + 1) = 2 * u(3, j) + p(3, wd - (j + 1)) /\ u(4, j + 1) = 2 * u(4, j) + p(4, wd - (j + 1))
      BY <1>5, <1>11
    <3>2. o * y1 = y1 /\ o * y2 = y2 /\ o * y3 = y3 /\ o * y4 = y4
      BY <2>12
    <3> QED
      BY <3>1, <3>2, <2>2, <2>3, <2>4, <2>5, <2>6, <2>7, <2>8, <2>9, <2>10, <2>11
  <2>14. /\ Mix(d, x1, x2, x3, x4) \in Int /\ Mix(d, y1, y2, y3, y4) \in Int
         /\ Mix(d, m * x1 + o * y1, m * x2 + o * y2, m * x3 + o * y3, m * x4 + o * y4)
              = m * Mix(d, x1, x2, x3, x4) + o * Mix(d, y1, y2, y3, y4)
    BY MixLinear
  <2>15. Expo(v, s, ks, j + 1) = Mix(d, m * x1 + o * y1, m * x2 + o * y2, m * x3 + o * y3, m * x4 + o * y4)
    BY <1>6, <2>1, <2>13
  <2>16. Expo(v, s, ks, j) = Mix(d, x1, x2, x3, x4)
    BY <1>6, <2>3, <2>4, <2>5, <2>6
  <2>17. Part(v, s, ks, i, n) = Mix(d, y1, y2, y3, y4)
    BY <1>7, <2>7, <2>8, <2>9, <2>10
  <2> QED
    BY <2>2, <2>11, <2>12, <2>14, <2>15, <2>16, <2>17
<1> QED
  BY <1>1, <1>2, <1>3, <1>8, <1>9, <1>10, <1>11
(***************************************************************************)
(* A chunk's loop.                                                         *)
(***************************************************************************)
LEMMA AddIsSound ==
  ASSUME NEW s \in Schedules, NEW e \in Int, NEW f \in Int, NEW p, Sound(p, multiply(e)),
         multiply(f) # ZERO
  PROVE  Sound(jacAdd(s, p, multiply(f)), multiply(e + f))
<1>1. PICK a \in Group : a = multiply(e)
  BY MultiplesAre
<1>2. PICK b \in Points : b = multiply(f)
  BY MultiplesAre
<1>3. add(a, b) = multiply(e + f)
  BY <1>1, <1>2, SumOfMultiples
<1>4. Sound(jacAddAffine(p, b), add(a, b)) /\ Sound(jacAddGrouped(p, b), add(a, b))
  BY <1>1, JacAddAffineIs, JacAddGroupedIs
<1> QED
  BY <1>2, <1>3, <1>4 DEF jacAdd

LEMMA AddedIsSound ==
  ASSUME NEW s \in Schedules, NEW e \in Int, NEW f \in Int, NEW p, Sound(p, multiply(e))
  PROVE  Sound(added(s, p, multiply(f)), multiply(e + f))
<1>1. CASE multiply(f) = ZERO
  <2>1. added(s, p, multiply(f)) = p
    BY <1>1 DEF added, ZERO
  <2>2. add(multiply(e), multiply(f)) = multiply(e + f) /\ multiply(e) \in Group
    BY SumOfMultiples, MultiplesAre
  <2>3. add(multiply(e), ZERO) = multiply(e)
    BY <2>2, ZeroIs
  <2> QED
    BY <1>1, <2>1, <2>2, <2>3
<1>2. CASE multiply(f) # ZERO
  <2>1. PICK b \in Points : b = multiply(f)
    BY <1>2, MultiplesAre
  <2>2. b[1] # 0
    BY CurveIs
  <2>3. added(s, p, multiply(f)) = jacAdd(s, p, multiply(f))
    BY <2>1, <2>2 DEF added
  <2> QED
    BY <1>2, <2>3, AddIsSound
<1> QED
  BY <1>1, <1>2

LEMMA DoubledIsSound ==
  ASSUME NEW s \in Schedules, NEW e \in Int, NEW p, Sound(p, multiply(e))
  PROVE  Sound(doubled(s, p), multiply(2 * e))
<1>1. PICK a \in Group : a = multiply(e) /\ Sound(p, a)
  BY MultiplesAre
<1>2. add(a, a) = multiply(2 * e)
  <2>1. add(multiply(e), multiply(e)) = multiply(e + e) /\ e + e = 2 * e
    BY SumOfMultiples
  <2> QED
    BY <1>1, <2>1
<1>3. CASE a = ZERO
  <2>1. p[3] = 0
    BY <1>1, <1>3, SoundIs
  <2>2. add(a, a) = a
    BY <1>3, ZeroIs
  <2> QED
    BY <1>1, <1>2, <2>1, <2>2 DEF doubled
<1>4. CASE a # ZERO
  <2>1. a \in Points /\ p[3] # 0
    BY <1>1, <1>4, SoundIs DEF Group
  <2>2. Stands(p, a)
    BY <1>1 DEF Sound
  <2>3. Sound(jacDouble(p), add(a, a)) /\ Sound(jacDoubleGrouped(p), add(a, a))
    BY <2>1, <2>2, DoubleIsSound
  <2> QED
    BY <1>2, <2>1, <2>3 DEF doubled, jacDbl
<1> QED
  BY <1>3, <1>4

\* The points that are some multiple of BASE.
Reached == {p \in Triple : \E e \in Int : Sound(p, multiply(e))}

LEMMA ReachedIs ==
  /\ \A p, e : e \in Int /\ Sound(p, multiply(e)) => p \in Reached
  /\ \A p \in Reached : \E e \in Int : Sound(p, multiply(e))
  BY DEF Reached, Sound, Stands

LEMMA AddGroupsIs ==
  ASSUME NEW v \in VKS, NEW s \in Schedules, NEW ks, Fits(s, ks), NEW i \in Nat,
         NEW e \in Int, NEW p, Sound(p, multiply(e))
  PROVE  Sound(addGroups(v, s, ks, i, p), multiply(e + Part(v, s, ks, i, groups(s))))
<1>1. PICK n \in Nat \ {0} : n = groups(s)
  BY WidthIs
<1>2. PICK wd \in Nat : wd = width(s)
  BY WidthIs
<1> DEFINE point(g) == select(v, s, g - 1, index(ks, i + (g - 1) * width(s)))
           step(x, g) == added(s, x, point(g))
           F == [y \in Reached \X (1..n) |-> step(y[1], y[2])]
<1>3. ASSUME NEW g \in 0..n-1
      PROVE  /\ i + g * wd \in Nat /\ twoTo[g * wd] * At(v, s, ks, i + g * wd) \in Int
             /\ select(v, s, g, index(ks, i + g * wd)) = multiply(twoTo[g * wd] * At(v, s, ks, i + g * wd))
             /\ Part(v, s, ks, i, g + 1) = Part(v, s, ks, i, g) + twoTo[g * wd] * At(v, s, ks, i + g * wd)
  <2>1. g * wd \in Nat
    OBVIOUS
  <2>2. PICK j \in Nat : j = i + g * wd
    BY <2>1
  <2>3. select(v, s, g, index(ks, j)) = multiply(twoTo[g * wd] * At(v, s, ks, j))
    BY <1>1, <1>2, SelectIs
  <2>4. Part(v, s, ks, i, g + 1) = Part(v, s, ks, i, g) + twoTo[g * wd] * At(v, s, ks, j)
    BY <1>1, <1>2, <2>2, PartIs
  <2>5. twoTo[g * wd] \in Int
    BY <2>1, TwoToIs
  <2>6. At(v, s, ks, j) \in Int
    <3>1. PICK b1 \in Int : b1 = bit(Scalar(ks, 1), j)
      BY FitsIs, BitIs
    <3>2. PICK b2 \in Int : b2 = bit(Scalar(ks, 2), j)
      BY FitsIs, BitIs
    <3>3. PICK b3 \in Int : b3 = bit(Scalar(ks, 3), j)
      BY FitsIs, BitIs
    <3>4. PICK b4 \in Int : b4 = bit(Scalar(ks, 4), j)
      BY FitsIs, BitIs
    <3>5. PICK d \in Int \X Int \X Int \X Int : d = Coef(v, s)
      BY CoefIs
    <3>6. PICK o \in Int : o = 1
      OBVIOUS
    <3>7. Mix(d, b1, b2, b3, b4) \in Int
      BY <3>6, MixLinear
    <3> QED
      BY <3>1, <3>2, <3>3, <3>4, <3>5, <3>7 DEF At
  <2>7. PICK x, y \in Int : x = twoTo[g * wd] /\ y = At(v, s, ks, j)
    BY <2>5, <2>6
  <2>8. x * y \in Int
    OBVIOUS
  <2> QED
    BY <2>2, <2>3, <2>4, <2>7, <2>8
<1>4. ASSUME NEW g \in 0..n-1, NEW x, NEW f \in Int, Sound(x, multiply(f))
      PROVE  Sound(step(x, g + 1), multiply(f + twoTo[g * wd] * At(v, s, ks, i + g * wd)))
  <2>1. (g + 1) - 1 = g
    OBVIOUS
  <2>2. step(x, g + 1) = added(s, x, select(v, s, g, index(ks, i + g * wd)))
    BY <1>2, <2>1
  <2>3. PICK c \in Int : c = twoTo[g * wd] * At(v, s, ks, i + g * wd)
    BY <1>3
  <2>4. Sound(added(s, x, multiply(c)), multiply(f + c))
    BY <1>4, AddedIsSound
  <2> QED
    BY <1>3, <2>2, <2>3, <2>4
<1> HIDE DEF step
<1>5. \A x \in Reached, g \in 1..n : F[<<x, g>>] = step(x, g)
  OBVIOUS
<1> HIDE DEF F
<1>6. ASSUME NEW x \in Reached, NEW g \in 1..n PROVE step(x, g) \in Reached
  <2>1. PICK f \in Int : Sound(x, multiply(f))
    BY ReachedIs
  <2>2. PICK h \in 0..n-1 : h + 1 = g
    <3>1. g - 1 \in 0..n-1 /\ (g - 1) + 1 = g
      OBVIOUS
    <3> QED
      BY <3>1
  <2>3. PICK c \in Int : c = twoTo[h * wd] * At(v, s, ks, i + h * wd)
    BY <1>3
  <2>4. Sound(step(x, h + 1), multiply(f + c)) /\ f + c \in Int
    BY <1>4, <2>1, <2>3
  <2> QED
    BY <2>2, <2>4, ReachedIs
<1>7. StaysIn(F, Reached, n)
  BY <1>5, <1>6 DEF StaysIn
<1>8. p \in Reached
  BY ReachedIs
<1>9. PICK h \in [0..n -> Reached] : Follows(h, p, F, n)
  BY <1>7, <1>8, Recursion
<1>10. \A g \in 1..n : h[g] = step(h[g - 1], g)
  <2> SUFFICES ASSUME NEW g \in 1..n PROVE h[g] = step(h[g - 1], g)
    OBVIOUS
  <2>1. h[g - 1] \in Reached /\ h[g] = F[<<h[g - 1], g>>]
    BY <1>9 DEF Follows
  <2> QED
    BY <1>5, <2>1
<1>11. h = [g \in 0..n |-> IF g = 0 THEN p ELSE step(h[g - 1], g)]
  BY <1>9, <1>10 DEF Follows
<1>12. \E q : q = [g \in 0..n |-> IF g = 0 THEN p ELSE step(q[g - 1], g)] /\ addGroups(v, s, ks, i, p) = q[n]
  BY <1>1, <1>11 DEF addGroups, step
<1>13. PICK q : q = [g \in 0..n |-> IF g = 0 THEN p ELSE step(q[g - 1], g)] /\ addGroups(v, s, ks, i, p) = q[n]
  BY <1>12
<1>14. q[0] = p /\ \A g \in 1..n : q[g] = step(q[g - 1], g)
  BY <1>13
<1> DEFINE T == {g \in 0..n : Sound(q[g], multiply(e + Part(v, s, ks, i, g)))}
<1>15. 0 \in T
  <2>1. Part(v, s, ks, i, 0) = 0 /\ e + 0 = e /\ 0 \in 0..n
    BY PartIs
  <2> QED
    BY <1>14, <2>1
<1>16. ASSUME NEW g \in 0..n, g \in T, g < n PROVE g + 1 \in T
  <2>1. g \in 0..n-1 /\ g + 1 \in 1..n /\ (g + 1) - 1 = g /\ g + 1 \in 0..n
    BY <1>16
  <2>2. PICK y \in Int : y = Part(v, s, ks, i, g)
    BY <1>1, PartIs
  <2>3. PICK c \in Int : c = twoTo[g * wd] * At(v, s, ks, i + g * wd) /\ Part(v, s, ks, i, g + 1) = y + c
    BY <1>3, <2>1, <2>2
  <2>4. PICK f \in Int : f = e + y
    OBVIOUS
  <2>5. Sound(q[g], multiply(f))
    BY <1>16, <2>2, <2>4
  <2>6. Sound(step(q[g], g + 1), multiply(f + c))
    BY <1>4, <2>1, <2>3, <2>5
  <2>7. f + c = e + Part(v, s, ks, i, g + 1)
    BY <2>3, <2>4
  <2>8. q[g + 1] = step(q[g], g + 1)
    BY <1>14, <2>1
  <2> QED
    BY <2>1, <2>6, <2>7, <2>8
<1> HIDE DEF T
<1>17. \A g \in 0..n : g \in T
  BY <1>15, <1>16, UpTo
<1>18. n \in 0..n
  OBVIOUS
<1> QED
  BY <1>1, <1>13, <1>17, <1>18 DEF T

\* A loop takes the multiple that positions 0..from-1 make to the one 0..to-1 do.
LEMMA LoopIs ==
  ASSUME NEW v \in VKS, NEW s \in Schedules, NEW ks, Fits(s, ks),
         NEW from \in 0..width(s), NEW to \in 0..width(s), from <= to,
         NEW p, Sound(p, multiply(Expo(v, s, ks, from)))
  PROVE  Sound(loop(v, s, ks, from, to, p), multiply(Expo(v, s, ks, to)))
<1>1. PICK wd \in Nat : wd = width(s)
  BY WidthIs
<1> DEFINE ex(j) == Expo(v, s, ks, j)
           step(x, j) == addGroups(v, s, ks, width(s) - j, doubled(s, x))
           F == [y \in Reached \X (from + 1..to) |-> step(y[1], y[2])]
<1>2. ASSUME NEW x, NEW e \in Int, Sound(x, multiply(e)), NEW j \in from + 1..to
      PROVE  /\ Part(v, s, ks, wd - j, groups(s)) \in Int
             /\ Sound(step(x, j), multiply(2 * e + Part(v, s, ks, wd - j, groups(s))))
  <2>1. PICK i \in Nat : i = wd - j
    BY <1>1
  <2>2. Sound(doubled(s, x), multiply(2 * e)) /\ 2 * e \in Int
    BY <1>2, DoubledIsSound
  <2>3. PICK f \in Int : f = 2 * e /\ Sound(doubled(s, x), multiply(f))
    BY <2>2
  <2>4. Sound(addGroups(v, s, ks, i, doubled(s, x)), multiply(f + Part(v, s, ks, i, groups(s))))
    BY <2>3, AddGroupsIs
  <2>5. Part(v, s, ks, i, groups(s)) \in Int
    BY WidthIs, PartIs
  <2> QED
    BY <1>1, <2>1, <2>3, <2>4, <2>5
<1> HIDE DEF step
<1>3. \A x \in Reached, j \in from + 1..to : F[<<x, j>>] = step(x, j)
  OBVIOUS
<1> HIDE DEF F
<1>4. ASSUME NEW x \in Reached, NEW j \in from + 1..to PROVE step(x, j) \in Reached
  <2>1. PICK e \in Int : Sound(x, multiply(e))
    BY ReachedIs
  <2>2. PICK c \in Int : c = Part(v, s, ks, wd - j, groups(s)) /\ Sound(step(x, j), multiply(2 * e + c))
    BY <1>2, <2>1
  <2>3. 2 * e + c \in Int
    OBVIOUS
  <2> QED
    BY <2>2, <2>3, ReachedIs
<1>5. StaysBetween(F, Reached, from, to)
  BY <1>3, <1>4 DEF StaysBetween
<1>6. from \in Nat /\ to \in Nat /\ p \in Reached
  <2>1. from \in Nat /\ to \in Nat
    BY <1>1
  <2>2. Expo(v, s, ks, from) \in Int
    BY ExpoIs
  <2> QED
    BY <2>1, <2>2, ReachedIs
<1>7. PICK h \in [from..to -> Reached] : FollowsBetween(h, p, F, from, to)
  BY <1>5, <1>6, RangeRecursion
<1>8. \A j \in from + 1..to : h[j] = step(h[j - 1], j)
  <2> SUFFICES ASSUME NEW j \in from + 1..to PROVE h[j] = step(h[j - 1], j)
    OBVIOUS
  <2>1. j - 1 \in from..to
    BY <1>6
  <2>2. h[j - 1] \in Reached /\ h[j] = F[<<h[j - 1], j>>]
    BY <1>7, <2>1 DEF FollowsBetween
  <2> QED
    BY <1>3, <2>2
<1>9. h = [j \in from..to |-> IF j = from THEN p ELSE step(h[j - 1], j)]
  <2>1. h[from] = p
    BY <1>7 DEF FollowsBetween
  <2>2. ASSUME NEW j \in from..to PROVE h[j] = IF j = from THEN p ELSE step(h[j - 1], j)
    <3>1. j = from \/ j \in from + 1..to
      BY <1>6
    <3>2. j \in from + 1..to => j # from
      BY <1>6
    <3> QED
      BY <1>8, <2>1, <3>1, <3>2
  <2> QED
    BY <1>7, <2>2
<1>10. \E q : q = [j \in from..to |-> IF j = from THEN p ELSE step(q[j - 1], j)] /\ loop(v, s, ks, from, to, p) = q[to]
  BY <1>9 DEF loop, step
<1>11. PICK q : q = [j \in from..to |-> IF j = from THEN p ELSE step(q[j - 1], j)] /\ loop(v, s, ks, from, to, p) = q[to]
  BY <1>10
<1>12. q[from] = p /\ \A j \in from + 1..to : q[j] = step(q[j - 1], j)
  <2>1. q[from] = p
    BY <1>6, <1>11
  <2>2. ASSUME NEW j \in from + 1..to PROVE q[j] = step(q[j - 1], j)
    <3>1. j \in from..to /\ j # from
      BY <1>6
    <3> QED
      BY <1>11, <3>1
  <2> QED
    BY <2>1, <2>2
<1> DEFINE T == {j \in from..to : Sound(q[j], multiply(ex(j)))}
<1> HIDE DEF ex
<1>13. from \in T
  BY <1>6, <1>12 DEF ex
<1>14. ASSUME NEW j \in from..to, j \in T, j < to PROVE j + 1 \in T
  <2>1. j + 1 \in from + 1..to /\ (j + 1) - 1 = j /\ j + 1 \in from..to /\ j \in 0..width(s) /\ j < width(s)
    BY <1>1, <1>6, <1>14
  <2>2. PICK e \in Int : e = ex(j) /\ Sound(q[j], multiply(e))
    BY <1>14, <2>1, ExpoIs DEF ex
  <2>3. Sound(step(q[j], j + 1), multiply(2 * e + Part(v, s, ks, wd - (j + 1), groups(s))))
    BY <1>2, <2>1, <2>2
  <2>4. ex(j + 1) = 2 * e + Part(v, s, ks, wd - (j + 1), groups(s))
    BY <1>1, <2>1, <2>2, ExpoIs DEF ex
  <2>5. q[j + 1] = step(q[j], j + 1)
    BY <1>12, <2>1
  <2> QED
    BY <2>1, <2>3, <2>4, <2>5
<1> HIDE DEF T
<1>15. \A j \in from..to : j \in T
  BY <1>6, <1>13, <1>14, FromTo
<1>16. to \in from..to
  BY <1>6
<1> QED
  BY <1>11, <1>15, <1>16 DEF T, ex
(***************************************************************************)
(* What a whole schedule computes, and the forms it is handed on in.       *)
(***************************************************************************)
\* What the first chunk commits to.
Committed(s, inputs, ks) ==
  /\ inputs \in INPUTS \X INPUTS
  /\ s = "shamir" => ks = inputs
  /\ s # "shamir" => /\ ks \in OFFERED \X OFFERED \X OFFERED \X OFFERED
                     /\ bindsWitness(ks[1], ks[2], inputs[1]) /\ bindsWitness(ks[3], ks[4], inputs[2])

LEMMA BindsIs ==
  ASSUME NEW k1 \in OFFERED, NEW k2 \in OFFERED, NEW i \in INPUTS, bindsWitness(k1, k2, i)
  PROVE  /\ k1 \in 0..twoTo[ITERS] - 1 /\ k2 \in 0..twoTo[ITERS] - 1
         /\ i \in 0..N-1 /\ Cong(N, k1 + k2 * LAM, i)
<1>1. i \in 0..N-1 /\ LAM \in Int /\ k1 \in Int /\ k2 \in Int
  BY ScheduleAssumption, EndomorphismAssumption, NIs
<1>2. twoTo[ITERS] \in Nat
  BY TwoToIs, ScheduleAssumption
<1>3. k1 >= 0 /\ k2 >= 0 /\ k1 < twoTo[ITERS] /\ k2 < twoTo[ITERS] /\ (k1 + k2 * LAM) % N = i
  BY DEF bindsWitness, GLV_BOUND
<1>4. PICK x \in Int : x = k1 + k2 * LAM
  BY <1>1
<1>5. Cong(N, x % N, x) /\ x % N \in Int
  BY CongRest, NIs
<1>6. Cong(N, x, x % N)
  BY <1>5, CongBack, NIs
<1> QED
  BY <1>1, <1>2, <1>3, <1>4, <1>6

LEMMA TotalIs ==
  ASSUME NEW v \in VKS, NEW s \in Schedules, NEW inputs, NEW ks, Committed(s, inputs, ks)
  PROVE  /\ Fits(s, ks)
         /\ Expo(v, s, ks, width(s)) \in Int
         /\ v[1] + inputs[1] * v[2] + inputs[2] * v[3] \in Int
         /\ multiply(Expo(v, s, ks, width(s)) + v[1]) = multiply(v[1] + inputs[1] * v[2] + inputs[2] * v[3])
<1>1. PICK v1, v2, v3 \in Int : v1 = v[1] /\ v2 = v[2] /\ v3 = v[3]
  BY KeyIs, NIs
<1>2. PICK i1, i2 \in INPUTS : i1 = inputs[1] /\ i2 = inputs[2] /\ inputs = <<i1, i2>>
  BY DEF Committed
<1>3. i1 \in 0..N-1 /\ i2 \in 0..N-1 /\ i1 \in Int /\ i2 \in Int
  BY ScheduleAssumption, NIs
<1>4. v1 + i1 * v2 + i2 * v3 \in Int
  BY <1>3
<1>5. CASE s = "shamir"
  <2>1. ks = <<i1, i2>>
    BY <1>2, <1>5 DEF Committed
  <2>2. i1 \in 0..twoTo[BITS] - 1 /\ i2 \in 0..twoTo[BITS] - 1
    <3>1. twoTo[BITS] \in Nat /\ N <= twoTo[BITS] /\ N \in Nat
      BY TwoToIs, ScheduleAssumption, NIs
    <3> QED
      BY <1>3, <3>1
  <2>3. Fits(s, ks)
    BY <1>5, <2>1, <2>2 DEF Fits
  <2>4. Scalar(ks, 1) = i1 /\ Scalar(ks, 2) = i2 /\ Scalar(ks, 3) = 0 /\ Scalar(ks, 4) = 0
    BY <2>1 DEF Scalar
  <2>5. Expo(v, s, ks, width(s)) = v2 * i1 + v3 * i2 + 0 * 0 + 0 * 0
    <3>1. Expo(v, s, ks, width(s)) = Mix(Coef(v, s), i1, i2, 0, 0)
      BY <2>3, <2>4, ExpoIs
    <3>2. Coef(v, s)[1] = v2 /\ Coef(v, s)[2] = v3 /\ Coef(v, s)[3] = 0 /\ Coef(v, s)[4] = 0
      BY <1>1, <1>5 DEF Coef
    <3> QED
      BY <3>1, <3>2 DEF Mix
  <2>6. v2 * i1 + v3 * i2 + 0 * 0 + 0 * 0 \in Int
        /\ v2 * i1 + v3 * i2 + 0 * 0 + 0 * 0 + v1 = v1 + i1 * v2 + i2 * v3
    BY <1>3
  <2> QED
    BY <1>1, <1>2, <1>4, <2>3, <2>5, <2>6
<1>6. CASE s # "shamir"
  <2>1. PICK k1, k2, k3, k4 \in OFFERED : /\ ks = <<k1, k2, k3, k4>>
                                          /\ bindsWitness(k1, k2, i1) /\ bindsWitness(k3, k4, i2)
    BY <1>2, <1>6 DEF Committed
  <2>2. /\ k1 \in 0..twoTo[ITERS] - 1 /\ k2 \in 0..twoTo[ITERS] - 1 /\ Cong(N, k1 + k2 * LAM, i1)
    BY <2>1, BindsIs
  <2>3. /\ k3 \in 0..twoTo[ITERS] - 1 /\ k4 \in 0..twoTo[ITERS] - 1 /\ Cong(N, k3 + k4 * LAM, i2)
    BY <2>1, BindsIs
  <2>4. Fits(s, ks)
    BY <1>6, <2>1, <2>2, <2>3 DEF Fits
  <2>5. Scalar(ks, 1) = k1 /\ Scalar(ks, 2) = k2 /\ Scalar(ks, 3) = k3 /\ Scalar(ks, 4) = k4
    BY <2>1 DEF Scalar
  <2>6. PICK la \in Int : la = LAM
    BY EndomorphismAssumption, NIs
  <2>7. k1 \in Int /\ k2 \in Int /\ k3 \in Int /\ k4 \in Int
    BY ScheduleAssumption
  <2>8. Expo(v, s, ks, width(s)) = v2 * k1 + la * v2 * k2 + v3 * k3 + la * v3 * k4
    <3>1. Expo(v, s, ks, width(s)) = Mix(Coef(v, s), k1, k2, k3, k4)
      BY <2>4, <2>5, ExpoIs
    <3>2. /\ Coef(v, s)[1] = v2 /\ Coef(v, s)[2] = la * v2
          /\ Coef(v, s)[3] = v3 /\ Coef(v, s)[4] = la * v3
      BY <1>1, <1>6, <2>6 DEF Coef
    <3> QED
      BY <3>1, <3>2 DEF Mix
  <2>9. PICK x \in Int : x = k1 + k2 * la /\ Cong(N, x, i1)
    BY <2>2, <2>6, <2>7
  <2>10. PICK y \in Int : y = k3 + k4 * la /\ Cong(N, y, i2)
    BY <2>3, <2>6, <2>7
  <2>11. Cong(N, x * v2, i1 * v2)
    BY <1>3, <2>9, CongProduct, CongSame, NIs
  <2>12. Cong(N, y * v3, i2 * v3)
    BY <1>3, <2>10, CongProduct, CongSame, NIs
  <2>13. PICK a, b, c, d \in Int : a = x * v2 /\ b = i1 * v2 /\ c = y * v3 /\ d = i2 * v3
    BY <1>3
  <2>14. Cong(N, v1 + a, v1 + b)
    BY <2>11, <2>13, CongSum, CongSame, NIs
  <2>15. PICK f, g \in Int : f = v1 + a /\ g = v1 + b
    OBVIOUS
  <2>16. Cong(N, f + c, g + d)
    BY <2>12, <2>13, <2>14, <2>15, CongSum, NIs
  <2>17. f + c \in Int /\ g + d \in Int
    OBVIOUS
  <2>18. multiply(f + c) = multiply(g + d)
    BY <2>16, <2>17, EqualMultiples
  <2>19. g + d = v1 + i1 * v2 + i2 * v3
    BY <2>13, <2>15
  <2>20. f + c = v2 * k1 + la * v2 * k2 + v3 * k3 + la * v3 * k4 + v1
    BY <2>7, <2>9, <2>10, <2>13, <2>15
  <2>21. v2 * k1 + la * v2 * k2 + v3 * k3 + la * v3 * k4 \in Int
    BY <2>7
  <2> QED
    BY <1>1, <1>2, <1>4, <2>4, <2>8, <2>18, <2>19, <2>20, <2>21
<1> QED
  BY <1>5, <1>6

LEMMA FoldedIs ==
  ASSUME NEW v \in VKS, NEW s \in Schedules, NEW inputs, NEW ks, Committed(s, inputs, ks),
         NEW p, Sound(p, multiply(Expo(v, s, ks, width(s))))
  PROVE  Sound(folded(v, s, p), multiply(v[1] + inputs[1] * v[2] + inputs[2] * v[3]))
<1>1. PICK e \in Int : e = Expo(v, s, ks, width(s)) /\ Sound(p, multiply(e))
  BY TotalIs
<1>2. PICK f \in Int : f = v[1] /\ f \in 1..N-1
  BY KeyIs, NIs
<1>3. multiply(f) # ZERO
  <2>1. f \in 0..N-1 /\ f # 0
    BY <1>2
  <2>2. f % N # 0
    BY <2>1, MultiplesAre
  <2> QED
    BY <2>2, MultiplesAre
<1>4. Sound(jacAdd(s, p, multiply(f)), multiply(e + f))
  BY <1>1, <1>3, AddIsSound
<1> QED
  BY <1>1, <1>2, <1>4, TotalIs DEF folded
\* The form a point is handed on in.
Handed(form, a) ==
  IF form = "unit" /\ a # ZERO
  THEN <<(-a[1] * modinv(2 * a[2])) % P, (-modinv(2 * a[2])) % P>>
  ELSE a

LEMMA ProductIs ==
  ASSUME NEW x \in 0..P, NEW y \in 0..P
  PROVE  /\ mulFp(x, y) \in Field /\ Same(mulFp(x, y), x * y) /\ mulFp(x, y) \in 0..P
         /\ sqrFp(x) \in Field /\ Same(sqrFp(x), x * x) /\ sqrFp(x) \in 0..P
         /\ subFp(0, x) \in Field /\ Same(subFp(0, x), 0 - x)
<1>1. x \in Nat /\ y \in Nat /\ x <= P /\ 0 \in Nat
  BY PIs
<1>2. mulFp(x, y) \in Field /\ Same(mulFp(x, y), x * y) /\ sqrFp(x) \in Field /\ Same(sqrFp(x), x * x)
  BY <1>1, Operations
<1>3. PICK z \in Nat : z = 0
  BY <1>1
<1>4. subFp(z, x) \in Field /\ Same(subFp(z, x), z - x)
  BY <1>1, Operations
<1>5. \A f \in Field : f \in 0..P
  BY PIs
<1> QED
  BY <1>2, <1>3, <1>4, <1>5

LEMMA AffineFormIs ==
  ASSUME NEW a \in Points, NEW p, Stands(p, a), NEW inv \in 0..P, mulFp(p[3], inv) = 1
  PROVE  <<mulFp(p[1], sqrFp(inv)), mulFp(p[2], mulFp(sqrFp(inv), inv))>> = a
<1>1. PICK x, y, z, X, Y \in Int : x = a[1] /\ y = a[2] /\ z = p[3] /\ X = p[1] /\ Y = p[2]
  BY StandsIs, CurveIs, PIs
<1>2. /\ Same(X, x * (z * z)) /\ Same(Y, y * (z * z * z)) /\ x \in Field /\ y \in Field /\ a = <<x, y>>
      /\ X \in 0..P /\ Y \in 0..P /\ z \in 0..P
  BY <1>1, StandsIs, CurveIs, PIs
<1>3. inv \in Int
  BY PIs
<1>4. PICK j, o \in Int : j = z * inv /\ o = 1 /\ Same(j, o)
  <2>1. Same(mulFp(z, inv), z * inv) /\ mulFp(z, inv) = 1
    BY <1>1, <1>2, ProductIs
  <2>2. PICK j \in Int : j = z * inv
    BY <1>3
  <2>3. PICK o \in Int : o = 1
    OBVIOUS
  <2>4. Same(o, j)
    BY <2>1, <2>2, <2>3
  <2>5. Same(j, o)
    BY <2>4, SameIs
  <2> QED
    BY <2>2, <2>3, <2>5
<1>5. PICK q \in 0..P : q = sqrFp(inv) /\ Same(q, inv * inv) /\ q \in Int
  BY ProductIs, PIs
<1>6. PICK c \in 0..P : c = mulFp(q, inv) /\ Same(c, q * inv) /\ c \in Int
  BY ProductIs, PIs
<1>7. PICK f \in Field : f = mulFp(X, q) /\ Same(f, X * q) /\ f \in Int
  BY <1>2, ProductIs, PIs
<1>8. PICK g \in Field : g = mulFp(Y, c) /\ Same(g, Y * c) /\ g \in Int
  BY <1>2, ProductIs, PIs
<1>9. Same(f, x)
  <2>1. PICK l, m \in Int : l = x * (z * z) /\ m = inv * inv
    BY <1>3
  <2>2. Same(X * q, l * m)
    BY <1>2, <1>5, <2>1, SameOps
  <2>3. l * m = x * (j * j) /\ x * (o * o) = x
    BY <1>3, <1>4, <2>1
  <2>4. Same(x * (j * j), x * (o * o))
    BY <1>4, SamePowers
  <2>5. X * q \in Int /\ l * m \in Int
    OBVIOUS
  <2>6. Same(f, l * m)
    BY <1>7, <2>2, <2>5, SameIs
  <2>7. Same(l * m, x)
    BY <2>3, <2>4
  <2>8. PICK h \in Int : h = l * m
    BY <2>5
  <2> QED
    BY <1>7, <2>6, <2>7, <2>8, SameIs
<1>10. Same(g, y)
  <2>1. PICK l, m \in Int : l = y * (z * z * z) /\ m = inv * inv * inv
    BY <1>3
  <2>a. Same(c, m)
    <3>1. Same(q * inv, inv * inv * inv)
      <4>1. PICK i2 \in Int : i2 = inv * inv /\ Same(q, i2)
        BY <1>3, <1>5
      <4>2. Same(q * inv, i2 * inv)
        BY <1>3, <1>5, <4>1, SameTimes
      <4> QED
        BY <4>1, <4>2
    <3>2. q * inv \in Int
      BY <1>3
    <3> QED
      BY <1>6, <2>1, <3>1, <3>2, SameIs
  <2>2. Same(Y * c, l * m)
    BY <1>2, <2>1, <2>a, SameOps
  <2>3. l * m = y * (j * j * j) /\ y * (o * o * o) = y
    BY <1>3, <1>4, <2>1
  <2>4. Same(y * (j * j * j), y * (o * o * o))
    BY <1>4, SamePowers
  <2>5. Y * c \in Int /\ l * m \in Int
    OBVIOUS
  <2>6. Same(g, l * m)
    BY <1>8, <2>2, <2>5, SameIs
  <2>7. Same(l * m, y)
    BY <2>3, <2>4
  <2>8. PICK h \in Int : h = l * m
    BY <2>5
  <2> QED
    BY <1>8, <2>6, <2>7, <2>8, SameIs
<1>11. f = x /\ g = y
  BY <1>2, <1>9, <1>10, SameEqual
<1> QED
  BY <1>1, <1>2, <1>5, <1>6, <1>7, <1>8, <1>11

LEMMA UnitFormIs ==
  ASSUME NEW a \in Points, NEW p, Stands(p, a), NEW inv \in 0..P, mulFp(addFp(p[2], p[2]), inv) = 1
  PROVE  <<subFp(0, mulFp(mulFp(p[1], p[3]), inv)), subFp(0, mulFp(mulFp(sqrFp(p[3]), p[3]), inv))>>
           = <<(-a[1] * modinv(2 * a[2])) % P, (-modinv(2 * a[2])) % P>>
<1>1. PICK x, y, z, X, Y \in Int : x = a[1] /\ y = a[2] /\ z = p[3] /\ X = p[1] /\ Y = p[2]
  BY StandsIs, CurveIs, PIs
<1>2. /\ Same(X, x * (z * z)) /\ Same(Y, y * (z * z * z))
      /\ X \in 0..P /\ Y \in 0..P /\ z \in 0..P /\ Y \in Field /\ x \in Field /\ y \in Field
  BY <1>1, StandsIs, CurveIs, PIs
<1>3. inv \in Int
  BY PIs
<1>4. PICK m \in Int : m = modinv(2 * y) /\ m \in Field
  BY InverseIs, PIs
<1>5. PICK j \in Int : j = 2 * y * m
  OBVIOUS
<1>6. PICK o \in Int : o = 1
  OBVIOUS
<1>7. Same(j, o)
  <2>1. ~Same(2 * y, 0)
    BY <1>1, NotTwoTorsion
  <2>2. PICK t \in Int : t = 2 * y
    OBVIOUS
  <2>3. Same(t * modinv(t), 1)
    BY <2>1, <2>2, InverseIs
  <2> QED
    BY <1>4, <1>5, <1>6, <2>2, <2>3
<1>8. PICK u \in Int : u = z * z * z * inv
  BY <1>3
<1>9. Same(2 * y * u, o)
  <2>1. PICK d \in 0..P : d = addFp(Y, Y) /\ Same(d, Y + Y) /\ d \in Int
    <3>1. addFp(Y, Y) \in Field /\ Same(addFp(Y, Y), Y + Y)
      BY <1>2, InField
    <3>2. addFp(Y, Y) \in 0..P /\ addFp(Y, Y) \in Int
      BY <3>1, PIs
    <3> QED
      BY <3>1, <3>2
  <2>2. Same(mulFp(d, inv), d * inv) /\ mulFp(d, inv) = 1
    BY <1>1, <2>1, ProductIs
  <2>3. PICK e \in Int : e = d * inv /\ Same(o, e)
    BY <1>3, <1>6, <2>2
  <2>4. PICK l \in Int : l = y * (z * z * z)
    OBVIOUS
  <2>5. Same(Y + Y, l + l)
    BY <1>2, <2>4, SameOps
  <2>6. Same(d, l + l)
    <3>1. Y + Y \in Int /\ l + l \in Int
      OBVIOUS
    <3> QED
      BY <2>1, <2>5, <3>1, SameIs
  <2>7. PICK f \in Int : f = l + l
    OBVIOUS
  <2>8. Same(e, f * inv)
    BY <1>3, <2>1, <2>3, <2>6, <2>7, SameTimes
  <2>9. f * inv = 2 * y * u
    BY <1>3, <1>8, <2>4, <2>7
  <2>10. 2 * y * u \in Int
    OBVIOUS
  <2>11. Same(o, 2 * y * u)
    BY <2>3, <2>8, <2>9, <2>10, SameIs
  <2> QED
    BY <2>10, <2>11, SameIs
<1>10. Same(u, m)
  <2>1. PICK g \in Int : g = 2 * y * u
    OBVIOUS
  <2>2. Same(g * m, o * m)
    BY <1>9, <2>1, SameTimes
  <2>3. Same(j * u, o * u)
    BY <1>7, SameTimes
  <2>4. g * m = j * u /\ o * m = m /\ o * u = u /\ j * u \in Int
    BY <1>5, <1>6, <2>1
  <2>5. Same(j * u, m) /\ Same(j * u, u)
    BY <2>2, <2>3, <2>4
  <2> QED
    BY <2>4, <2>5, SameIs
<1>11. PICK c \in 0..P : c = mulFp(X, z) /\ Same(c, X * z) /\ c \in Int
  BY <1>2, ProductIs, PIs
<1>12. PICK f \in 0..P : f = mulFp(c, inv) /\ Same(f, c * inv) /\ f \in Int
  BY ProductIs, PIs
<1>13. Same(f, x * m)
  <2>1. PICK l \in Int : l = x * (z * z) /\ Same(X, l)
    BY <1>2
  <2>2. Same(X * z, l * z)
    BY <2>1, SameTimes
  <2>3. Same(c, l * z)
    <3>1. X * z \in Int /\ l * z \in Int
      OBVIOUS
    <3> QED
      BY <1>11, <2>2, <3>1, SameIs
  <2>4. PICK g \in Int : g = l * z
    OBVIOUS
  <2>5. Same(c * inv, g * inv)
    BY <1>3, <1>11, <2>3, <2>4, SameTimes
  <2>6. g * inv = x * u
    BY <1>3, <1>8, <2>1, <2>4
  <2>7. Same(x * u, x * m)
    BY <1>10, SameTimes
  <2>8. c * inv \in Int /\ x * u \in Int /\ x * m \in Int
    BY <1>3
  <2>9. Same(f, x * u)
    BY <1>12, <2>5, <2>6, <2>8, SameIs
  <2> QED
    BY <2>7, <2>8, <2>9, SameIs
<1>14. PICK q \in 0..P : q = sqrFp(z) /\ Same(q, z * z) /\ q \in Int
  BY <1>2, ProductIs, PIs
<1>15. PICK q3 \in 0..P : q3 = mulFp(q, z) /\ Same(q3, q * z) /\ q3 \in Int
  BY <1>2, ProductIs, PIs
<1>16. PICK g \in 0..P : g = mulFp(q3, inv) /\ Same(g, q3 * inv) /\ g \in Int
  BY ProductIs, PIs
<1>17. Same(g, m)
  <2>1. PICK l \in Int : l = z * z /\ Same(q, l)
    BY <1>14
  <2>2. Same(q * z, l * z)
    BY <1>14, <2>1, SameTimes
  <2>3. PICK t \in Int : t = l * z
    OBVIOUS
  <2>4. Same(q3, t)
    <3>1. q * z \in Int
      OBVIOUS
    <3> QED
      BY <1>15, <2>2, <2>3, <3>1, SameIs
  <2>5. Same(q3 * inv, t * inv)
    BY <1>3, <2>4, SameTimes
  <2>6. t * inv = u
    BY <1>3, <1>8, <2>1, <2>3
  <2>7. q3 * inv \in Int
    BY <1>3
  <2>8. Same(g, u)
    BY <1>16, <2>5, <2>6, <2>7, SameIs
  <2> QED
    BY <1>10, <2>8, SameIs
<1>18. ASSUME NEW s \in 0..P, NEW t \in Int, Same(s, t) PROVE subFp(0, s) = (-t) % P
  <2>1. s \in Int /\ 0 \in Int
    BY PIs
  <2>2. PICK b \in Field : b = subFp(0, s) /\ Same(b, 0 - s) /\ b \in Int
    BY ProductIs, PIs
  <2>3. PICK zero \in Int : zero = 0 /\ Same(zero, zero)
    BY SameIs
  <2>4. Same(zero - s, zero - t)
    BY <1>18, <2>1, <2>3, SameOps
  <2>5. PICK h \in Int : h = -t /\ h = zero - t
    BY <2>3
  <2>6. PICK e \in Int : e = zero - s
    BY <2>1
  <2>7. Same(b, e) /\ Same(e, h)
    BY <2>2, <2>3, <2>4, <2>5, <2>6
  <2>8. Same(b, h)
    BY <2>2, <2>7, SameIs
  <2>9. b % P = h % P /\ b % P = b
    BY <2>2, <2>8, SameMod, SmallIs
  <2> QED
    BY <2>2, <2>5, <2>9
<1>19. PICK xm \in Int : xm = x * m
  OBVIOUS
<1>20. subFp(0, f) = (-xm) % P /\ subFp(0, g) = (-m) % P
  BY <1>13, <1>17, <1>18, <1>19
<1>21. -a[1] * modinv(2 * a[2]) = -xm
  BY <1>1, <1>4, <1>19
<1> QED
  BY <1>1, <1>4, <1>11, <1>12, <1>14, <1>15, <1>16, <1>20, <1>21
LEMMA Zeros ==
  /\ \A x \in 0..P : mulFp(x, 0) = 0 /\ mulFp(0, x) = 0
  /\ subFp(0, 0) = 0 /\ 0 \in 0..P /\ 0 # 1
<1>1. PICK z \in 0..P : z = 0 /\ z \in Field /\ z \in Int
  BY PIs, Small
<1>2. ASSUME NEW x \in 0..P PROVE mulFp(x, 0) = 0 /\ mulFp(0, x) = 0
  <2>1. x \in Int
    BY PIs
  <2>2. mulFp(x, z) \in Field /\ Same(mulFp(x, z), x * z) /\ x * z = z
    BY <1>1, <2>1, ProductIs
  <2>3. mulFp(z, x) \in Field /\ Same(mulFp(z, x), z * x) /\ z * x = z
    BY <1>1, <2>1, ProductIs
  <2>a. PICK f \in Field : f = mulFp(x, z) /\ Same(f, z)
    BY <2>2
  <2>b. PICK g \in Field : g = mulFp(z, x) /\ Same(g, z)
    BY <2>3
  <2>c. f = z
    BY <1>1, <2>a, SameEqual
  <2>d. g = z
    BY <1>1, <2>b, SameEqual
  <2>4. mulFp(x, z) = z /\ mulFp(z, x) = z
    BY <2>a, <2>b, <2>c, <2>d
  <2> QED
    BY <1>1, <2>4
<1>3. subFp(0, 0) = 0
  <2>1. subFp(0, z) \in Field /\ Same(subFp(0, z), 0 - z) /\ 0 - z = z
    BY <1>1, ProductIs
  <2>2. subFp(0, z) = z
    BY <1>1, <2>1, SameEqual
  <2> QED
    BY <1>1, <2>2
<1> QED
  BY <1>1, <1>2, <1>3

\* Whatever inverse the last chunk accepts, it hands on the point.
LEMMA FinalIs ==
  ASSUME NEW a \in Group, NEW p, Sound(p, a), NEW form \in Finals, NEW inv \in 0..P,
         accepts(form, p, inv)
  PROVE  emitted(form, p, inv) = Handed(form, a)
<1>1. Stands(p, a) /\ p[1] \in 0..P /\ p[2] \in 0..P /\ p[3] \in 0..P /\ (p[3] = 0 <=> a = ZERO)
  <2>1. p[1] \in Field /\ p[2] \in Field /\ p[3] \in Field /\ (p[3] = 0 <=> a = ZERO)
    BY SoundIs
  <2>2. \A f \in Field : f \in 0..P
    BY PIs
  <2> QED
    BY <2>1, <2>2 DEF Sound
<1>2. form \in {"affine", "token", "unit"}
  BY DEF Finals
<1>3. CASE a = ZERO
  <2>1. p[3] = 0
    BY <1>1, <1>3
  <2>2. form # "affine"
    <3>1. mulFp(p[3], inv) # 1
      BY <2>1, Zeros
    <3> QED
      BY <3>1 DEF accepts
  <2>3. CASE form = "token"
    BY <1>3, <2>1, <2>3 DEF emitted, Handed
  <2>4. CASE form = "unit"
    <3>1. mulFp(mulFp(p[1], p[3]), inv) = 0
      BY <1>1, <2>1, Zeros
    <3>2. sqrFp(p[3]) \in 0..P
      BY <1>1, ProductIs
    <3>3. mulFp(mulFp(sqrFp(p[3]), p[3]), inv) = 0
      BY <2>1, <3>2, Zeros
    <3>4. emitted(form, p, inv) = <<subFp(0, mulFp(mulFp(p[1], p[3]), inv)),
                                    subFp(0, mulFp(mulFp(sqrFp(p[3]), p[3]), inv))>>
      BY <2>4 DEF emitted
    <3> QED
      BY <1>3, <3>1, <3>3, <3>4, Zeros DEF Handed, ZERO
  <2> QED
    BY <1>2, <2>2, <2>3, <2>4
<1>4. CASE a # ZERO
  <2>1. a \in Points /\ p[3] # 0
    BY <1>1, <1>4 DEF Group
  <2>2. CASE form = "unit"
    <3>1. mulFp(addFp(p[2], p[2]), inv) = 1
      BY <2>2 DEF accepts
    <3>2. emitted(form, p, inv) = <<subFp(0, mulFp(mulFp(p[1], p[3]), inv)),
                                    subFp(0, mulFp(mulFp(sqrFp(p[3]), p[3]), inv))>>
      BY <2>2 DEF emitted
    <3> QED
      BY <1>1, <1>4, <2>1, <2>2, <3>1, <3>2, UnitFormIs DEF Handed
  <2>3. CASE form # "unit"
    <3>1. mulFp(p[3], inv) = 1
      BY <1>2, <2>1, <2>3 DEF accepts
    <3>2. emitted(form, p, inv) = <<mulFp(p[1], sqrFp(inv)), mulFp(p[2], mulFp(sqrFp(inv), inv))>>
      BY <1>2, <2>1, <2>3 DEF emitted
    <3> QED
      BY <1>1, <2>1, <2>3, <3>1, <3>2, AffineFormIs DEF Handed
  <2> QED
    BY <2>2, <2>3
<1> QED
  BY <1>3, <1>4

\* The reference inverse is accepted, but for infinity in the affine form.
LEMMA ReferenceIs ==
  ASSUME NEW a \in Group, NEW p, Sound(p, a), NEW form \in Finals, form = "affine" => a # ZERO
  PROVE  accepts(form, p, reference(form, p))
<1>1. p[1] \in Field /\ p[2] \in Field /\ p[3] \in Field /\ (p[3] = 0 <=> a = ZERO) /\ p[2] # 0
  BY SoundIs
<1>2. form \in {"affine", "token", "unit"}
  BY DEF Finals
<1>3. PICK o \in Field : o = 1 /\ o \in Int
  BY Small, PIs
<1>4. ASSUME NEW d \in Field, NEW x \in Int, ~Same(x, 0), Same(d, x) PROVE mulFp(d, modinv(x)) = 1
  <2>1. PICK i \in Field : i = modinv(x) /\ Same(x * i, o)
    BY <1>3, <1>4, InverseIs
  <2>2. d \in 0..P /\ i \in 0..P /\ d \in Int /\ i \in Int
    BY PIs
  <2>3. mulFp(d, i) \in Field /\ Same(mulFp(d, i), d * i) /\ mulFp(d, i) \in Int
    BY <2>2, ProductIs, PIs
  <2>4. Same(d * i, x * i)
    BY <1>4, <2>2, SameTimes
  <2>5. PICK e \in Int : e = d * i
    BY <2>2
  <2>6. PICK f \in Int : f = x * i
    BY <2>2
  <2>7. PICK g \in Field : g = mulFp(d, i) /\ Same(g, e) /\ g \in Int
    BY <2>3, <2>5
  <2>8. Same(g, o)
    BY <1>3, <2>1, <2>4, <2>5, <2>6, <2>7, SameIs
  <2>9. g = o
    BY <1>3, <2>8, SameEqual
  <2> QED
    BY <1>3, <2>1, <2>7, <2>9
<1>5. ASSUME NEW d \in Field, d # 0 PROVE ~Same(d, 0)
  <2>1. PICK z \in Field : z = 0
    BY Small
  <2> QED
    BY <1>5, <2>1, SameEqual
<1>6. \A d \in Field : d \in Int /\ Same(d, d)
  BY PIs, SameIs
<1>7. CASE form = "unit"
  <2>1. PICK y \in Field : y = p[2] /\ y \in Int /\ y # 0
    BY <1>1, <1>6
  <2>2. addFp(y, y) \in Field /\ Same(addFp(y, y), y + y)
    BY InField
  <2>3. PICK x \in Int : x = 2 * y /\ x = y + y
    BY <2>1
  <2>4. ~Same(x, 0)
    <3>1. PICK two \in Int : two = 2
      OBVIOUS
    <3>2. ~Same(two, 0)
      BY <3>1, Two
    <3>3. ~Same(y, 0)
      BY <1>5, <2>1
    <3>4. Same(two * y, 0) <=> Same(two, 0) \/ Same(y, 0)
      BY <2>1, Product
    <3> QED
      BY <2>3, <3>1, <3>2, <3>3, <3>4
  <2>5. mulFp(addFp(y, y), modinv(x)) = 1
    BY <1>4, <2>2, <2>3, <2>4
  <2> QED
    BY <1>7, <2>1, <2>3, <2>5 DEF accepts, reference
<1>8. CASE form # "unit" /\ p[3] # 0
  <2>1. PICK z \in Field : z = p[3] /\ z \in Int /\ z # 0 /\ Same(z, z)
    BY <1>1, <1>6, <1>8
  <2>2. ~Same(z, 0)
    BY <1>5, <2>1
  <2>3. mulFp(z, modinv(z)) = 1
    BY <1>4, <2>1, <2>2
  <2> QED
    BY <1>2, <1>8, <2>1, <2>3 DEF accepts, reference
<1>9. CASE form # "unit" /\ p[3] = 0
  <2>1. form = "token"
    BY <1>1, <1>2, <1>9
  <2>2. modinv(0) = 0
    <3>1. 0 % P = 0
      BY PIs
    <3> QED
      BY <3>1 DEF modinv
  <2> QED
    BY <1>9, <2>1, <2>2 DEF accepts, reference
<1> QED
  BY <1>7, <1>8, <1>9
(***************************************************************************)
(* The Straus schedules, from the first chunk to the last: the accumulator *)
(* is the multiple that the positions done make, for the halves committed. *)
(***************************************************************************)
StrausInv ==
  /\ sched \in Schedules /\ vk \in VKS /\ verdict = "none"
  /\ w \in 0..width(sched)
  /\ w = 0 => r = <<0, 1, 0>>
  /\ w > 0 => Committed(sched, in, k)
  /\ w > 0 /\ w < width(sched) => Sound(r, multiply(Expo(vk, sched, k, w)))
  /\ out # <<>> => /\ w > 0 /\ w = width(sched)
                   /\ out.form \in Finals /\ out.point = Handed(out.form, vk_x)

LEMMA NothingYet == Sound(<<0, 1, 0>>, multiply(0))
<1>1. <<0, 1, 0>> \in Triple
  BY Small DEF Triple
<1> QED
  BY <1>1, ZeroIs DEF Sound, Stands

LEMMA StrausInit == Init /\ verdict = "none" => StrausInv
<1> SUFFICES ASSUME Init, verdict = "none" PROVE StrausInv
  OBVIOUS
<1>1. sched \in Schedules /\ vk \in VKS /\ w = 0 /\ out = <<>> /\ r = <<0, 1, 0>>
  BY DEF Init
<1>2. width(sched) \in Nat
  BY <1>1, WidthIs
<1> QED
  BY <1>1, <1>2 DEF StrausInv

LEMMA StrausFirst ==
  ASSUME StrausInv, FirstChunk, verdict' = verdict
  PROVE  StrausInv'
<1>1. w = 0 /\ r = <<0, 1, 0>> /\ sched \in Schedules /\ vk \in VKS /\ verdict = "none"
  BY DEF StrausInv, FirstChunk
<1>2. out = <<>>
  BY <1>1 DEF StrausInv
<1>3. PICK hi, ks, inputs : /\ hi \in 1..width(sched) - 1
                            /\ Start(ks, inputs, hi) /\ Committed(sched, inputs, ks)
  <2>1. PICK hi \in 1..width(sched) - 1, i0, i1 \in INPUTS :
          \/ sched = "shamir" /\ Start(<<i0, i1>>, <<i0, i1>>, hi)
          \/ /\ sched # "shamir"
             /\ \E k10, k20 \in OFFERED :
                  /\ bindsWitness(k10, k20, i0)
                  /\ \E k11, k21 \in OFFERED :
                       /\ bindsWitness(k11, k21, i1)
                       /\ Start(<<k10, k20, k11, k21>>, <<i0, i1>>, hi)
    BY DEF FirstChunk
  <2>2. CASE sched = "shamir"
    <3>1. Start(<<i0, i1>>, <<i0, i1>>, hi)
      BY <2>1, <2>2
    <3>2. Committed(sched, <<i0, i1>>, <<i0, i1>>)
      BY <2>2 DEF Committed
    <3> QED
      BY <3>1, <3>2
  <2>3. CASE sched # "shamir"
    <3>1. PICK k10, k20, k11, k21 \in OFFERED :
            /\ bindsWitness(k10, k20, i0) /\ bindsWitness(k11, k21, i1)
            /\ Start(<<k10, k20, k11, k21>>, <<i0, i1>>, hi)
      BY <2>1, <2>3
    <3>2. Committed(sched, <<i0, i1>>, <<k10, k20, k11, k21>>)
      BY <2>3, <3>1 DEF Committed
    <3> QED
      BY <3>1, <3>2
  <2> QED
    BY <2>2, <2>3
<1>4. /\ in' = inputs /\ k' = ks /\ w' = hi /\ vk' = vk /\ sched' = sched /\ out' = out
      /\ r' = loop(vk, sched, ks, 0, hi, r)
  BY <1>3 DEF Start
<1>5. PICK wd \in Nat : wd = width(sched)
  BY <1>1, WidthIs
<1>6. 0 \in 0..width(sched) /\ hi \in 0..width(sched) /\ 0 <= hi /\ hi > 0
  BY <1>3, <1>5
<1>7. Fits(sched, ks)
  BY <1>1, <1>3, TotalIs
<1>8. Sound(r, multiply(Expo(vk, sched, ks, 0)))
  BY <1>1, <1>7, ExpoIs, NothingYet
<1>9. Sound(loop(vk, sched, ks, 0, hi, r), multiply(Expo(vk, sched, ks, hi)))
  <2>1. PICK z \in 0..width(sched) : z = 0 /\ z <= hi
    BY <1>6
  <2>2. Sound(r, multiply(Expo(vk, sched, ks, z)))
    BY <1>8, <2>1
  <2>3. Sound(loop(vk, sched, ks, z, hi, r), multiply(Expo(vk, sched, ks, hi)))
    BY <1>1, <1>6, <1>7, <2>1, <2>2, LoopIs
  <2> QED
    BY <2>1, <2>3
<1> QED
  BY <1>1, <1>2, <1>3, <1>4, <1>6, <1>9 DEF StrausInv

LEMMA StrausMiddle ==
  ASSUME StrausInv, MiddleChunk, verdict' = verdict
  PROVE  StrausInv'
<1>1. w > 0 /\ sched \in Schedules /\ vk \in VKS /\ verdict = "none" /\ Committed(sched, in, k)
  BY DEF StrausInv, MiddleChunk
<1>2. PICK hi \in w + 1..width(sched) - 1 : w' = hi /\ r' = loop(vk, sched, k, w, hi, r)
  BY DEF MiddleChunk
<1>3. vk' = vk /\ sched' = sched /\ in' = in /\ k' = k /\ out' = out
  BY DEF MiddleChunk
<1>4. width(sched) \in Nat /\ w \in 0..width(sched)
  BY <1>1, WidthIs DEF StrausInv
<1>5. w \in 0..width(sched) /\ hi \in 0..width(sched) /\ w <= hi /\ w < width(sched) /\ hi > 0
  BY <1>1, <1>4
<1>6. Fits(sched, k)
  BY <1>1, TotalIs
<1>7. Sound(r, multiply(Expo(vk, sched, k, w))) /\ out = <<>>
  BY <1>1, <1>5 DEF StrausInv
<1>8. Sound(loop(vk, sched, k, w, hi, r), multiply(Expo(vk, sched, k, hi)))
  BY <1>1, <1>5, <1>6, <1>7, LoopIs
<1> QED
  BY <1>1, <1>2, <1>3, <1>5, <1>7, <1>8 DEF StrausInv

\* The point the last chunk arrives at is vk_x.
LEMMA LastIs ==
  ASSUME StrausInv, w > 0, w < width(sched)
  PROVE  Sound(last, vk_x) /\ vk_x \in Group
<1>1. sched \in Schedules /\ vk \in VKS /\ Committed(sched, in, k) /\ w \in 0..width(sched)
      /\ Sound(r, multiply(Expo(vk, sched, k, w)))
  BY DEF StrausInv
<1>2. width(sched) \in Nat
  BY <1>1, WidthIs
<1>3. width(sched) \in 0..width(sched) /\ w <= width(sched)
  BY <1>1, <1>2
<1>4. Fits(sched, k) /\ vk[1] + in[1] * vk[2] + in[2] * vk[3] \in Int
  BY <1>1, TotalIs
<1>5. PICK wd \in 0..width(sched) : wd = width(sched) /\ w <= wd
  BY <1>3
<1>6. Sound(loop(vk, sched, k, w, wd, r), multiply(Expo(vk, sched, k, wd)))
  BY <1>1, <1>4, <1>5, LoopIs
<1>7. Sound(folded(vk, sched, loop(vk, sched, k, w, wd, r)),
            multiply(vk[1] + in[1] * vk[2] + in[2] * vk[3]))
  BY <1>1, <1>5, <1>6, FoldedIs
<1> QED
  BY <1>4, <1>5, <1>7, MultiplesAre DEF last, vk_x

LEMMA StrausFinal ==
  ASSUME StrausInv, FinalChunk, verdict' = verdict
  PROVE  StrausInv'
<1>1. w > 0 /\ w < width(sched) /\ sched \in Schedules /\ vk \in VKS /\ verdict = "none"
      /\ Committed(sched, in, k)
  BY DEF StrausInv, FinalChunk
<1>2. PICK form \in finals(sched), inv \in 0..P :
        accepts(form, last, inv) /\ out' = [form |-> form, point |-> emitted(form, last, inv)]
  BY DEF FinalChunk
<1>3. w' = width(sched) /\ vk' = vk /\ sched' = sched /\ in' = in /\ k' = k
  BY DEF FinalChunk
<1>4. form \in Finals
  BY <1>1, <1>2 DEF finals, Schedules, Finals
<1>5. PICK a \in Group : a = vk_x /\ Sound(last, a)
  BY <1>1, LastIs
<1>6. PICK p : p = last
  OBVIOUS
<1>7. emitted(form, p, inv) = Handed(form, a)
  BY <1>2, <1>4, <1>5, <1>6, FinalIs
<1>8. vk_x' = vk_x
  BY <1>3 DEF vk_x
<1>9. out'.form = form /\ out'.point = Handed(form, vk_x')
  BY <1>2, <1>5, <1>6, <1>7, <1>8
<1>10. width(sched) \in Nat
  BY <1>1, WidthIs
<1> QED
  BY <1>1, <1>3, <1>4, <1>9, <1>10 DEF StrausInv

LEMMA StrausKept ==
  ASSUME StrausInv, [Next]_vars, verdict' = verdict
  PROVE  StrausInv'
<1>1. CASE FirstChunk
  BY <1>1, StrausFirst
<1>2. CASE MiddleChunk
  BY <1>2, StrausMiddle
<1>3. CASE FinalChunk
  BY <1>3, StrausFinal
<1>4. CASE UNCHANGED vars
  <2>1. vk' = vk /\ sched' = sched /\ in' = in /\ k' = k /\ w' = w /\ r' = r /\ out' = out
    BY <1>4 DEF vars
  <2>2. vk_x' = vk_x
    BY <2>1 DEF vk_x
  <2> QED
    BY <2>1, <2>2 DEF StrausInv
<1> QED
  BY <1>1, <1>2, <1>3, <1>4 DEF Next

LEMMA StrausIsRight == StrausInv => EmittedIsVkx /\ ReferenceIsAccepted
<1> SUFFICES ASSUME StrausInv PROVE EmittedIsVkx /\ ReferenceIsAccepted
  OBVIOUS
<1>1. EmittedIsVkx
  <2> SUFFICES ASSUME out # <<>>
               PROVE  IF out.form = "unit" /\ vk_x # ZERO
                      THEN out.point = <<(-vk_x[1] * modinv(2 * vk_x[2])) % P,
                                         (-modinv(2 * vk_x[2])) % P>>
                      ELSE out.point = vk_x
    BY DEF EmittedIsVkx
  <2>1. out.point = Handed(out.form, vk_x)
    BY DEF StrausInv
  <2> QED
    BY <2>1 DEF Handed
<1>2. ReferenceIsAccepted
  <2> SUFFICES ASSUME w \in 1..width(sched) - 1, NEW form \in finals(sched),
                      ~(form = "affine" /\ vk_x = ZERO)
               PROVE  accepts(form, last, reference(form, last))
    BY DEF ReferenceIsAccepted
  <2>1. sched \in Schedules
    BY DEF StrausInv
  <2>2. width(sched) \in Nat
    BY <2>1, WidthIs
  <2>3. w > 0 /\ w < width(sched)
    BY <2>2
  <2>4. PICK a \in Group : a = vk_x /\ Sound(last, a)
    BY <2>3, LastIs
  <2>5. form \in Finals
    BY <2>1 DEF finals, Schedules, Finals
  <2>6. PICK p : p = last
    OBVIOUS
  <2>7. accepts(form, p, reference(form, p))
    BY <2>4, <2>5, <2>6, ReferenceIs
  <2> QED
    BY <2>6, <2>7
<1> QED
  BY <1>1, <1>2
(***************************************************************************)
(* The two loops: the base is the point doubled as often as iterations are *)
(* done, R its multiple by the lowest bits of the input.                   *)
(***************************************************************************)
LEMMA LowBits ==
  ASSUME NEW x \in Nat, NEW i \in Nat
  PROVE  /\ x % twoTo[i + 1] = (x % twoTo[i]) + bit(x, i) * twoTo[i]
         /\ x % twoTo[i] \in Nat /\ x % twoTo[0] = 0
         /\ x < twoTo[i] => x % twoTo[i] = x
<1>1. PICK m \in Nat \ {0} : m = twoTo[i] /\ twoTo[i + 1] = 2 * m
  BY TwoToIs
<1>2. PICK q \in Nat : q = x \div m
  BY DivIs
<1>3. PICK t \in 0..m-1 : t = x % m
  <2>1. x % m \in 0..m-1
    BY ONLY x \in Nat, m \in Nat \ {0}
  <2> QED
    BY <2>1
<1>4. x = m * q + t
  BY <1>2, <1>3, DivIs
<1>5. PICK h, b \in Nat : b = q % 2 /\ q = 2 * h + b /\ b < 2
  <2>1. q % 2 \in Nat /\ q \div 2 \in Nat /\ q = 2 * (q \div 2) + (q % 2) /\ q % 2 < 2
    OBVIOUS
  <2> QED
    BY <2>1
<1>6. PICK m2 \in Nat \ {0} : m2 = 2 * m
  OBVIOUS
<1>7. PICK u \in Nat : u = t + b * m
  OBVIOUS
<1>8. u \in 0..m2-1
  <2>1. b = 0 \/ b = 1
    BY <1>5
  <2> QED
    BY <1>6, <1>7, <2>1
<1>9. x = m2 * h + u
  <2>1. x = m * (2 * h + b) + t
    BY <1>4, <1>5
  <2>2. m2 * h + u = (2 * m) * h + (t + b * m)
    BY <1>6, <1>7
  <2>3. m * (2 * h + b) + t = (2 * m) * h + (t + b * m)
    OBVIOUS
  <2> QED
    BY <2>1, <2>2, <2>3
<1>10. x % m2 = u
  BY <1>8, <1>9, QuotientIs
<1>11. bit(x, i) = b
  BY <1>1, <1>2, <1>5 DEF bit
<1>12. x % twoTo[0] = 0
  <2>1. x % 1 = 0
    OBVIOUS
  <2> QED
    BY <2>1, TwoToIs
<1>13. x < m => x % m = x
  OBVIOUS
<1> QED
  BY <1>1, <1>3, <1>6, <1>7, <1>10, <1>11, <1>12, <1>13

\* What R and the base stand for when i iterations are done.
Halfway(x, v, i, R, pt) ==
  /\ Stands(R, multiply((x % twoTo[i]) * v))
  /\ Stands(pt, multiply(twoTo[i] * v)) /\ multiply(twoTo[i] * v) # ZERO

LEMMA IterationIs ==
  ASSUME NEW x \in Nat, NEW v \in Nat, NEW i \in Nat, NEW R, NEW pt, Halfway(x, v, i, R, pt)
  PROVE  Halfway(x, v, i + 1, runIter(x, i, R, pt)[1], runIter(x, i, R, pt)[2])
<1>1. PICK m \in Nat : m = twoTo[i] /\ twoTo[i + 1] = 2 * m
  BY TwoToIs
<1>2. PICK t \in Nat : t = x % twoTo[i]
  BY LowBits
<1>3. PICK b \in {0, 1} : b = bit(x, i) /\ x % twoTo[i + 1] = t + b * m
  <2>1. PICK b \in {0, 1} : b = bit(x, i)
    BY BitIs
  <2>2. x % twoTo[i + 1] = (x % twoTo[i]) + bit(x, i) * twoTo[i]
    BY LowBits
  <2>3. x % twoTo[i + 1] = t + b * m
    BY <1>1, <1>2, <2>1, <2>2
  <2> QED
    BY <2>1, <2>3
<1>4. PICK e, f \in Int : e = m * v /\ f = t * v
  OBVIOUS
<1>5. PICK c \in Points : c = multiply(e) /\ Stands(pt, c)
  BY <1>1, <1>4, MultiplesAre DEF Halfway
<1>6. PICK a \in Group : a = multiply(f) /\ Stands(R, a)
  BY <1>2, <1>4, MultiplesAre DEF Halfway
<1>7. runIter(x, i, R, pt)[2] = jacDouble(pt)
  <2>1. pt[3] # 0 /\ pt[2] # 0
    BY <1>5, StandsIs
  <2> QED
    BY <2>1 DEF runIter, jacDblBase
<1>8. Stands(jacDouble(pt), add(c, c)) /\ add(c, c) \in Points
  BY <1>5, DoubleIsSound DEF Sound
<1>9. add(c, c) = multiply((2 * m) * v) /\ add(c, c) # ZERO
  <2>1. add(multiply(e), multiply(e)) = multiply(e + e)
    BY SumOfMultiples
  <2>2. e + e = (2 * m) * v
    BY <1>4
  <2>3. add(c, c) # ZERO
    BY <1>8, MultiplesAre
  <2> QED
    BY <1>5, <2>1, <2>2, <2>3
<1>10. CASE b = 0
  <2>1. runIter(x, i, R, pt)[1] = R
    BY <1>3, <1>10 DEF runIter
  <2>2. (t + b * m) * v = f
    BY <1>4, <1>10
  <2> QED
    BY <1>1, <1>3, <1>6, <1>7, <1>8, <1>9, <2>1, <2>2 DEF Halfway
<1>11. CASE b = 1
  <2>1. (t + b * m) * v = f + e
    BY <1>4, <1>11
  <2>2. add(a, c) = multiply(f + e)
    BY <1>5, <1>6, SumOfMultiples
  <2>3. Stands(runIter(x, i, R, pt)[1], add(a, c))
    <3>1. CASE a = ZERO
      <4>1. R[3] = 0
        BY <1>6, <3>1 DEF Stands
      <4>2. runIter(x, i, R, pt)[1] = pt
        BY <1>3, <1>11, <4>1 DEF runIter
      <4>3. c \in Group
        BY DEF Group
      <4> QED
        BY <1>5, <3>1, <4>2, <4>3, ZeroIs
    <3>2. CASE a # ZERO
      <4>1. R[3] # 0
        BY <1>6, <3>2 DEF Stands
      <4>2. runIter(x, i, R, pt)[1] = addBlock(R, pt)
        BY <1>3, <1>11, <4>1 DEF runIter
      <4>3. Stands(addBlock(R, pt), IF a = ZERO THEN ZERO ELSE add(a, c))
        BY <1>5, <1>6, AddBlockIs
      <4> QED
        BY <3>2, <4>2, <4>3
    <3> QED
      BY <3>1, <3>2
  <2> QED
    BY <1>1, <1>3, <1>7, <1>8, <1>9, <2>1, <2>2, <2>3 DEF Halfway
<1> QED
  BY <1>10, <1>11

LEMMA IterationsAre ==
  ASSUME NEW x \in Nat, NEW v \in Nat, NEW from \in Nat, NEW to \in Nat, from <= to,
         NEW R, NEW pt, Halfway(x, v, from, R, pt)
  PROVE  Halfway(x, v, to, iterations(x, from, to, R, pt)[1], iterations(x, from, to, R, pt)[2])
<1> DEFINE S == Triple \X Triple
           step(y, j) == runIter(x, j - 1, y[1], y[2])
           good(j, y) == y \in S /\ Halfway(x, v, j, y[1], y[2])
<1>1. <<R, pt>> \in S /\ good(from, <<R, pt>>)
  BY DEF Halfway, Stands
<1>2. ASSUME NEW j \in Nat, NEW y, good(j, y) PROVE good(j + 1, step(y, j + 1))
  <2>1. (j + 1) - 1 = j
    OBVIOUS
  <2>2. step(y, j + 1) = runIter(x, j, y[1], y[2])
    BY <2>1
  <2>3. Halfway(x, v, j + 1, runIter(x, j, y[1], y[2])[1], runIter(x, j, y[1], y[2])[2])
    BY <1>2, IterationIs
  <2>4. runIter(x, j, y[1], y[2])[1] \in Triple /\ runIter(x, j, y[1], y[2])[2] \in Triple
    BY <2>3 DEF Halfway, Stands
  <2>5. runIter(x, j, y[1], y[2]) \in S
    <3>1. runIter(x, j, y[1], y[2]) = <<runIter(x, j, y[1], y[2])[1], runIter(x, j, y[1], y[2])[2]>>
      BY DEF runIter
    <3> QED
      BY <2>4, <3>1
  <2> QED
    BY <2>2, <2>3, <2>5
<1> HIDE DEF step, good, S
<1> DEFINE next(y, j) == IF good(j - 1, y) THEN step(y, j) ELSE y
           F == [z \in S \X (from + 1..to) |-> next(z[1], z[2])]
<1>3. ASSUME NEW y \in S, NEW j \in from + 1..to PROVE next(y, j) \in S
  <2>1. j - 1 \in Nat /\ (j - 1) + 1 = j
    OBVIOUS
  <2>2. CASE good(j - 1, y)
    <3>1. good(j, step(y, j))
      BY <1>2, <2>1, <2>2
    <3> QED
      BY <2>2, <3>1 DEF good
  <2> QED
    BY <2>2
<1> HIDE DEF next
<1>4. \A y \in S, j \in from + 1..to : F[<<y, j>>] = next(y, j)
  OBVIOUS
<1> HIDE DEF F
<1>5. StaysBetween(F, S, from, to)
  BY <1>3, <1>4 DEF StaysBetween
<1>6. PICK s0 \in S : s0 = <<R, pt>>
  BY <1>1
<1>7. PICK h \in [from..to -> S] : FollowsBetween(h, s0, F, from, to)
  BY <1>5, RangeRecursion
<1>8. h[from] = s0 /\ \A j \in from + 1..to : h[j] = next(h[j - 1], j)
  <2>1. ASSUME NEW j \in from + 1..to PROVE h[j] = next(h[j - 1], j)
    <3>1. j - 1 \in from..to
      OBVIOUS
    <3>2. h[j - 1] \in S /\ h[j] = F[<<h[j - 1], j>>]
      BY <1>7, <3>1 DEF FollowsBetween
    <3> QED
      BY <1>4, <3>2
  <2> QED
    BY <1>7, <2>1 DEF FollowsBetween
<1> DEFINE G == {j \in from..to : good(j, h[j])}
<1>9. from \in G
  BY <1>1, <1>6, <1>8
<1>10. ASSUME NEW j \in from..to, j \in G, j < to PROVE j + 1 \in G
  <2>1. j + 1 \in from + 1..to /\ j + 1 \in from..to /\ (j + 1) - 1 = j /\ j \in Nat
    BY <1>10
  <2>2. good(j, h[j])
    BY <1>10
  <2>3. h[j + 1] = step(h[j], j + 1)
    BY <1>8, <2>1, <2>2 DEF next
  <2>4. good(j + 1, step(h[j], j + 1))
    BY <1>2, <2>1, <2>2
  <2> QED
    BY <2>1, <2>3, <2>4
<1> HIDE DEF G
<1>11. \A j \in from..to : j \in G
  BY <1>9, <1>10, FromTo
<1>12. \A j \in from + 1..to : h[j] = step(h[j - 1], j)
  <2> SUFFICES ASSUME NEW j \in from + 1..to PROVE h[j] = step(h[j - 1], j)
    OBVIOUS
  <2>1. j - 1 \in from..to
    OBVIOUS
  <2>2. good(j - 1, h[j - 1])
    BY <1>11, <2>1 DEF G
  <2> QED
    BY <1>8, <2>2 DEF next
<1>13. h = [j \in from..to |-> IF j = from THEN s0 ELSE step(h[j - 1], j)]
  <2>1. ASSUME NEW j \in from..to PROVE h[j] = IF j = from THEN s0 ELSE step(h[j - 1], j)
    <3>1. j = from \/ j \in from + 1..to
      OBVIOUS
    <3>2. j \in from + 1..to => j # from
      OBVIOUS
    <3> QED
      BY <1>8, <1>12, <3>1, <3>2
  <2> QED
    BY <1>7, <2>1
<1>14. \E s : /\ s = [j \in from..to |-> IF j = from THEN s0 ELSE step(s[j - 1], j)]
              /\ iterations(x, from, to, R, pt) = s[to]
  BY <1>6, <1>13 DEF iterations, step
<1>15. PICK s : /\ s = [j \in from..to |-> IF j = from THEN s0 ELSE step(s[j - 1], j)]
                /\ iterations(x, from, to, R, pt) = s[to]
  BY <1>14
<1>16. s[from] = s0 /\ \A j \in from + 1..to : s[j] = step(s[j - 1], j)
  <2>1. s[from] = s0
    BY <1>15
  <2>2. ASSUME NEW j \in from + 1..to PROVE s[j] = step(s[j - 1], j)
    <3>1. j \in from..to /\ j # from
      OBVIOUS
    <3> QED
      BY <1>15, <3>1
  <2> QED
    BY <2>1, <2>2
<1> DEFINE T == {j \in from..to : good(j, s[j])}
<1>17. from \in T
  BY <1>1, <1>6, <1>16
<1>18. ASSUME NEW j \in from..to, j \in T, j < to PROVE j + 1 \in T
  <2>1. j + 1 \in from + 1..to /\ j + 1 \in from..to /\ (j + 1) - 1 = j /\ j \in Nat
    BY <1>18
  <2>2. good(j + 1, step(s[j], j + 1))
    BY <1>2, <1>18, <2>1
  <2>3. s[j + 1] = step(s[j], j + 1)
    BY <1>16, <2>1
  <2> QED
    BY <2>1, <2>2, <2>3
<1> HIDE DEF T
<1>19. \A j \in from..to : j \in T
  BY <1>17, <1>18, FromTo
<1>20. to \in from..to
  OBVIOUS
<1> QED
  BY <1>15, <1>19, <1>20 DEF T, good
\* The multiple of BASE added in a term, and what it is added to.
Added(t) == in[t + 1] * vk[t + 2]
Half == multiply(vk[1] + Added(0))
Absorbed == Half = ZERO /\ multiply(Added(1)) # ZERO

TwoLoopInv ==
  /\ sched = "twoloop" /\ w = 0 /\ out = <<>>
  /\ vk \in VKS /\ in \in (0..N-1) \X (0..N-1)
  /\ term \in 0..2 /\ lo \in 0..BITS
  /\ term < 2 => verdict = "none" /\ Halfway(in[term + 1], vk[term + 2], lo, r, base)
  /\ term = 0 => Stands(acc, multiply(vk[1]))
  /\ term = 1 => Stands(acc, Half)
  /\ term = 2 => /\ Stands(acc, IF Absorbed THEN ZERO ELSE vk_x)
                 /\ verdict = IF toAffine(acc) = vk_x THEN "accept" ELSE "reject"

LEMMA Multiplied ==
  ASSUME NEW n \in 1..N-1
  PROVE  multiply(n) # ZERO /\ multiply(n) \in Points
<1>1. n \in 0..N-1 /\ n # 0 /\ n \in Int
  BY NIs
<1>2. n % N # 0
  BY <1>1, MultiplesAre
<1> QED
  BY <1>1, <1>2, MultiplesAre

LEMMA AffineStands == ASSUME NEW a \in Points PROVE Stands(affine(a), a)
<1>1. Sound(<<a[1], a[2], 1>>, a)
  BY FromInfinity
<1> QED
  BY <1>1 DEF Sound, affine

\* The reset of a term.
LEMMA ResetIs ==
  ASSUME NEW x \in Nat, NEW v \in 1..N-1
  PROVE  Halfway(x, v, 0, <<0, 1, 0>>, affine(multiply(v)))
<1>1. v \in Int /\ twoTo[0] * v = v /\ (x % twoTo[0]) * v = 0
  <2>1. v \in Int
    BY NIs
  <2>2. twoTo[0] = 1 /\ x % twoTo[0] = 0
    BY TwoToIs, LowBits
  <2> QED
    BY <2>1, <2>2
<1>2. PICK c \in Points : c = multiply(v) /\ c # ZERO
  BY Multiplied
<1>3. Stands(affine(c), c)
  BY AffineStands
<1>4. Stands(<<0, 1, 0>>, multiply(0))
  BY NothingYet DEF Sound
<1> QED
  BY <1>1, <1>2, <1>3, <1>4 DEF Halfway

LEMMA InputIs ==
  ASSUME TwoLoopInv
  PROVE  /\ vk[1] \in 1..N-1 /\ vk[2] \in 1..N-1 /\ vk[3] \in 1..N-1
         /\ in[1] \in Nat /\ in[2] \in Nat /\ in[1] < twoTo[BITS] /\ in[2] < twoTo[BITS]
<1>1. in[1] \in 0..N-1 /\ in[2] \in 0..N-1
  BY DEF TwoLoopInv
<1>2. N <= twoTo[BITS] /\ twoTo[BITS] \in Nat /\ N \in Nat
  BY ScheduleAssumption, TwoToIs, NIs
<1> QED
  BY <1>1, <1>2, KeyIs DEF TwoLoopInv

LEMMA TwoLoopStarts == TwoLoopInit => TwoLoopInv
<1> SUFFICES ASSUME TwoLoopInit PROVE TwoLoopInv
  OBVIOUS
<1>1. /\ vk \in VKS /\ in \in (0..N-1) \X (0..N-1) /\ term = 0 /\ lo = 0
      /\ acc = affine(multiply(vk[1])) /\ base = affine(multiply(vk[2])) /\ r = <<0, 1, 0>>
      /\ verdict = "none" /\ sched = "twoloop" /\ w = 0 /\ out = <<>>
  BY DEF TwoLoopInit
<1>2. vk[1] \in 1..N-1 /\ vk[2] \in 1..N-1
  BY <1>1, KeyIs
<1>3. PICK x \in Nat : x = in[1]
  BY <1>1
<1>4. PICK v \in 1..N-1 : v = vk[2]
  BY <1>2
<1>5. Halfway(x, v, 0, <<0, 1, 0>>, affine(multiply(v)))
  BY ResetIs
<1>6. Stands(affine(multiply(vk[1])), multiply(vk[1]))
  BY <1>2, Multiplied, AffineStands
<1>7. BITS \in Nat /\ 0 \in 0..BITS
  BY ScheduleAssumption
<1> QED
  BY <1>1, <1>3, <1>4, <1>5, <1>6, <1>7 DEF TwoLoopInv

\* The fold, for what the term's iterations end with.
LEMMA FoldIs ==
  ASSUME NEW a \in Group, NEW p, Stands(p, a), NEW b \in Group, NEW R, Stands(R, b)
  PROVE  Stands(fold(p, R), IF a = ZERO THEN ZERO ELSE add(a, b))
<1>1. CASE b = ZERO
  <2>1. R[3] = 0
    BY <1>1 DEF Stands
  <2>2. fold(p, R) = p
    BY <2>1 DEF fold
  <2>3. add(a, b) = a
    BY <1>1, ZeroIs
  <2> QED
    BY <2>2, <2>3
<1>2. CASE b # ZERO
  <2>1. R[3] # 0 /\ b \in Points
    BY <1>2 DEF Stands, Group
  <2>2. fold(p, R) = addBlock(p, R)
    BY <2>1 DEF fold
  <2> QED
    BY <2>1, <2>2, AddBlockIs
<1> QED
  BY <1>1, <1>2

LEMMA TwoLoopStep ==
  ASSUME TwoLoopInv, Chunk
  PROVE  TwoLoopInv'
<1>1. /\ sched = "twoloop" /\ w = 0 /\ out = <<>> /\ vk \in VKS /\ in \in (0..N-1) \X (0..N-1)
      /\ term \in {0, 1} /\ lo \in 0..BITS /\ verdict = "none"
      /\ Halfway(in[term + 1], vk[term + 2], lo, r, base)
  BY DEF TwoLoopInv, Chunk
<1>2. /\ vk' = vk /\ sched' = sched /\ in' = in /\ k' = k /\ w' = w /\ out' = out
  BY DEF Chunk
<1> DEFINE top == IF lo + K < BITS THEN lo + K ELSE BITS
<1>3. PICK s \in {iterations(in[term + 1], lo, top, r, base)} :
         IF top < BITS
         THEN /\ r' = s[1] /\ base' = s[2] /\ lo' = top
              /\ UNCHANGED <<term, acc, verdict>>
         ELSE /\ acc' = fold(acc, s[1])
              /\ lo' = 0 /\ term' = term + 1
              /\ IF term = 0
                 THEN /\ r' = <<0, 1, 0>> /\ base' = affine(multiply(vk[3]))
                      /\ UNCHANGED verdict
                 ELSE /\ r' = s[1] /\ base' = s[2]
                      /\ verdict' = IF toAffine(acc') = vk_x THEN "accept" ELSE "reject"
  BY DEF Chunk
<1>4. PICK hi \in Nat : hi = top /\ lo <= hi /\ hi <= BITS /\ (~(hi < BITS) => hi = BITS) /\ lo \in Nat
  BY <1>1, WindowAssumption, ScheduleAssumption
<1> HIDE DEF top
<1>5. PICK x \in Nat : x = in[term + 1] /\ x < twoTo[BITS]
  BY <1>1, InputIs
<1>6. PICK v \in 1..N-1 : v = vk[term + 2] /\ v \in Nat
  BY <1>1, InputIs
<1>7. Halfway(x, v, hi, s[1], s[2])
  <2>1. Halfway(x, v, lo, r, base)
    BY <1>1, <1>5, <1>6
  <2>2. Halfway(x, v, hi, iterations(x, lo, hi, r, base)[1], iterations(x, lo, hi, r, base)[2])
    BY <1>4, <2>1, IterationsAre
  <2> QED
    BY <1>3, <1>4, <1>5, <2>2
<1>8. vk_x' = vk_x /\ Half' = Half /\ Absorbed' = Absorbed
  BY <1>2 DEF vk_x, Half, Absorbed, Added
<1>9. CASE hi < BITS
  <2>1. r' = s[1] /\ base' = s[2] /\ lo' = hi /\ term' = term /\ acc' = acc /\ verdict' = verdict
    BY <1>3, <1>4, <1>9
  <2>2. lo' \in 0..BITS
    BY <1>4, <2>1, ScheduleAssumption
  <2>3. Halfway(in'[term' + 1], vk'[term' + 2], lo', r', base')
    BY <1>2, <1>5, <1>6, <1>7, <2>1
  <2> QED
    BY <1>1, <1>2, <1>8, <2>1, <2>2, <2>3 DEF TwoLoopInv
<1>10. CASE ~(hi < BITS)
  <2>1. acc' = fold(acc, s[1]) /\ lo' = 0 /\ term' = term + 1 /\ hi = BITS
    BY <1>3, <1>4, <1>10
  <2>2. PICK f \in Int : f = x * v
    OBVIOUS
  <2>3. x % twoTo[BITS] = x
    BY <1>5, LowBits, ScheduleAssumption
  <2>4. PICK b \in Group : b = multiply(f) /\ Stands(s[1], b)
    BY <1>7, <2>1, <2>2, <2>3, MultiplesAre DEF Halfway
  <2>5. f = Added(term)
    BY <1>5, <1>6, <2>2 DEF Added
  <2>6. 0 \in 0..BITS
    BY ScheduleAssumption
  <2>7. CASE term = 0
    <3>1. r' = <<0, 1, 0>> /\ base' = affine(multiply(vk[3])) /\ verdict' = verdict
      BY <1>3, <1>4, <1>10, <2>7
    <3>2. PICK c \in Int : c = vk[1] /\ c \in 1..N-1
      BY InputIs, NIs
    <3>3. PICK a \in Group : a = multiply(c) /\ a # ZERO /\ Stands(acc, a)
      BY <2>7, <3>2, Multiplied DEF TwoLoopInv, Group
    <3>4. Stands(fold(acc, s[1]), add(a, b))
      BY <2>4, <3>3, FoldIs
    <3>5. add(a, b) = multiply(c + f)
      BY <2>4, <3>3, SumOfMultiples
    <3>6. c + f = vk[1] + Added(0)
      BY <2>5, <2>7, <3>2
    <3>7. Stands(acc', Half)
      BY <2>1, <3>4, <3>5, <3>6 DEF Half
    <3>8. PICK y \in Nat : y = in[2]
      BY InputIs
    <3>9. PICK u \in 1..N-1 : u = vk[3]
      BY InputIs
    <3>10. Halfway(y, u, 0, <<0, 1, 0>>, affine(multiply(u)))
      BY ResetIs
    <3>11. term' = 1 /\ term' + 1 = 2 /\ term' + 2 = 3
      BY <2>1, <2>7
    <3>12. Halfway(in'[term' + 1], vk'[term' + 2], lo', r', base')
      BY <1>2, <2>1, <3>1, <3>8, <3>9, <3>10, <3>11
    <3> QED
      BY <1>1, <1>2, <1>8, <2>1, <2>6, <3>1, <3>7, <3>11, <3>12 DEF TwoLoopInv
  <2>8. CASE term = 1
    <3>1. verdict' = IF toAffine(acc') = vk_x THEN "accept" ELSE "reject"
      BY <1>3, <1>4, <1>10, <2>8
    <3>2. PICK g \in Int : g = vk[1] + Added(0)
      <4>1. PICK i1, v1, v2 \in Int : i1 = in[1] /\ v1 = vk[1] /\ v2 = vk[2]
        BY InputIs, NIs
      <4>2. v1 + i1 * v2 \in Int
        OBVIOUS
      <4> QED
        BY <4>1, <4>2 DEF Added
    <3>3. PICK a \in Group : a = multiply(g) /\ a = Half /\ Stands(acc, a)
      BY <2>8, <3>2, MultiplesAre DEF TwoLoopInv, Half
    <3>4. Stands(fold(acc, s[1]), IF a = ZERO THEN ZERO ELSE add(a, b))
      BY <2>4, <3>3, FoldIs
    <3>5. add(a, b) = multiply(g + f)
      BY <2>4, <3>2, <3>3, SumOfMultiples
    <3>6. vk_x = multiply(g + f)
      <4>1. g + f = vk[1] + in[1] * vk[2] + in[2] * vk[3]
        BY <2>5, <2>8, <3>2 DEF Added
      <4> QED
        BY <4>1 DEF vk_x
    <3>7. b = multiply(Added(1))
      BY <2>4, <2>5, <2>8
    <3>8. (IF a = ZERO THEN ZERO ELSE add(a, b)) = (IF Absorbed THEN ZERO ELSE vk_x)
      <4>1. a = ZERO /\ b = ZERO => add(a, b) = ZERO
        BY ZeroIs
      <4> QED
        BY <3>3, <3>5, <3>6, <3>7, <4>1 DEF Absorbed
    <3>9. term' = 2
      BY <2>1, <2>8
    <3> QED
      BY <1>1, <1>2, <1>8, <2>1, <2>6, <3>1, <3>4, <3>8, <3>9 DEF TwoLoopInv
  <2> QED
    BY <1>1, <2>7, <2>8
<1> QED
  BY <1>9, <1>10

LEMMA TwoLoopIsRight == TwoLoopInv => AcceptsUnlessAbsorbed /\ EmittedIsVkx /\ ReferenceIsAccepted
<1> SUFFICES ASSUME TwoLoopInv PROVE AcceptsUnlessAbsorbed /\ EmittedIsVkx /\ ReferenceIsAccepted
  OBVIOUS
<1>1. EmittedIsVkx
  BY DEF TwoLoopInv, EmittedIsVkx
<1>2. ReferenceIsAccepted
  <2>1. w = 0
    BY DEF TwoLoopInv
  <2>2. w \notin 1..width(sched) - 1
    BY <2>1
  <2> QED
    BY <2>2 DEF ReferenceIsAccepted
<1>3. ASSUME verdict # "none"
      PROVE  (verdict = "accept" <=> ~Absorbed) /\ (Absorbed => toAffine(acc) = ZERO)
  <2>1. term = 2
    BY <1>3 DEF TwoLoopInv
  <2>2. /\ Stands(acc, IF Absorbed THEN ZERO ELSE vk_x)
        /\ verdict = IF toAffine(acc) = vk_x THEN "accept" ELSE "reject"
    BY <2>1 DEF TwoLoopInv
  <2>3. PICK i1, i2, v1, v2, v3 \in Int :
          i1 = in[1] /\ i2 = in[2] /\ v1 = vk[1] /\ v2 = vk[2] /\ v3 = vk[3]
    BY InputIs, NIs
  <2>4. PICK g, f \in Int : /\ g = v1 + i1 * v2 /\ f = i2 * v3
                            /\ g + f = v1 + i1 * v2 + i2 * v3
    OBVIOUS
  <2>5. Half = multiply(g) /\ multiply(Added(1)) = multiply(f) /\ vk_x = multiply(g + f)
    BY <2>3, <2>4 DEF Half, Added, vk_x
  <2>6. vk_x \in Group /\ ZERO \in Group
    BY <2>5, MultiplesAre DEF Group
  <2>7. CASE Absorbed
    <3>1. toAffine(acc) = ZERO
      BY <2>2, <2>6, <2>7, AffineIs
    <3>2. multiply(g) = ZERO /\ multiply(f) # ZERO /\ multiply(f) \in Group
      BY <2>5, <2>7, MultiplesAre DEF Absorbed
    <3>3. vk_x = multiply(f)
      <4>1. add(multiply(g), multiply(f)) = multiply(g + f)
        BY SumOfMultiples
      <4> QED
        BY <2>5, <3>2, <4>1, ZeroIs
    <3>4. verdict = "reject"
      BY <2>2, <3>1, <3>2, <3>3
    <3> QED
      BY <2>7, <3>1, <3>4
  <2>8. CASE ~Absorbed
    <3>1. toAffine(acc) = vk_x
      BY <2>2, <2>6, <2>8, AffineIs
    <3> QED
      BY <2>2, <2>8, <3>1
  <2> QED
    BY <2>7, <2>8
<1>4. AcceptsUnlessAbsorbed
  BY <1>3 DEF AcceptsUnlessAbsorbed, Absorbed, Half, Added
<1> QED
  BY <1>1, <1>2, <1>4

(***************************************************************************)
(* The stage.                                                              *)
(***************************************************************************)
StageInv == StrausInv \/ TwoLoopInv

\* The accumulator, between any two chunks of any schedule, is the multiple
\* that the bits done make; in the two loops, so are R and its base.
THEOREM StageIsInvariant == StageSpec => []StageInv
<1>1. StageInit => StageInv
  BY StrausInit, TwoLoopStarts DEF StageInit, StageInv
<1>2. StageInv /\ [StageNext]_<<vars, twoVars>> => StageInv'
  <2> SUFFICES ASSUME StageInv, [StageNext]_<<vars, twoVars>> PROVE StageInv'
    OBVIOUS
  <2>1. CASE StrausInv /\ sched \in Schedules /\ Next /\ UNCHANGED twoVars
    <3>1. verdict' = verdict
      BY <2>1 DEF twoVars
    <3> QED
      BY <2>1, <3>1, StrausKept DEF StageInv
  <2>2. CASE StrausInv /\ Chunk
    BY <2>2 DEF StrausInv, Chunk, Schedules
  <2>3. CASE TwoLoopInv /\ sched \in Schedules
    BY <2>3 DEF TwoLoopInv, Schedules
  <2>4. CASE TwoLoopInv /\ Chunk
    BY <2>4, TwoLoopStep DEF StageInv
  <2>5. CASE UNCHANGED <<vars, twoVars>>
    <3>1. /\ vk' = vk /\ sched' = sched /\ in' = in /\ k' = k /\ w' = w /\ r' = r /\ out' = out
          /\ term' = term /\ lo' = lo /\ acc' = acc /\ base' = base /\ verdict' = verdict
      BY <2>5 DEF vars, twoVars
    <3>2. UNCHANGED vars
      BY <3>1 DEF vars
    <3>3. CASE StrausInv
      BY <3>1, <3>2, <3>3, StrausKept DEF StageInv
    <3>4. CASE TwoLoopInv
      <4>1. vk_x' = vk_x /\ Half' = Half /\ Absorbed' = Absorbed
        BY <3>1 DEF vk_x, Half, Absorbed, Added
      <4> QED
        BY <3>1, <3>4, <4>1 DEF TwoLoopInv, StageInv
    <3> QED
      BY <3>3, <3>4 DEF StageInv
  <2> QED
    BY <2>1, <2>2, <2>3, <2>4, <2>5 DEF StageInv, StageNext
<1> QED
  BY <1>1, <1>2, PTL DEF StageSpec

\* What the last chunk of a Straus schedule hands to the pairing stage is vk_x of
\* the inputs the first chunk committed to, for every field, curve and key, every
\* cut in chunks, all halves that pass the first chunk's checks and every inverse
\* the last one accepts.
THEOREM EmittedIsVkxAlways == StageSpec => []EmittedIsVkx
<1>1. StageInv => EmittedIsVkx
  BY StrausIsRight, TwoLoopIsRight DEF StageInv
<1> QED
  BY <1>1, StageIsInvariant, PTL

\* The reference inverse passes the last chunk's checks from every state a chunk may
\* leave, but for the plain affine form at infinity.
THEOREM ReferenceIsAcceptedAlways == StageSpec => []ReferenceIsAccepted
<1>1. StageInv => ReferenceIsAccepted
  BY StrausIsRight, TwoLoopIsRight DEF StageInv
<1> QED
  BY <1>1, StageIsInvariant, PTL

\* The two loops accept exactly when no infinity absorbs a term, whatever the number
\* of iterations a chunk has, and never a wrong point.
THEOREM AcceptsUnlessAbsorbedAlways == StageSpec => []AcceptsUnlessAbsorbed
<1>1. StrausInv => AcceptsUnlessAbsorbed
  BY DEF StrausInv, AcceptsUnlessAbsorbed
<1>2. StageInv => AcceptsUnlessAbsorbed
  BY <1>1, TwoLoopIsRight DEF StageInv
<1> QED
  BY <1>2, StageIsInvariant, PTL

(***************************************************************************)
(* The halves the vectors' builder chooses: its lattice basis, its seed,   *)
(* the candidates its bounded search reaches, and the best of them.        *)
(***************************************************************************)
LEMMA RootIs == isqrt(N) \in Nat /\ isqrt(N) >= 1
<1> DEFINE T == {s \in Nat : (s + 1) * (s + 1) > N}
<1>1. N \in T
  <2>1. (N + 1) * (N + 1) = N * N + N + (N + 1) /\ N * N \in Nat
    BY NIs
  <2> QED
    BY <2>1, NIs
<1>2. PICK x \in T : \A y \in T : x <= y
  <2>1. T \in SUBSET Nat /\ T # {}
    BY <1>1
  <2> HIDE DEF T
  <2> QED
    BY <2>1, Least
<1>3. x \in 0..N
  BY <1>1, <1>2, NIs
<1>4. x * x <= N
  <2>1. CASE x = 0
    BY <2>1, NIs
  <2>2. CASE x # 0
    <3>1. x - 1 \in Nat /\ ~(x <= x - 1)
      BY <1>3, <2>2, NIs
    <3>2. x - 1 \notin T
      BY <1>2, <3>1
    <3>3. ~(((x - 1) + 1) * ((x - 1) + 1) > N) /\ (x - 1) + 1 = x
      BY <3>1, <3>2, <1>3, NIs
    <3>4. x * x \in Int
      BY <1>3, NIs
    <3> QED
      BY <3>3, <3>4, NIs
  <2> QED
    BY <2>1, <2>2
<1>5. \E s \in 0..N : s * s <= N /\ (s + 1) * (s + 1) > N
  BY <1>2, <1>3, <1>4
<1>6. PICK s \in 0..N : s = isqrt(N) /\ (s + 1) * (s + 1) > N
  BY <1>5 DEF isqrt
<1>7. s # 0
  BY <1>6, NIs
<1> QED
  BY <1>6, <1>7, NIs

\* A remainder with its cofactor, and the next one from two of them.
Remainders == [r : Int, t : Int]
Divided(a, b) ==
  IF b.r < isqrt(N) THEN b
  ELSE [r |-> a.r - (a.r \div b.r) * b.r, t |-> a.t - (a.r \div b.r) * b.t]

LEMMA DividedIs ==
  ASSUME NEW a \in Remainders, NEW b \in Remainders
  PROVE  Divided(a, b) \in Remainders
<1>1. CASE b.r < isqrt(N)
  BY <1>1 DEF Divided
<1>2. CASE ~(b.r < isqrt(N))
  <2>1. PICK x, y, s, t \in Int : x = a.r /\ y = b.r /\ s = a.t /\ t = b.t
    BY DEF Remainders
  <2>2. y \in Nat \ {0}
    BY <1>2, <2>1, RootIs
  <2>3. PICK q \in Int : q = x \div y
    BY <2>2
  <2>4. x - q * y \in Int /\ s - q * t \in Int
    BY <2>1
  <2> QED
    BY <1>2, <2>1, <2>3, <2>4 DEF Divided, Remainders
<1> QED
  BY <1>1, <1>2

LEMMA EuclidIs ==
  /\ remainder \in [0..N -> Remainders]
  /\ remainder[0] = [r |-> N, t |-> 0] /\ remainder[1] = [r |-> LAM, t |-> 1]
  /\ \A i \in 2..N : remainder[i] = Divided(remainder[i - 2], remainder[i - 1])
<1> DEFINE S == Remainders \X Remainders
           a == <<[r |-> N, t |-> 0], [r |-> LAM, t |-> 1]>>
           F == [y \in S \X (1..N) |-> <<y[1][2], Divided(y[1][1], y[1][2])>>]
           G(f) == [i \in 0..N |-> IF i = 0 THEN [r |-> N, t |-> 0]
                                   ELSE IF i = 1 THEN [r |-> LAM, t |-> 1]
                                   ELSE Divided(f[i - 2], f[i - 1])]
<1>0. N \in Nat /\ N > 1 /\ 0 \in Int /\ 1 \in Int /\ N \in Int
  BY NIs
<1>1. a \in S
  <2>1. LAM \in Int
    BY EndomorphismAssumption, NIs
  <2> QED
    BY <1>0, <2>1 DEF Remainders
<1>2. \A x \in S, j \in 1..N : F[<<x, j>>] = <<x[2], Divided(x[1], x[2])>> /\ F[<<x, j>>] \in S
  <2> SUFFICES ASSUME NEW x \in S, NEW j \in 1..N
               PROVE  F[<<x, j>>] = <<x[2], Divided(x[1], x[2])>> /\ F[<<x, j>>] \in S
    OBVIOUS
  <2>1. F[<<x, j>>] = <<x[2], Divided(x[1], x[2])>>
    OBVIOUS
  <2>2. x[1] \in Remainders /\ x[2] \in Remainders
    OBVIOUS
  <2>3. Divided(x[1], x[2]) \in Remainders
    BY <2>2, DividedIs
  <2> QED
    BY <2>1, <2>2, <2>3
<1> HIDE DEF F
<1>3. StaysIn(F, S, N)
  BY <1>2 DEF StaysIn
<1> HIDE DEF S, a
<1>4. PICK h \in [0..N -> S] : Follows(h, a, F, N)
  BY <1>0, <1>1, <1>3, Recursion
<1>5. h[0] = a /\ \A j \in 1..N : h[j] = <<h[j - 1][2], Divided(h[j - 1][1], h[j - 1][2])>>
  <2>1. h[0] = a /\ \A j \in 1..N : h[j] = F[<<h[j - 1], j>>]
    BY <1>4 DEF Follows
  <2>2. \A j \in 1..N : j - 1 \in 0..N
    BY <1>0
  <2> QED
    BY <1>2, <1>4, <2>1, <2>2
<1> USE DEF S, a
<1> DEFINE f == [i \in 0..N |-> h[i][1]]
<1>6. f = G(f)
  <2>1. \A i \in 0..N : f[i] = h[i][1]
    OBVIOUS
  <2>2. ASSUME NEW i \in 0..N PROVE f[i] = G(f)[i]
    <3>1. CASE i = 0
      BY <1>5, <2>1, <3>1
    <3>2. CASE i = 1
      <4>1. h[1] = <<h[0][2], Divided(h[0][1], h[0][2])>>
        BY <1>0, <1>5
      <4>2. h[1][1] = [r |-> LAM, t |-> 1]
        BY <1>5, <4>1
      <4> QED
        BY <2>1, <3>2, <4>2
    <3>3. CASE i \in 2..N
      <4>1. i - 1 \in 1..N /\ i - 2 \in 0..N /\ (i - 1) - 1 = i - 2 /\ i \in 1..N /\ i - 1 \in 0..N
        BY <1>0, <3>3
      <4>2. h[i] = <<h[i - 1][2], Divided(h[i - 1][1], h[i - 1][2])>>
        BY <1>5, <4>1
      <4>3. h[i - 1] = <<h[i - 2][2], Divided(h[i - 2][1], h[i - 2][2])>>
        BY <1>5, <4>1
      <4>4. h[i][1] = Divided(h[i - 2][1], h[i - 1][1])
        BY <4>2, <4>3
      <4>5. f[i - 2] = h[i - 2][1] /\ f[i - 1] = h[i - 1][1]
        BY <2>1, <4>1
      <4>6. i # 0 /\ i # 1
        BY <3>3
      <4> QED
        BY <2>1, <4>4, <4>5, <4>6
    <3> QED
      BY <1>0, <3>1, <3>2, <3>3
  <2> HIDE DEF f
  <2>3. f = [i \in 0..N |-> f[i]]
    BY DEF f
  <2> QED
    BY <2>2, <2>3
<1> HIDE DEF f
<1>7. \E g : g = G(g)
  BY <1>6
<1>8. remainder = CHOOSE g : g = G(g)
  BY DEF remainder, Divided
<1>9. remainder = G(remainder)
  BY <1>7, <1>8
<1>10. remainder = [i \in 0..N |-> remainder[i]]
  BY <1>9
<1>11. remainder[0] = [r |-> N, t |-> 0] /\ remainder[1] = [r |-> LAM, t |-> 1]
  <2>1. 0 \in 0..N /\ 1 \in 0..N
    BY <1>0
  <2> QED
    BY <1>9, <2>1
<1>12. \A i \in 2..N : remainder[i] = Divided(remainder[i - 2], remainder[i - 1])
  <2> SUFFICES ASSUME NEW i \in 2..N PROVE remainder[i] = Divided(remainder[i - 2], remainder[i - 1])
    OBVIOUS
  <2>1. i \in 0..N /\ i # 0 /\ i # 1
    BY <1>0
  <2>2. remainder[i] = G(remainder)[i]
    BY <1>9
  <2> QED
    BY <2>1, <2>2
<1> HIDE DEF G, S
<1> DEFINE T == {i \in 0..N : remainder[i] \in Remainders /\ (i # 0 => remainder[i - 1] \in Remainders)}
<1>13. 0 \in T
  BY <1>0, <1>11 DEF Remainders
<1>14. ASSUME NEW i \in 0..N, i \in T, i < N PROVE i + 1 \in T
  <2>1. i + 1 \in 0..N /\ (i + 1) - 1 = i /\ i + 1 # 0
    BY <1>0, <1>14
  <2>2. remainder[i] \in Remainders
    BY <1>14
  <2>3. remainder[i + 1] \in Remainders
    <3>1. CASE i = 0
      <4>1. LAM \in Int
        BY EndomorphismAssumption, NIs
      <4> QED
        BY <1>0, <1>11, <3>1, <4>1 DEF Remainders
    <3>2. CASE i # 0
      <4>1. i + 1 \in 2..N /\ (i + 1) - 2 = i - 1
        BY <1>0, <1>14, <3>2
      <4>2. remainder[i + 1] = Divided(remainder[i - 1], remainder[i])
        BY <1>12, <2>1, <4>1
      <4> QED
        BY <1>14, <3>2, <4>2, DividedIs
    <3> QED
      BY <3>1, <3>2
  <2> QED
    BY <2>1, <2>2, <2>3
<1> HIDE DEF T
<1>15. \A i \in 0..N : i \in T
  BY <1>0, <1>13, <1>14, UpTo
<1>16. \A i \in 0..N : remainder[i] \in Remainders
  BY <1>15 DEF T
<1> QED
  BY <1>10, <1>11, <1>12, <1>16

\* The lattice of pairs that stand for 0, and what Euclid's rows keep: each is in
\* it, and two in a row have the determinant N, but for its sign.
Lattice(x, y) == Cong(N, x + y * LAM, 0)
Across(i) == remainder[i - 1].r * remainder[i].t - remainder[i].r * remainder[i - 1].t
Row(i) == Lattice(remainder[i].r, -remainder[i].t)
Shrinks(i) ==
  (\A j \in 1..i - 1 : remainder[j].r >= isqrt(N)) =>
    /\ remainder[i].r \in Nat /\ remainder[i].r <= N - i
    /\ Across(i) = N \/ Across(i) = -N

LEMMA LatticeIs ==
  ASSUME NEW x \in Int, NEW y \in Int, NEW u \in Int, NEW v \in Int, NEW q \in Int,
         Lattice(x, y), Lattice(u, v)
  PROVE  Lattice(x - q * u, y - q * v)
<1>1. PICK z \in Int : z = LAM
  BY EndomorphismAssumption, NIs
<1>2. PICK s \in Int : x + y * z = 0 + s * N
  BY <1>1 DEF Lattice, Cong
<1>3. PICK t \in Int : u + v * z = 0 + t * N
  BY <1>1 DEF Lattice, Cong
<1>4. (x - q * u) + (y - q * v) * z = (x + y * z) - q * (u + v * z)
  OBVIOUS
<1>5. (s * N) - q * (t * N) = (s - q * t) * N
  BY NIs
<1>6. (x - q * u) + (y - q * v) * z = 0 + (s - q * t) * N /\ s - q * t \in Int
  BY <1>2, <1>3, <1>4, <1>5, NIs
<1> QED
  BY <1>1, <1>6 DEF Lattice, Cong

LEMMA EuclidKeeps == \A i \in 1..N : Row(i - 1) /\ Row(i) /\ Shrinks(i)
<1> DEFINE T == {i \in 1..N : Row(i - 1) /\ Row(i) /\ Shrinks(i)}
<1>0. N \in Nat /\ N > 1 /\ 1 \in 1..N
  BY NIs
<1>1. 1 \in T
  <2>1. PICK z \in 0..N-1 : z = LAM
    BY EndomorphismAssumption
  <2>2. /\ remainder[0].r = N /\ remainder[0].t = 0
        /\ remainder[1].r = z /\ remainder[1].t = 1 /\ 1 - 1 = 0
    BY <2>1, EuclidIs
  <2>3. Row(0)
    <3>1. N + (-0) * z = 0 + 1 * N
      BY <1>0, <2>1
    <3> QED
      BY <2>1, <2>2, <3>1 DEF Row, Lattice, Cong
  <2>4. Row(1)
    <3>1. z + (-1) * z = 0 + 0 * N
      BY <1>0, <2>1
    <3> QED
      BY <2>1, <2>2, <3>1 DEF Row, Lattice, Cong
  <2>5. Shrinks(1)
    <3>1. Across(1) = N * 1 - z * 0
      BY <2>2 DEF Across
    <3>2. N * 1 - z * 0 = N /\ z \in Nat /\ z <= N - 1
      BY <1>0, <2>1
    <3> QED
      BY <2>2, <3>1, <3>2 DEF Shrinks
  <2> QED
    BY <1>0, <2>2, <2>3, <2>4, <2>5
<1>2. ASSUME NEW i \in 1..N, i \in T, i < N PROVE i + 1 \in T
  <2>1. i + 1 \in 1..N /\ i + 1 \in 2..N /\ (i + 1) - 1 = i /\ (i + 1) - 2 = i - 1 /\ i \in 0..N /\ i - 1 \in 0..N
    BY <1>0, <1>2
  <2>2. Row(i - 1) /\ Row(i) /\ Shrinks(i)
    BY <1>2
  <2>3. remainder[i - 1] \in Remainders /\ remainder[i] \in Remainders
    BY <2>1, EuclidIs
  <2>4. PICK a, b, s, t \in Int : /\ a = remainder[i - 1].r /\ b = remainder[i].r
                                  /\ s = remainder[i - 1].t /\ t = remainder[i].t
    BY <2>3 DEF Remainders
  <2>5. remainder[i + 1] = Divided(remainder[i - 1], remainder[i])
    BY <2>1, EuclidIs
  <2>6. CASE b < isqrt(N)
    <3>1. remainder[i + 1] = remainder[i]
      BY <2>4, <2>5, <2>6 DEF Divided
    <3>2. Row(i + 1)
      BY <2>2, <3>1 DEF Row
    <3>3. Shrinks(i + 1)
      <4>1. i \in 1..(i + 1) - 1 /\ ~(remainder[i].r >= isqrt(N))
        BY <2>1, <2>4, <2>6, RootIs
      <4> QED
        BY <4>1 DEF Shrinks
    <3> QED
      BY <2>1, <2>2, <3>2, <3>3
  <2>7. CASE ~(b < isqrt(N))
    <3>1. b \in Nat \ {0}
      BY <2>4, <2>7, RootIs
    <3>2. PICK q \in Int : q = a \div b /\ a - q * b \in 0..b-1
      <4>1. a = b * (a \div b) + (a % b) /\ a \div b \in Int /\ a % b \in 0..b-1
        BY <3>1
      <4>2. PICK q \in Int : q = a \div b
        BY <4>1
      <4>3. a - q * b = a % b
        BY <4>1, <4>2
      <4> QED
        BY <4>1, <4>2, <4>3
    <3>3. remainder[i + 1].r = a - q * b /\ remainder[i + 1].t = s - q * t
      BY <2>4, <2>5, <2>7, <3>2 DEF Divided
    <3>4. Row(i + 1)
      <4>1. Lattice(a, -s) /\ Lattice(b, -t) /\ -s \in Int /\ -t \in Int
        BY <2>2, <2>4 DEF Row
      <4>2. PICK u, v \in Int : u = -s /\ v = -t
        BY <4>1
      <4>3. Lattice(a - q * b, u - q * v)
        BY <4>1, <4>2, LatticeIs
      <4>4. u - q * v = -(s - q * t)
        BY <4>2
      <4> QED
        BY <3>3, <4>3, <4>4 DEF Row
    <3>5. Shrinks(i + 1)
      <4> SUFFICES ASSUME \A j \in 1..(i + 1) - 1 : remainder[j].r >= isqrt(N)
                   PROVE  /\ remainder[i + 1].r \in Nat /\ remainder[i + 1].r <= N - (i + 1)
                          /\ Across(i + 1) = N \/ Across(i + 1) = -N
        BY DEF Shrinks
      <4>1. \A j \in 1..i - 1 : remainder[j].r >= isqrt(N)
        BY <2>1
      <4>2. b <= N - i /\ (Across(i) = N \/ Across(i) = -N)
        BY <2>2, <2>4, <4>1 DEF Shrinks
      <4>3. remainder[i + 1].r \in Nat /\ remainder[i + 1].r <= N - (i + 1)
        BY <1>0, <3>2, <3>3, <4>2
      <4>4. Across(i) = a * t - b * s
        BY <2>4 DEF Across
      <4>5. Across(i + 1) = b * (s - q * t) - (a - q * b) * t
        BY <2>1, <2>4, <3>3 DEF Across
      <4>6. b * (s - q * t) - (a - q * b) * t = -(a * t - b * s)
        OBVIOUS
      <4>7. PICK c \in Int : c = a * t - b * s
        OBVIOUS
      <4> QED
        BY <1>0, <4>2, <4>3, <4>4, <4>5, <4>6, <4>7
    <3> QED
      BY <2>1, <2>2, <3>4, <3>5
  <2> QED
    BY <2>6, <2>7
<1> HIDE DEF T
<1>3. \A i \in 1..N : i \in T
  <2>1. 1 \in Nat
    OBVIOUS
  <2> QED
    BY <1>0, <1>1, <1>2, <2>1, FromTo
<1> QED
  BY <1>3 DEF T

LEMMA BasisIs ==
  \E a, b, c, d \in Int :
    /\ glvBasis = [a1 |-> a, b1 |-> b, a2 |-> c, b2 |-> d]
    /\ Lattice(a, b) /\ Lattice(c, d)
    /\ a * d - c * b = N \/ a * d - c * b = -N
<1> DEFINE T == {i \in 1..N : remainder[i].r < isqrt(N)}
           L == CHOOSE i \in 1..N : /\ remainder[i].r < isqrt(N)
                                    /\ \A j \in 1..i - 1 : remainder[j].r >= isqrt(N)
<1>0. N \in Nat /\ N > 1 /\ N \in 1..N
  BY NIs
<1>1. T # {}
  <2> SUFFICES ASSUME T = {} PROVE FALSE
    OBVIOUS
  <2>1. \A j \in 1..N : remainder[j].r >= isqrt(N)
    <3>1. \A j \in 1..N : remainder[j].r \in Int
      BY <1>0, EuclidIs DEF Remainders
    <3>2. \A j \in 1..N : ~(remainder[j].r < isqrt(N))
      OBVIOUS
    <3> QED
      BY <3>1, <3>2, RootIs
  <2>2. Shrinks(N)
    BY <1>0, EuclidKeeps
  <2>3. remainder[N].r <= N - N /\ remainder[N].r \in Nat
    BY <1>0, <2>1, <2>2 DEF Shrinks
  <2>4. remainder[N].r >= isqrt(N)
    BY <1>0, <2>1
  <2> QED
    BY <1>0, <2>3, <2>4, RootIs
<1>2. PICK x \in T : \A y \in T : x <= y
  <2>1. T \in SUBSET Nat
    BY <1>0
  <2> HIDE DEF T
  <2> QED
    BY <1>1, <2>1, Least
<1>3. \A j \in 1..x - 1 : remainder[j].r >= isqrt(N)
  <2> SUFFICES ASSUME NEW j \in 1..x - 1 PROVE remainder[j].r >= isqrt(N)
    OBVIOUS
  <2>1. x \in 1..N
    OBVIOUS
  <2>2. j \in 1..N /\ ~(x <= j)
    BY <1>0, <2>1
  <2>3. ~(remainder[j].r < isqrt(N))
    <3>1. j \notin T
      <4> HIDE DEF T
      <4> QED
        BY ONLY <1>2, <2>2
    <3> QED
      BY ONLY <2>2, <3>1, Zenon
  <2>4. PICK z \in Remainders : z = remainder[j]
    <3>1. j \in 0..N
      BY <1>0, <2>2
    <3> QED
      BY <3>1, EuclidIs
  <2>5. z.r \in Int
    BY DEF Remainders
  <2> QED
    BY <2>3, <2>4, <2>5, RootIs
<1>4. PICK l \in 1..N : l = L /\ \A j \in 1..l - 1 : remainder[j].r >= isqrt(N)
  <2>1. \E i \in 1..N : remainder[i].r < isqrt(N) /\ \A j \in 1..i - 1 : remainder[j].r >= isqrt(N)
    BY <1>2, <1>3
  <2> QED
    BY <2>1
<1>5. glvBasis = [a1 |-> remainder[l].r, b1 |-> -remainder[l].t,
                  a2 |-> remainder[l - 1].r, b2 |-> -remainder[l - 1].t]
  BY <1>4 DEF glvBasis
<1>6. remainder[l] \in Remainders /\ remainder[l - 1] \in Remainders
  <2>1. l \in 0..N /\ l - 1 \in 0..N
    BY <1>0
  <2> QED
    BY <2>1, EuclidIs
<1>7. PICK a, c, s, t \in Int : /\ a = remainder[l].r /\ s = remainder[l].t
                                /\ c = remainder[l - 1].r /\ t = remainder[l - 1].t
  BY <1>6 DEF Remainders
<1>8. PICK b, d \in Int : b = -s /\ d = -t
  OBVIOUS
<1>9. Lattice(a, b) /\ Lattice(c, d)
  BY <1>7, <1>8, EuclidKeeps DEF Row
<1>10. c * s - a * t = N \/ c * s - a * t = -N
  <2>1. Across(l) = N \/ Across(l) = -N
    BY <1>4, EuclidKeeps DEF Shrinks
  <2> QED
    BY <1>7, <2>1 DEF Across
<1>11. a * d - c * b = c * s - a * t
  BY <1>8
<1>12. glvBasis = [a1 |-> a, b1 |-> b, a2 |-> c, b2 |-> d]
  BY <1>5, <1>7, <1>8
<1>13. a * d - c * b = N \/ a * d - c * b = -N
  BY <1>10, <1>11
<1> WITNESS a \in Int, b \in Int, c \in Int, d \in Int
<1> QED
  BY <1>9, <1>12, <1>13

(***************************************************************************)
(* The nearest representative.                                             *)
(***************************************************************************)
LEMMA RndIs ==
  ASSUME NEW m \in Int, NEW d \in Nat \ {0}
  PROVE  rnd(m, d) \in Int
<1>1. quotient(m, d) \in Int
  <2>1. CASE m >= 0
    BY <2>1 DEF quotient
  <2>2. CASE ~(m >= 0)
    <3>1. PICK x \in Nat : x = -m
      BY <2>2
    <3>2. x \div d \in Int
      BY <3>1
    <3> QED
      BY <2>2, <3>1, <3>2 DEF quotient
  <2> QED
    BY <2>1, <2>2
<1>2. PICK q \in Int : q = quotient(m, d)
  BY <1>1
<1> QED
  BY <1>2 DEF rnd

\* What stands for n: the pairs x + y LAM is congruent to.
Represents(p, n) == p \in Int \X Int /\ p = <<p[1], p[2]>> /\ Cong(N, p[1] + p[2] * LAM, n)

LEMMA Moved ==
  ASSUME NEW x \in Int, NEW y \in Int, NEW u \in Int, NEW v \in Int, NEW q \in Int, NEW n \in Int,
         Cong(N, x + y * LAM, n), Lattice(u, v)
  PROVE  Cong(N, (x + q * u) + (y + q * v) * LAM, n)
<1>1. PICK z \in Int : z = LAM
  BY EndomorphismAssumption, NIs
<1>2. PICK s \in Int : x + y * z = n + s * N
  BY <1>1 DEF Cong
<1>3. PICK t \in Int : u + v * z = 0 + t * N
  BY <1>1 DEF Lattice, Cong
<1>4. (x + q * u) + (y + q * v) * z = (x + y * z) + q * (u + v * z)
  OBVIOUS
<1>5. (s * N) + q * (t * N) = (s + q * t) * N
  BY NIs
<1>6. (x + q * u) + (y + q * v) * z = n + (s + q * t) * N /\ s + q * t \in Int
  BY <1>2, <1>3, <1>4, <1>5, NIs
<1> QED
  BY <1>1, <1>6 DEF Cong

LEMMA MovedTwice ==
  ASSUME NEW x \in Int, NEW y \in Int, NEW i \in Int, NEW j \in Int, NEW n \in Int,
         NEW a \in Int, NEW b \in Int, NEW c \in Int, NEW d \in Int,
         Cong(N, x + y * LAM, n), Lattice(a, b), Lattice(c, d)
  PROVE  Represents(<<x + i * a + j * c, y + i * b + j * d>>, n)
<1>1. PICK u, v \in Int : u = x + i * a /\ v = y + i * b
  OBVIOUS
<1>2. Cong(N, u + v * LAM, n)
  BY <1>1, Moved
<1>3. Cong(N, (u + j * c) + (v + j * d) * LAM, n)
  BY <1>2, Moved
<1>4. PICK s, t \in Int : s = x + i * a + j * c /\ t = y + i * b + j * d
  OBVIOUS
<1>5. s = u + j * c /\ t = v + j * d
  BY <1>1, <1>4
<1>6. Cong(N, s + t * LAM, n)
  BY <1>3, <1>5
<1>7. Represents(<<s, t>>, n)
  BY <1>6 DEF Represents
<1> QED
  BY <1>4, <1>7

LEMMA NearIs ==
  ASSUME NEW n \in Int, NEW p \in near(n, glvBasis)
  PROVE  Represents(p, n)
<1>1. PICK a, b, c, d \in Int : /\ glvBasis = [a1 |-> a, b1 |-> b, a2 |-> c, b2 |-> d]
                                /\ Lattice(a, b) /\ Lattice(c, d)
  BY BasisIs
<1>2. PICK g : g = glvBasis
  OBVIOUS
<1>3. g.a1 = a /\ g.b1 = b /\ g.a2 = c /\ g.b2 = d
  BY <1>1, <1>2
<1>4. PICK c1 \in Int : c1 = rnd(g.b2 * n, N)
  <2>1. PICK m \in Int : m = g.b2 * n
    BY <1>3
  <2> QED
    BY <2>1, RndIs, NIs
<1>5. PICK c2 \in Int : c2 = rnd(-g.b1 * n, N)
  <2>1. PICK m \in Int : m = -g.b1 * n
    BY <1>3
  <2> QED
    BY <2>1, RndIs, NIs
<1> DEFINE M(e, f) == {<<n - e * g.a1 - f * g.a2 + i * g.a1 + j * g.a2,
                         -e * g.b1 - f * g.b2 + i * g.b1 + j * g.b2>> : i, j \in -1..1}
<1>a. near(n, g) = M(rnd(g.b2 * n, N), rnd(-g.b1 * n, N))
  BY DEF near
<1>b. p \in M(c1, c2)
  <2> HIDE DEF M
  <2> QED
    BY <1>2, <1>4, <1>5, <1>a
<1> DEFINE f(i, j) == <<n - c1 * g.a1 - c2 * g.a2 + i * g.a1 + j * g.a2,
                        -c1 * g.b1 - c2 * g.b2 + i * g.b1 + j * g.b2>>
<1>c. p \in {f(i, j) : i, j \in -1..1}
  BY <1>b
<1> HIDE DEF f
<1>6. PICK i, j \in -1..1 : p = f(i, j)
  BY <1>c
<1>d. PICK x \in Int : x = n - c1 * a - c2 * c
  OBVIOUS
<1>e. PICK y \in Int : y = -c1 * b - c2 * d
  <2>1. PICK s, t \in Int : s = c1 * b /\ t = c2 * d
    OBVIOUS
  <2>2. -c1 * b = -s
    BY <2>1
  <2>a. -s - t \in Int
    OBVIOUS
  <2>3. PICK y \in Int : y = -s - t
    BY <2>a
  <2> QED
    BY <2>1, <2>2, <2>3
<1>7. x = n - c1 * a - c2 * c /\ y = -c1 * b - c2 * d
  BY <1>d, <1>e
<1>8. Represents(<<x, y>>, n)
  <2>1. PICK s, t \in Int : s = -c1 /\ t = -c2
    OBVIOUS
  <2>2. PICK o \in Int : o = 0
    OBVIOUS
  <2>3. Cong(N, n + o * LAM, n)
    <3>1. LAM \in Int
      BY EndomorphismAssumption, NIs
    <3>2. n + o * LAM = n
      BY <2>2, <3>1
    <3> QED
      BY <3>2, CongSame, NIs
  <2>4. Represents(<<n + s * a + t * c, o + s * b + t * d>>, n)
    BY <1>1, <2>3, MovedTwice
  <2>5. n + s * a + t * c = x /\ o + s * b + t * d = y
    BY <1>7, <2>1, <2>2
  <2> QED
    BY <2>4, <2>5
<1>9. Cong(N, x + y * LAM, n)
  BY <1>8 DEF Represents
<1>10. Represents(<<x + i * a + j * c, y + i * b + j * d>>, n)
  <2>1. i \in Int /\ j \in Int
    OBVIOUS
  <2> QED
    BY <1>1, <1>9, <2>1, MovedTwice
<1>11. p = <<x + i * a + j * c, y + i * b + j * d>>
  <2>1. p = <<n - c1 * a - c2 * c + i * a + j * c, -c1 * b - c2 * d + i * b + j * d>>
    BY <1>3, <1>6 DEF f
  <2> QED
    BY <1>7, <2>1
<1> QED
  BY <1>10, <1>11

\* The seed, where the builder does not throw, is in the box and stands for n.
LEMMA SeedIs ==
  ASSUME NEW n \in Int, splits(n)
  PROVE  Represents(glvDecompose(n), n) /\ inBox(glvDecompose(n))
<1> DEFINE Q == {p \in near(n, glvBasis) : p[1] >= 0 /\ p[2] >= 0}
           R == {larger(p) : p \in Q}
<1>1. glvDecompose(n) = smallest(Q) /\ glvDecompose(n) # <<>> /\ inBox(glvDecompose(n))
  BY DEF splits, seeds, glvDecompose
<1>2. Q # {}
  BY <1>1 DEF smallest
<1>3. ASSUME NEW p \in Q PROVE larger(p) \in Nat /\ Represents(p, n)
  <2>1. Represents(p, n) /\ p[1] >= 0 /\ p[2] >= 0
    BY NearIs
  <2> QED
    BY <2>1 DEF Represents, larger
<1> HIDE DEF Q
<1>4. R \in SUBSET Nat /\ R # {}
  BY <1>2, <1>3
<1>5. PICK m \in R : \A l \in R : m <= l
  <2> HIDE DEF R
  <2> QED
    BY <1>4, Least
<1>6. \E p \in Q : \A q \in Q : larger(p) <= larger(q)
  BY <1>5
<1>7. smallest(Q) \in Q
  BY <1>2, <1>6 DEF smallest
<1> QED
  BY <1>1, <1>3, <1>7

(***************************************************************************)
(* The candidates are all that pass: Cramer's rule.                        *)
(***************************************************************************)
LEMMA AbsIs == \A y \in Int : abs(y) \in Nat
BY DEF abs

Within(g, x) == -g <= x /\ x <= g

LEMMA ProductBound ==
  ASSUME NEW g \in Nat, NEW x \in Int, Within(g, x), NEW y \in Int
  PROVE  Within(g * abs(y), x * y)
<1>0. -g <= x /\ x <= g
  BY DEF Within
<1>1. CASE y < 0
  <2>1. PICK t \in Nat : t = -y
    BY <1>1
  <2>2. abs(y) = t /\ x * y = -(x * t)
    BY <1>1, <2>1 DEF abs
  <2>3. x * t <= g * t /\ (-g) * t <= x * t /\ (-g) * t = -(g * t)
    BY <1>0
  <2>4. PICK u, v \in Int : u = g * t /\ v = x * t
    OBVIOUS
  <2> QED
    BY <2>2, <2>3, <2>4 DEF Within
<1>2. CASE ~(y < 0)
  <2>1. y \in Nat /\ abs(y) = y
    BY <1>2 DEF abs
  <2>2. x * y <= g * y /\ (-g) * y <= x * y /\ (-g) * y = -(g * y)
    BY <1>0, <2>1
  <2> QED
    BY <2>1, <2>2 DEF Within
<1> QED
  BY <1>1, <1>2

LEMMA Ceiling ==
  ASSUME NEW m \in Nat, NEW q \in Int, q * N <= m
  PROVE  (m + N - 1) \div N + 1 \in Nat /\ q <= (m + N - 1) \div N + 1
<1>0. N \in Nat \ {0}
  BY NIs
<1>1. PICK x \in Nat : x = m + N - 1
  BY <1>0
<1>2. x = N * (x \div N) + (x % N) /\ x \div N \in Nat /\ x % N \in 0..N-1
  BY <1>0, DivIs
<1>3. PICK z \in Nat : z = x \div N
  BY <1>2
<1>4. m <= N * z
  BY <1>0, <1>1, <1>2, <1>3
<1>5. ASSUME q >= z + 1 PROVE FALSE
  <2>1. q * N >= (z + 1) * N
    BY <1>0, <1>5
  <2>2. (z + 1) * N = N * z + N
    BY <1>0
  <2> QED
    BY <1>0, <1>4, <2>1, <2>2
<1> QED
  BY <1>1, <1>3, <1>5

LEMMA CancelN ==
  ASSUME NEW x \in Int, NEW y \in Int, x * N = y * N
  PROVE  x = y
<1>0. N \in Nat \ {0}
  BY NIs
<1>1. x > y => x * N > y * N
  BY <1>0
<1>2. x < y => x * N < y * N
  BY <1>0
<1> QED
  BY <1>0, <1>1, <1>2

\* A vector of the lattice is a sum of the two, with coefficients by Cramer's rule.
Basis(a, b, c, d) ==
  Lattice(a, b) /\ Lattice(c, d) /\ (a * d - c * b = N \/ a * d - c * b = -N)
Coefficient(i, x, y, c, d) == i * N = x * d - y * c \/ i * N = -(x * d - y * c)

LEMMA Cramer ==
  ASSUME NEW a \in Int, NEW b \in Int, NEW c \in Int, NEW d \in Int, Basis(a, b, c, d),
         NEW x \in Int, NEW y \in Int, Lattice(x, y)
  PROVE  \E i, j \in Int : /\ x = i * a + j * c /\ y = i * b + j * d
                           /\ Coefficient(i, x, y, c, d) /\ Coefficient(j, x, y, a, b)
<1>0. N \in Int /\ N \in Nat \ {0}
  BY NIs
<1>1. PICK z \in Int : z = LAM
  BY EndomorphismAssumption, NIs
<1>2. PICK s \in Int : a + b * z = 0 + s * N
  BY <1>1 DEF Basis, Lattice, Cong
<1>3. PICK t \in Int : c + d * z = 0 + t * N
  BY <1>1 DEF Basis, Lattice, Cong
<1>4. PICK u \in Int : x + y * z = 0 + u * N
  BY <1>1 DEF Lattice, Cong
<1>5. PICK e \in Int : e = u * d - y * t /\ e * N = x * d - y * c
  <2>1. x * d - y * c = (x + y * z) * d - y * (c + d * z)
    OBVIOUS
  <2>2. (u * N) * d - y * (t * N) = (u * d - y * t) * N
    BY <1>0
  <2>3. x + y * z = u * N /\ c + d * z = t * N
    BY <1>0, <1>3, <1>4
  <2>4. x * d - y * c = (u * N) * d - y * (t * N)
    BY <2>1, <2>3
  <2>5. PICK e \in Int : e = u * d - y * t
    OBVIOUS
  <2> QED
    BY <2>2, <2>4, <2>5
<1>6. PICK f \in Int : f = s * y - u * b /\ f * N = a * y - b * x
  <2>1. a * y - b * x = (a + b * z) * y - b * (x + y * z)
    OBVIOUS
  <2>2. (s * N) * y - b * (u * N) = (s * y - u * b) * N
    BY <1>0
  <2>3. x + y * z = u * N /\ a + b * z = s * N
    BY <1>0, <1>2, <1>4
  <2>4. a * y - b * x = (s * N) * y - b * (u * N)
    BY <2>1, <2>3
  <2>5. PICK f \in Int : f = s * y - u * b
    OBVIOUS
  <2> QED
    BY <2>2, <2>4, <2>5
<1>7. PICK g \in Int : g = a * d - c * b
  OBVIOUS
<1>8. (e * a + f * c) * N = x * g /\ (e * b + f * d) * N = y * g
  <2>1. (x * d - y * c) * a + (a * y - b * x) * c = x * (a * d - c * b)
    OBVIOUS
  <2>2. (x * d - y * c) * b + (a * y - b * x) * d = y * (a * d - c * b)
    OBVIOUS
  <2>3. (e * a + f * c) * N = (e * N) * a + (f * N) * c
    BY <1>0
  <2>4. (e * b + f * d) * N = (e * N) * b + (f * N) * d
    BY <1>0
  <2>5. PICK v, m \in Int : v = e * N /\ m = f * N
    BY <1>0
  <2>6. v = x * d - y * c /\ m = a * y - b * x
    BY <1>5, <1>6, <2>5
  <2>7. v * a + m * c = x * g
    BY <1>7, <2>1, <2>6
  <2>8. v * b + m * d = y * g
    BY <1>7, <2>2, <2>6
  <2> QED
    BY <2>3, <2>4, <2>5, <2>7, <2>8
<1>9. CASE g = N
  <2>1. PICK m \in Int : m = e * a + f * c
    OBVIOUS
  <2>2. PICK l \in Int : l = e * b + f * d
    OBVIOUS
  <2>3. m * N = x * N /\ l * N = y * N
    BY <1>8, <1>9, <2>1, <2>2
  <2>4. m = x /\ l = y
    BY <2>3, CancelN
  <2>5. x = e * a + f * c /\ y = e * b + f * d
    BY <2>1, <2>2, <2>4
  <2>6. f * N = -(x * b - y * a)
    BY <1>6
  <2> QED
    BY <1>5, <2>5, <2>6 DEF Coefficient
<1>10. CASE g = -N
  <2>1. PICK i, j \in Int : i = -e /\ j = -f
    OBVIOUS
  <2>2. PICK m \in Int : m = i * a + j * c
    OBVIOUS
  <2>3. PICK l \in Int : l = i * b + j * d
    OBVIOUS
  <2>4. m = -(e * a + f * c) /\ l = -(e * b + f * d)
    BY <2>1, <2>2, <2>3
  <2>5. PICK v, u1 \in Int : v = e * a + f * c /\ u1 = e * b + f * d
    OBVIOUS
  <2>6. v * N = x * (-N) /\ u1 * N = y * (-N)
    BY <1>8, <1>10, <2>5
  <2>7. x * (-N) = -(x * N) /\ y * (-N) = -(y * N) /\ (-v) * N = -(v * N) /\ (-u1) * N = -(u1 * N)
    BY <1>0
  <2>8. PICK x1, y1 \in Int : x1 = x * N /\ y1 = y * N
    BY <1>0
  <2>9. m * N = x * N /\ l * N = y * N
    BY <2>4, <2>5, <2>6, <2>7, <2>8
  <2>10. m = x /\ l = y
    BY <2>9, CancelN
  <2>11. x = i * a + j * c /\ y = i * b + j * d
    BY <2>2, <2>3, <2>10
  <2>12. i * N = -(e * N) /\ j * N = -(f * N)
    BY <1>0, <2>1
  <2>13. i * N = -(x * d - y * c) /\ j * N = x * b - y * a
    BY <1>5, <1>6, <2>12
  <2> QED
    BY <2>11, <2>13 DEF Coefficient
<1>11. g = N \/ g = -N
  BY <1>7 DEF Basis
<1> QED
  BY <1>9, <1>10, <1>11

\* A coefficient by Cramer's rule is within the bound of the search.
Reach(g, c, d) == (g * (abs(c) + abs(d)) + N - 1) \div N + 1

LEMMA WithinReach ==
  ASSUME NEW g \in Nat, NEW x \in Int, NEW y \in Int, Within(g, x), Within(g, y),
         NEW c \in Int, NEW d \in Int, NEW i \in Int, Coefficient(i, x, y, c, d)
  PROVE  Reach(g, c, d) \in Nat /\ Within(Reach(g, c, d), i)
<1>0. N \in Int
  BY NIs
<1>1. PICK s, t \in Nat : s = abs(c) /\ t = abs(d)
  BY AbsIs
<1>2. PICK u \in Int : u = x * d /\ -(g * t) <= u /\ u <= g * t
  <2>1. Within(g * abs(d), x * d)
    BY ProductBound
  <2> QED
    BY <1>1, <2>1 DEF Within
<1>3. PICK v \in Int : v = y * c /\ -(g * s) <= v /\ v <= g * s
  <2>1. Within(g * abs(c), y * c)
    BY ProductBound
  <2> QED
    BY <1>1, <2>1 DEF Within
<1>4. PICK m \in Nat : m = g * (s + t) /\ m = g * s + g * t
  OBVIOUS
<1>5. PICK e, f \in Nat : e = g * s /\ f = g * t
  OBVIOUS
<1>6. i * N = u - v \/ i * N = -(u - v)
  BY <1>2, <1>3 DEF Coefficient
<1>7. PICK h \in Int : h = i * N
  BY <1>0
<1>8. h <= m /\ -h <= m
  BY <1>2, <1>3, <1>4, <1>5, <1>6, <1>7
<1>9. PICK q \in Int : q = -i
  OBVIOUS
<1>10. q * N = -h
  BY <1>0, <1>7, <1>9
<1>11. i * N <= m /\ q * N <= m
  BY <1>7, <1>8, <1>10
<1>12. /\ (m + N - 1) \div N + 1 \in Nat /\ i <= (m + N - 1) \div N + 1
       /\ q <= (m + N - 1) \div N + 1
  BY <1>11, Ceiling
<1>13. PICK z \in Nat : z = (m + N - 1) \div N + 1
  BY <1>12
<1>14. Within(z, i)
  BY <1>9, <1>12, <1>13 DEF Within
<1>15. Reach(g, c, d) = z
  BY <1>1, <1>4, <1>13 DEF Reach
<1> QED
  BY <1>14, <1>15

LEMMA CandidatesAre ==
  ASSUME NEW n \in 0..N-1, splits(n)
  PROVE  /\ Candidates[n] # {}
         /\ \A p \in Candidates[n] :
              p \in Nat \X Nat /\ p = <<p[1], p[2]>> /\ bindsWitness(p[1], p[2], n)
         /\ \A x, y \in Int : bindsWitness(x, y, n) => <<x, y>> \in Candidates[n]
<1>0. N \in Nat \ {0} /\ N \in Int /\ n \in Int /\ LAM \in Int
  BY NIs, EndomorphismAssumption
<1>1. PICK a, b, c, d \in Int : /\ glvBasis = [a1 |-> a, b1 |-> b, a2 |-> c, b2 |-> d]
                                /\ Basis(a, b, c, d)
  BY BasisIs DEF Basis
<1>2. PICK v : v = glvBasis
  OBVIOUS
<1>3. v.a1 = a /\ v.b1 = b /\ v.a2 = c /\ v.b2 = d
  BY <1>1, <1>2
<1>4. PICK x0, y0 \in Int : /\ glvDecompose(n) = <<x0, y0>>
                            /\ Cong(N, x0 + y0 * LAM, n) /\ inBox(<<x0, y0>>)
  <2>1. Represents(glvDecompose(n), n) /\ inBox(glvDecompose(n))
    BY <1>0, SeedIs
  <2>2. PICK x0, y0 \in Int : x0 = glvDecompose(n)[1] /\ y0 = glvDecompose(n)[2]
    BY <2>1 DEF Represents
  <2>3. glvDecompose(n) = <<x0, y0>> /\ Cong(N, x0 + y0 * LAM, n)
    BY <2>1, <2>2 DEF Represents
  <2> QED
    BY <2>1, <2>3
<1>5. PICK g \in Nat \ {0} : g = GLV_BOUND
  BY ScheduleAssumption, TwoToIs DEF GLV_BOUND
<1>6. \A x, y \in Int : inBox(<<x, y>>) <=> x >= 0 /\ x < g /\ y >= 0 /\ y < g
  BY <1>5 DEF inBox
<1>7. x0 >= 0 /\ x0 < g /\ y0 >= 0 /\ y0 < g
  BY <1>4, <1>6
<1> DEFINE I == iBound(v)
           J == jBound(v)
           at(i, j) == <<x0 + i * a + j * c, y0 + i * b + j * d>>
<1>8. I = Reach(g, c, d) /\ J = Reach(g, a, b)
  BY <1>3, <1>5 DEF iBound, jBound, Reach
<1>9. Candidates[n] = {p \in {at(i, j) : i \in -I..I, j \in -J..J} : inBox(p)}
  <2>1. Candidates[n] = candidates(<<x0, y0>>, v)
    BY <1>2, <1>4 DEF Candidates
  <2>2. candidates(<<x0, y0>>, v) = bounded(<<x0, y0>>, v, I, J)
    BY DEF candidates
  <2> HIDE DEF I, J
  <2>3. bounded(<<x0, y0>>, v, I, J)
          = {p \in {at(i, j) : i \in -I..I, j \in -J..J} : inBox(p)}
    BY <1>3 DEF bounded
  <2> QED
    BY <2>1, <2>2, <2>3
<1> HIDE DEF I, J
<1>10. \A i, j \in Int : at(i, j) \in Int \X Int /\ Represents(at(i, j), n)
  <2> SUFFICES ASSUME NEW i \in Int, NEW j \in Int
               PROVE  at(i, j) \in Int \X Int /\ Represents(at(i, j), n)
    OBVIOUS
  <2>1. Represents(at(i, j), n)
    BY <1>0, <1>1, <1>4, MovedTwice DEF Basis
  <2> QED
    BY <2>1
<1> HIDE DEF at
<1>11. I \in Nat /\ J \in Nat
  <2>1. PICK o \in Int : o = 0
    OBVIOUS
  <2>2. PICK h \in Nat : h = g
    OBVIOUS
  <2>3. Within(h, o)
    BY <2>1 DEF Within
  <2>4. Coefficient(o, o, o, c, d) /\ Coefficient(o, o, o, a, b)
    BY <1>0, <2>1 DEF Coefficient
  <2>5. Reach(h, c, d) \in Nat
    BY <2>3, <2>4, WithinReach
  <2>6. Reach(h, a, b) \in Nat
    BY <2>3, <2>4, WithinReach
  <2> QED
    BY <1>8, <2>2, <2>5, <2>6
<1>12. ASSUME NEW p \in Candidates[n]
       PROVE  p \in Nat \X Nat /\ p = <<p[1], p[2]>> /\ bindsWitness(p[1], p[2], n)
  <2>1. PICK i \in -I..I, j \in -J..J : p = at(i, j) /\ inBox(p)
    BY <1>9
  <2>2. i \in Int /\ j \in Int
    BY <1>11
  <2>3. p \in Int \X Int /\ Cong(N, p[1] + p[2] * LAM, n) /\ p = <<p[1], p[2]>>
    BY <1>10, <2>1, <2>2 DEF Represents
  <2>4. PICK x, y \in Int : x = p[1] /\ y = p[2] /\ p = <<x, y>>
    BY <2>3
  <2>5. x >= 0 /\ x < g /\ y >= 0 /\ y < g
    BY <1>6, <2>1, <2>4
  <2>6. (x + y * LAM) % N = n
    <3>1. PICK z \in Int : z = x + y * LAM /\ Cong(N, z, n)
      BY <1>0, <2>3, <2>4
    <3>2. z % N = n % N
      BY <1>0, <3>1, CongMod
    <3>3. n % N = n
      BY MultiplesAre
    <3> QED
      BY <3>1, <3>2, <3>3
  <2> QED
    BY <1>5, <2>4, <2>5, <2>6 DEF bindsWitness
<1>13. ASSUME NEW x \in Int, NEW y \in Int, bindsWitness(x, y, n)
       PROVE  <<x, y>> \in Candidates[n]
  <2>1. x >= 0 /\ x < g /\ y >= 0 /\ y < g /\ (x + y * LAM) % N = n
    BY <1>5, <1>13 DEF bindsWitness
  <2>2. Cong(N, x + y * LAM, n)
    <3>1. PICK z \in Int : z = x + y * LAM
      BY <1>0
    <3>2. z % N = n % N
      BY <1>0, <2>1, <3>1
    <3> QED
      BY <1>0, <3>1, <3>2, CongMod
  <2>3. PICK dx, dy \in Int : dx = x - x0 /\ dy = y - y0
    OBVIOUS
  <2>4. Lattice(dx, dy)
    <3>1. PICK z, z0 \in Int : z = x + y * LAM /\ z0 = x0 + y0 * LAM
      BY <1>0
    <3>2. Cong(N, z - z0, n - n)
      BY <1>0, <1>4, <2>2, <3>1, CongSum
    <3>3. z - z0 = dx + dy * LAM /\ n - n = 0
      BY <1>0, <2>3, <3>1
    <3> QED
      BY <3>2, <3>3 DEF Lattice
  <2>5. PICK i, j \in Int : /\ dx = i * a + j * c /\ dy = i * b + j * d
                            /\ Coefficient(i, dx, dy, c, d) /\ Coefficient(j, dx, dy, a, b)
    BY <1>1, <2>4, Cramer
  <2>6. -g <= dx /\ dx <= g /\ -g <= dy /\ dy <= g
    BY <1>7, <2>1, <2>3
  <2>7. PICK h \in Nat : h = g /\ Within(h, dx) /\ Within(h, dy)
    BY <2>6 DEF Within
  <2>8. i \in -I..I
    <3>1. Within(Reach(h, c, d), i)
      BY <2>5, <2>7, WithinReach
    <3> QED
      BY <1>8, <1>11, <2>7, <3>1 DEF Within
  <2>9. j \in -J..J
    <3>1. Within(Reach(h, a, b), j)
      BY <2>5, <2>7, WithinReach
    <3> QED
      BY <1>8, <1>11, <2>7, <3>1 DEF Within
  <2>10. <<x, y>> = at(i, j)
    <3>1. x = x0 + i * a + j * c /\ y = y0 + i * b + j * d
      BY <2>3, <2>5
    <3> QED
      BY <3>1 DEF at
  <2>11. inBox(<<x, y>>)
    BY <1>6, <2>1
  <2> QED
    BY <1>9, <2>8, <2>9, <2>10, <2>11
<1>14. Candidates[n] # {}
  <2>1. (x0 + y0 * LAM) % N = n
    <3>1. PICK z \in Int : z = x0 + y0 * LAM /\ Cong(N, z, n)
      BY <1>0, <1>4
    <3>2. z % N = n % N
      BY <1>0, <3>1, CongMod
    <3>3. n % N = n
      BY MultiplesAre
    <3> QED
      BY <3>1, <3>2, <3>3
  <2>2. bindsWitness(x0, y0, n)
    BY <1>5, <1>7, <2>1 DEF bindsWitness
  <2> QED
    BY <1>13, <2>2
<1> QED
  BY <1>12, <1>13, <1>14

LEMMA Joined ==
  ASSUME NEW a \in Nat, NEW b \in Nat, NEW c \in Nat, NEW d \in Nat, NEW e \in Nat, NEW f \in Nat
  PROVE  <<a, b>> \o <<c, d>> \o <<e, f>> = <<a, b, c, d, e, f>>
<1>0. <<a, b>> \in Seq(Nat) /\ <<c, d>> \in Seq(Nat) /\ <<e, f>> \in Seq(Nat)
  OBVIOUS
<1>1. PICK s, t, u \in Seq(Nat) : s = <<a, b>> /\ t = <<c, d>> /\ u = <<e, f>>
  BY <1>0
<1>2. Len(s) = 2 /\ Len(t) = 2 /\ Len(u) = 2
  BY <1>1
<1>3. PICK x \in Seq(Nat) : /\ x = s \o t /\ Len(x) = Len(s) + Len(t)
                           /\ \A i \in 1..Len(s) + Len(t) :
                                x[i] = IF i <= Len(s) THEN s[i] ELSE t[i - Len(s)]
  <2>1. s \o t \in Seq(Nat)
    BY ConcatProperties
  <2> QED
    BY <2>1, ConcatProperties
<1>4. Len(x) = 4 /\ \A i \in 1..4 : x[i] = IF i <= 2 THEN s[i] ELSE t[i - 2]
  BY <1>2, <1>3
<1>5. PICK y \in Seq(Nat) : /\ y = x \o u /\ Len(y) = Len(x) + Len(u)
                           /\ \A i \in 1..Len(x) + Len(u) :
                                y[i] = IF i <= Len(x) THEN x[i] ELSE u[i - Len(x)]
  <2>1. x \o u \in Seq(Nat)
    BY ConcatProperties
  <2> QED
    BY <2>1, ConcatProperties
<1>6. Len(y) = 6 /\ \A i \in 1..6 : y[i] = IF i <= 4 THEN x[i] ELSE u[i - 4]
  <2>1. Len(x) = 4 /\ Len(u) = 2
    BY <1>2, <1>4
  <2>2. Len(y) = 6 /\ Len(x) + Len(u) = 6
    BY <1>5, <2>1
  <2>3. \A i \in 1..6 : y[i] = IF i <= Len(x) THEN x[i] ELSE u[i - Len(x)]
    BY <1>5, <2>2
  <2> QED
    BY <2>1, <2>2, <2>3
<1>7. y[1] = a /\ y[2] = b /\ y[3] = c /\ y[4] = d /\ y[5] = e /\ y[6] = f
  BY <1>1, <1>4, <1>6
<1>8. PICK z \in Seq(Nat) : z = <<a, b, c, d, e, f>>
  <2>1. <<a, b, c, d, e, f>> \in Seq(Nat)
    OBVIOUS
  <2> QED
    BY <2>1
<1>9. Len(z) = 6 /\ \A i \in 1..6 : y[i] = z[i]
  BY <1>7, <1>8
<1>10. y = z
  BY <1>6, <1>9, SeqEqual
<1> QED
  BY <1>1, <1>3, <1>5, <1>8, <1>10

LEMMA Paired ==
  ASSUME NEW s, NEW m \in Int, s[m] \in Int, s[m + 1] \in Int
  PROVE  SubSeq(s, m, m + 1) = <<s[m], s[m + 1]>>
<1>1. PICK n \in Int : n = m + 1
  OBVIOUS
<1>2. \A i \in m..n : s[i] \in Int
  BY <1>1
<1>3. PICK x \in Seq(Int) : x = SubSeq(s, m, n)
  BY <1>2, SubSeqProperties
<1>4. Len(x) = 2 /\ x[1] = s[m] /\ x[2] = s[m + 1]
  <2>1. Len(x) = IF m <= n THEN n - m + 1 ELSE 0
    BY <1>2, <1>3, SubSeqProperties
  <2>2. \A i \in 1..n - m + 1 : x[i] = s[m + i - 1]
    BY <1>2, <1>3, SubSeqProperties
  <2> QED
    BY <1>1, <2>1, <2>2
<1>5. PICK y \in Seq(Int) : y = <<s[m], s[m + 1]>>
  <2>1. <<s[m], s[m + 1]>> \in Seq(Int)
    OBVIOUS
  <2> QED
    BY <2>1
<1>6. Len(y) = 2 /\ y[1] = s[m] /\ y[2] = s[m + 1]
  BY <1>5
<1>7. x = y
  <2>1. ASSUME NEW i \in 1..Len(x) PROVE x[i] = y[i]
    <3>1. i = 1 \/ i = 2
      BY <1>4
    <3> QED
      BY <1>4, <1>6, <3>1
  <2>2. Len(x) = Len(y)
    BY <1>4, <1>6
  <2> QED
    BY <2>1, <2>2, SeqEqual
<1> QED
  BY <1>1, <1>3, <1>5, <1>7

LEMMA Parted ==
  ASSUME NEW z \in Seq(Nat), Len(z) = 6
  PROVE  /\ z \in [1..6 -> Nat]
         /\ SubSeq(z, 3, 4) = <<z[3], z[4]>> /\ SubSeq(z, 5, 6) = <<z[5], z[6]>>
<1>1. z \in [1..6 -> Nat]
  BY LenProperties
<1>2. PICK t, v \in Int : t = 3 /\ v = 5
  OBVIOUS
<1>3. SubSeq(z, t, t + 1) = <<z[t], z[t + 1]>> /\ SubSeq(z, v, v + 1) = <<z[v], z[v + 1]>>
  <2>1. z[t] \in Int /\ z[t + 1] \in Int /\ z[v] \in Int /\ z[v + 1] \in Int
    BY <1>1, <1>2
  <2> QED
    BY <2>1, Paired
<1> QED
  BY <1>1, <1>2, <1>3

LEMMA Quartered ==
  ASSUME NEW ks \in OFFERED \X OFFERED \X OFFERED \X OFFERED
  PROVE  SubSeq(ks, 1, 2) = <<ks[1], ks[2]>> /\ SubSeq(ks, 3, 4) = <<ks[3], ks[4]>>
<1>1. ks[1] \in Int /\ ks[2] \in Int /\ ks[3] \in Int /\ ks[4] \in Int
  BY ScheduleAssumption
<1>2. PICK t, v \in Int : t = 1 /\ v = 3
  OBVIOUS
<1>3. ks[t] \in Int /\ ks[t + 1] \in Int /\ ks[v] \in Int /\ ks[v + 1] \in Int
  BY <1>1, <1>2
<1>4. SubSeq(ks, t, t + 1) = <<ks[t], ks[t + 1]>> /\ SubSeq(ks, v, v + 1) = <<ks[v], ks[v + 1]>>
  BY <1>3, Paired
<1> QED
  BY <1>2, <1>4

\* A score is two numbers before the halves it is of.
Scores == [1..6 -> Nat]

LEMMA ScoreIs ==
  ASSUME NEW h \in Nat \X Nat, NEW m \in Nat \X Nat
  PROVE  \E c, l \in Nat : score(h, m) = <<c, l>> \o h \o m
<1> DEFINE u == union(h, m)
<1>0. ITERS \in Nat /\ IsFiniteSet(0..ITERS - 1)
  <2>1. ITERS \in Nat
    BY ScheduleAssumption
  <2>2. PICK t \in Int : t = ITERS - 1
    BY <2>1
  <2> QED
    BY <2>1, <2>2, FS_Interval
<1>1. u \in SUBSET (0..ITERS - 1)
  BY DEF union
<1>2. Cardinality(u) \in Nat
  BY <1>0, <1>1, FS_Subset, FS_CardinalityType
<1>3. length(h, m) \in Nat
  <2>0. length(h, m) = IF u = {} THEN 0 ELSE 1 + CHOOSE i \in u : \A j \in u : j <= i
    BY DEF length
  <2> HIDE DEF u
  <2>1. CASE u = {}
    BY <2>0, <2>1
  <2>2. CASE u # {}
    <3> DEFINE T == {y \in Nat : \E x \in u : y = ITERS - 1 - x}
    <3>0. \A x \in u : ITERS - 1 - x \in Nat /\ x \in Nat
      BY <1>0, <1>1
    <3>1. T \in SUBSET Nat /\ T # {}
      <4>1. PICK x \in u : TRUE
        BY <2>2
      <4>2. ITERS - 1 - x \in T
        BY <3>0, <4>1
      <4> QED
        BY <4>2
    <3> HIDE DEF T
    <3>2. PICK y \in T : \A z \in T : y <= z
      BY <3>1, Least
    <3> USE DEF T
    <3>3. PICK x \in u : y = ITERS - 1 - x
      BY <3>2
    <3>4. ASSUME NEW j \in u PROVE j <= x
      <4>1. ITERS - 1 - j \in T
        BY <3>0
      <4>2. PICK z \in T : z = ITERS - 1 - j
        BY <4>1
      <4>3. y <= z
        BY <3>2, <4>2
      <4>4. j \in Nat /\ x \in Nat
        BY <3>0, <3>3
      <4> QED
        BY <1>0, <3>3, <4>2, <4>3, <4>4
    <3>5. PICK i \in u : i = CHOOSE i0 \in u : \A j \in u : j <= i0
      BY <3>3, <3>4
    <3>6. length(h, m) = 1 + i /\ i \in Nat
      BY <2>0, <2>2, <3>0, <3>5
    <3> QED
      BY <3>6
  <2> QED
    BY <2>1, <2>2
<1> QED
  BY <1>2, <1>3 DEF score

\* Of any scores, one is such that none is better.
AsFar(t, s, i) == \A j \in 1..i : t[j] = s[j]
Leading(S, s, i) == \A t \in S, q \in 1..i : AsFar(t, s, q - 1) => t[q] >= s[q]

LEMMA Lexical ==
  ASSUME NEW S \in SUBSET Scores, S # {}
  PROVE  \E s \in S : \A t \in S : ~better(t, s)
<1> DEFINE T == {i \in 0..6 : \E s \in S : Leading(S, s, i)}
<1>1. 0 \in T
  BY DEF Leading
<1>2. ASSUME NEW i \in 0..6, i \in T, i < 6 PROVE i + 1 \in T
  <2>1. PICK s \in S : Leading(S, s, i)
    BY <1>2
  <2> DEFINE A == {t \in S : AsFar(t, s, i)}
             V == {v \in Nat : \E t \in A : v = t[i + 1]}
  <2>2. V \in SUBSET Nat /\ V # {}
    <3>1. s \in A /\ s[i + 1] \in Nat
      BY <1>2 DEF AsFar, Scores
    <3> QED
      BY <3>1
  <2>3. PICK v \in V : \A y \in V : v <= y
    <3> HIDE DEF V
    <3> QED
      BY <2>2, Least
  <2>4. PICK z \in A : v = z[i + 1]
    BY <2>3
  <2>5. ASSUME NEW t \in S, NEW q \in 1..i + 1, AsFar(t, z, q - 1) PROVE t[q] >= z[q]
    <3>1. CASE q = i + 1
      <4>1. t \in A
        BY <1>2, <2>4, <2>5, <3>1 DEF AsFar
      <4>2. t[i + 1] \in V
        BY <1>2, <4>1 DEF Scores
      <4> QED
        BY <1>2, <2>3, <2>4, <3>1, <4>2
    <3>2. CASE q # i + 1
      <4>1. q \in 1..i /\ AsFar(t, s, q - 1)
        BY <1>2, <2>4, <2>5, <3>2 DEF AsFar
      <4>2. t[q] >= s[q] /\ z[q] = s[q]
        BY <2>1, <2>4, <4>1 DEF Leading, AsFar
      <4> QED
        BY <4>2
    <3> QED
      BY <3>1, <3>2
  <2>6. Leading(S, z, i + 1)
    BY <2>5 DEF Leading
  <2> QED
    BY <1>2, <2>4, <2>6
<1>3. 6 \in T
  <2>1. PICK six \in Nat : six = 6
    OBVIOUS
  <2> HIDE DEF T
  <2>2. \A i \in 0..six : i \in T
    BY <1>1, <1>2, <2>1, UpTo
  <2> QED
    BY <2>1, <2>2
<1>4. PICK s \in S : Leading(S, s, 6)
  BY <1>3
<1>5. ASSUME NEW t \in S, better(t, s) PROVE FALSE
  <2>1. PICK i \in 1..6 : t[i] < s[i] /\ \A j \in 1..i - 1 : t[j] = s[j]
    BY <1>5 DEF better, Scores
  <2>2. t[i] >= s[i]
    BY <1>4, <2>1 DEF Leading, AsFar
  <2>3. t[i] \in Nat /\ s[i] \in Nat
    BY <2>1 DEF Scores
  <2> QED
    BY <2>1, <2>2, <2>3
<1> QED
  BY <1>5

LEMMA ScoredAs ==
  ASSUME NEW h \in Nat \X Nat, NEW m \in Nat \X Nat
  PROVE  /\ score(h, m) \in Scores
         /\ SubSeq(score(h, m), 3, 4) = h /\ SubSeq(score(h, m), 5, 6) = m
<1>1. PICK c, l \in Nat : score(h, m) = <<c, l>> \o h \o m
  BY ScoreIs
<1>2. PICK x1, x2, y1, y2 \in Nat : h = <<x1, x2>> /\ m = <<y1, y2>>
  <2>1. h[1] \in Nat /\ h[2] \in Nat /\ m[1] \in Nat /\ m[2] \in Nat
    OBVIOUS
  <2>2. h = <<h[1], h[2]>> /\ m = <<m[1], m[2]>>
    OBVIOUS
  <2> QED
    BY <2>1, <2>2
<1>3. score(h, m) = <<c, l, x1, x2, y1, y2>>
  <2>1. <<c, l>> \o <<x1, x2>> \o <<y1, y2>> = <<c, l, x1, x2, y1, y2>>
    BY Joined
  <2> QED
    BY <1>1, <1>2, <2>1
<1>4. PICK z \in Seq(Nat) : z = <<c, l, x1, x2, y1, y2>>
  <2>1. <<c, l, x1, x2, y1, y2>> \in Seq(Nat)
    OBVIOUS
  <2> QED
    BY <2>1
<1>5. Len(z) = 6 /\ z[3] = x1 /\ z[4] = x2 /\ z[5] = y1 /\ z[6] = y2
  BY <1>4
<1> QED
  BY <1>2, <1>3, <1>4, <1>5, Parted DEF Scores

\* The builder's halves are candidates, and no candidates score better.
LEMMA JointIs ==
  ASSUME NEW n \in 0..N-1, NEW o \in 0..N-1, splits(n), splits(o)
  PROVE  \E p \in Candidates[n], q \in Candidates[o] :
           /\ glvDecomposeJoint(n, o) = <<p, q>>
           /\ \A x \in Candidates[n], y \in Candidates[o] : ~better(score(x, y), score(p, q))
<1> DEFINE S == {score(p, q) : p \in Candidates[n], q \in Candidates[o]}
<1>1. /\ Candidates[n] # {} /\ Candidates[n] \subseteq Nat \X Nat
      /\ Candidates[o] # {} /\ Candidates[o] \subseteq Nat \X Nat
  BY CandidatesAre
<1>2. S \in SUBSET Scores /\ S # {}
  BY <1>1, ScoredAs
<1>3. glvDecomposeJoint(n, o) = <<SubSeq(cheapest(S), 3, 4), SubSeq(cheapest(S), 5, 6)>>
  BY DEF glvDecomposeJoint
<1>4. cheapest(S) \in S /\ \A t \in S : ~better(t, cheapest(S))
  <2> HIDE DEF S
  <2>1. \E s \in S : \A t \in S : ~better(t, s)
    BY <1>2, Lexical
  <2>2. cheapest(S) = CHOOSE s \in S : \A t \in S : ~better(t, s)
    BY DEF cheapest
  <2> QED
    BY ONLY <2>1, <2>2, Zenon
<1>5. PICK p \in Candidates[n], q \in Candidates[o] : cheapest(S) = score(p, q)
  <2>1. \A s \in S : \E p \in Candidates[n], q \in Candidates[o] : s = score(p, q)
    OBVIOUS
  <2> HIDE DEF S
  <2> QED
    BY <1>4, <2>1
<1>6. \A x \in Candidates[n], y \in Candidates[o] : score(x, y) \in S
  OBVIOUS
<1> HIDE DEF S
<1>7. SubSeq(score(p, q), 3, 4) = p /\ SubSeq(score(p, q), 5, 6) = q
  BY <1>1, ScoredAs
<1>8. glvDecomposeJoint(n, o) = <<p, q>>
  BY <1>3, <1>5, <1>7
<1>9. \A x \in Candidates[n], y \in Candidates[o] : ~better(score(x, y), score(p, q))
  BY <1>4, <1>5, <1>6
<1> QED
  BY <1>8, <1>9

LEMMA BestIs ==
  ASSUME \A n \in INPUTS : splits(n), StrausInv
  PROVE  BestHalves
<1> SUFFICES ASSUME w > 0, Len(k) = 4
             PROVE  /\ in[1] \in Split /\ in[2] \in Split
                    /\ \A i \in 1..2 :
                         LET best == BuilderHalves[in[1]][in[2]]
                         IN  bindsWitness(best[i][1], best[i][2], in[i])
                    /\ LET best == BuilderHalves[in[1]][in[2]]
                       IN  ~better(score(SubSeq(k, 1, 2), SubSeq(k, 3, 4)), score(best[1], best[2]))
  BY DEF BestHalves
<1>1. Committed(sched, in, k)
  BY DEF StrausInv
<1>2. PICK n, o \in INPUTS : in = <<n, o>>
  BY <1>1 DEF Committed
<1>3. in[1] = n /\ in[2] = o
  BY <1>2
<1>4. sched # "shamir"
  <2>1. ASSUME sched = "shamir" PROVE FALSE
    <3>1. k = <<n, o>>
      BY <1>1, <1>2, <2>1 DEF Committed
    <3>2. Len(k) = 2
      BY <3>1
    <3> QED
      BY <3>2
  <2> QED
    BY <2>1
<1>5. /\ k \in OFFERED \X OFFERED \X OFFERED \X OFFERED
      /\ bindsWitness(k[1], k[2], n) /\ bindsWitness(k[3], k[4], o)
  BY <1>1, <1>3, <1>4 DEF Committed
<1>6. n \in Split /\ o \in Split /\ splits(n) /\ splits(o)
  BY DEF Split
<1>7. n \in 0..N-1 /\ o \in 0..N-1
  BY ScheduleAssumption
<1>8. BuilderHalves[n][o] = glvDecomposeJoint(n, o)
  BY <1>6 DEF BuilderHalves
<1>9. PICK p \in Candidates[n], q \in Candidates[o] :
        /\ glvDecomposeJoint(n, o) = <<p, q>>
        /\ \A x \in Candidates[n], y \in Candidates[o] : ~better(score(x, y), score(p, q))
  BY <1>6, <1>7, JointIs
<1>10. bindsWitness(p[1], p[2], n) /\ bindsWitness(q[1], q[2], o)
  BY <1>6, <1>7, <1>9, CandidatesAre
<1>11. PICK best : best = BuilderHalves[in[1]][in[2]] /\ best = <<p, q>>
  BY <1>3, <1>8, <1>9
<1>12. best[1] = p /\ best[2] = q
  BY <1>11
<1>13. SubSeq(k, 1, 2) \in Candidates[n] /\ SubSeq(k, 3, 4) \in Candidates[o]
  <2>1. PICK x1, x2, y1, y2 \in Int : x1 = k[1] /\ x2 = k[2] /\ y1 = k[3] /\ y2 = k[4]
    BY <1>5, ScheduleAssumption
  <2>2. SubSeq(k, 1, 2) = <<x1, x2>> /\ SubSeq(k, 3, 4) = <<y1, y2>>
    BY <1>5, <2>1, Quartered
  <2>3. <<x1, x2>> \in Candidates[n]
    BY <1>5, <1>6, <1>7, <2>1, CandidatesAre
  <2>4. <<y1, y2>> \in Candidates[o]
    BY <1>5, <1>6, <1>7, <2>1, CandidatesAre
  <2> QED
    BY <2>2, <2>3, <2>4
<1>14. ~better(score(SubSeq(k, 1, 2), SubSeq(k, 3, 4)), score(best[1], best[2]))
  BY <1>9, <1>12, <1>13
<1>15. ASSUME NEW i \in 1..2 PROVE bindsWitness(best[i][1], best[i][2], in[i])
  <2>1. i = 1 \/ i = 2
    OBVIOUS
  <2> QED
    BY <1>3, <1>10, <1>12, <2>1
<1> QED
  BY <1>3, <1>6, <1>11, <1>14, <1>15

\* The halves the builder commits to pass the first chunk's checks, and none that
\* pass are cheaper, on any inputs the builder does not throw on.
THEOREM BestHalvesAlways ==
  ASSUME \A n \in INPUTS : splits(n)
  PROVE  StageSpec => []BestHalves
<1>1. StageInv => BestHalves
  <2>1. TwoLoopInv => BestHalves
    BY DEF TwoLoopInv, BestHalves
  <2> QED
    BY <2>1, BestIs DEF StageInv
<1> QED
  BY <1>1, StageIsInvariant, PTL
=============================================================================
