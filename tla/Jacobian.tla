------------------------------ MODULE Jacobian ------------------------------
(***************************************************************************)
(* Group arithmetic of the vk_x chunks on a curve y^2 = x^3 + B over F_P:  *)
(* the field helpers and the two addition/doubling pairs the chunk scripts *)
(* are generated with (src/chunked/pairing/gen_vkx_glv.mjs; the legacy pair *)
(* is the one of shamir/ and of the BLS12-381 generator), the unguarded    *)
(* addition of src/chunked/twoloop, and the affine group they are measured *)
(* against (the curve library's).                                          *)
(* A Jacobian point is <<X, Y, Z>> for (X/Z^2, Y/Z^3), infinity when Z = 0;*)
(* an affine one is <<x, y>>, infinity being <<0, 0>>.                     *)
(***************************************************************************)
EXTENDS Integers, Sequences

CONSTANTS P,      \* the field's prime
          B,      \* the curve's constant term
          BASE,   \* a generator of the group: the curve, or the part of it that is used
          N       \* the prime number of points of the group, infinity included

(* `%` of the script's virtual machine: the sign of the dividend is kept,  *)
(* so a difference that was not lifted above zero stays negative.          *)
vmMod(a) == IF a >= 0 THEN a % P ELSE -((-a) % P)

addFp(x, y) == vmMod(x + y)
subFp(x, y) == vmMod(x - y + P)
mulFp(x, y) == vmMod(x * y)
sqrFp(x)    == vmMod(x * x)

(* dbl-2009-l                                                              *)
jacDouble(p) ==
  LET a == sqrFp(p[1])
      b == sqrFp(p[2])
      c == sqrFp(b)
      d == mulFp(2, subFp(subFp(sqrFp(addFp(p[1], b)), a), c))
      e == mulFp(3, a)
      nx == subFp(sqrFp(e), mulFp(2, d))
  IN  <<nx, subFp(mulFp(e, subFp(d, nx)), mulFp(8, c)), mulFp(2, mulFp(p[2], p[3]))>>

(* Mixed addition of an affine point: infinity gives the point back, the   *)
(* point itself is doubled, and everything else (the opposite point too)   *)
(* goes through madd-2007-bl.                                              *)
jacAddAffine(a, b) ==
  LET z1z1 == sqrFp(a[3])
      u2 == mulFp(b[1], z1z1)
      s2 == mulFp(mulFp(b[2], a[3]), z1z1)
      h  == subFp(u2, a[1])
      i2 == sqrFp(mulFp(2, h))
      jj == mulFp(h, i2)
      rr == mulFp(2, subFp(s2, a[2]))
      vv == mulFp(a[1], i2)
      nx == subFp(subFp(sqrFp(rr), jj), mulFp(2, vv))
  IN  CASE a[3] = 0 -> <<b[1], b[2], 1>>
        [] a[3] # 0 /\ a[1] = u2 /\ a[2] = s2 -> jacDouble(a)
        [] OTHER -> <<nx, subFp(mulFp(rr, subFp(vv, nx)), mulFp(2, mulFp(a[2], jj))),
                      mulFp(subFp(subFp(sqrFp(addFp(a[3], 1)), z1z1), 1), h)>>

(* The grouped prologue's pair: sums are reduced once, after a multiple of *)
(* P was added to keep them from going negative.                           *)
jacDoubleGrouped(p) ==
  LET a == vmMod(p[1] * p[1])
      b == vmMod(p[2] * p[2])
      c == vmMod(b * b)
      d == vmMod(4 * p[1] * b)
      e == vmMod(a * 3)
      f == vmMod(e * e)
      nx == vmMod(f - 2 * d + 2 * P)
  IN  <<nx, vmMod((d - nx + P) * e + 8 * P - c * 8), vmMod(2 * p[2] * p[3])>>

jacAddGrouped(a, b) ==
  LET z1z1 == vmMod(a[3] * a[3])
      u2 == vmMod(b[1] * z1z1)
      s2 == vmMod(z1z1 * a[3] * b[2])
      h  == vmMod(u2 + P - a[1])
      hh == vmMod(h * h)
      hhh == vmMod(h * hh)
      rr == vmMod(s2 + P - a[2])
      vv == vmMod(hh * a[1])
      nx == vmMod(rr * rr + 3 * P - hhh - 2 * vv)
  IN  CASE a[3] = 0 -> <<b[1], b[2], 1>>
        [] a[3] # 0 /\ a[1] = u2 /\ a[2] = s2 -> jacDoubleGrouped(a)
        [] OTHER -> <<nx, vmMod((vv - nx + P) * rr + P - vmMod(a[2] * hhh)),
                      vmMod(a[3] * h)>>

(* Both operands Jacobian, neither tested for infinity (add-2007-bl).      *)
addBlock(a, b) ==
  LET z1z1 == sqrFp(a[3])
      z2z2 == sqrFp(b[3])
      u1 == mulFp(a[1], z2z2)
      u2 == mulFp(b[1], z1z1)
      s1 == mulFp(mulFp(a[2], b[3]), z2z2)
      s2 == mulFp(mulFp(b[2], a[3]), z1z1)
      h  == subFp(u2, u1)
      i2 == sqrFp(mulFp(2, h))
      j  == mulFp(h, i2)
      rr == mulFp(2, subFp(s2, s1))
      v  == mulFp(u1, i2)
      nx == subFp(subFp(sqrFp(rr), j), mulFp(2, v))
  IN  IF u1 = u2 /\ s1 = s2 THEN jacDouble(a)
      ELSE <<nx, subFp(mulFp(rr, subFp(v, nx)), mulFp(2, mulFp(s1, j))),
             mulFp(subFp(subFp(sqrFp(addFp(a[3], b[3])), z1z1), z2z2), h)>>

---------------------------------------------------------------------------
Field == 0..P-1

twoTo[i \in Nat] == IF i = 0 THEN 1 ELSE 2 * twoTo[i - 1]

(* Fermat's inverse, 0 for 0 (modinvP, inverseFp).                         *)
modinv(a) == IF a % P = 0 THEN 0 ELSE CHOOSE i \in Field : (a * i) % P = 1

ZERO == <<0, 0>>

(* The curve library: chord and tangent.                                   *)
add(a, b) ==
  LET slope == IF a = b THEN 3 * a[1] * a[1] * modinv(2 * a[2])
                        ELSE (b[2] - a[2]) * modinv(b[1] - a[1])
      x == (slope * slope - a[1] - b[1]) % P
  IN  CASE a = ZERO -> b
        [] a # ZERO /\ b = ZERO -> a
        [] a # ZERO /\ b # ZERO /\ a[1] = b[1] /\ (a[2] + b[2]) % P = 0 -> ZERO
        [] OTHER -> <<x, (slope * (a[1] - x) - a[2]) % P>>

Curve == {g \in Field \X Field : (g[2] * g[2] - g[1] * g[1] * g[1] - B) % P = 0}

(* The multiples of BASE are the points of the group.                      *)
upTo[n \in 0..N-1] == IF n = 0 THEN ZERO ELSE add(upTo[n - 1], BASE)
Multiples == [n \in 0..N-1 |-> upTo[n]]
multiply(n) == Multiples[n % N]

(* The affine point of a Jacobian one.                                     *)
toAffine(p) ==
  LET z2 == modinv(p[3]) * modinv(p[3])
  IN  IF p[3] = 0 THEN ZERO ELSE <<(p[1] * z2) % P, (p[2] * z2 * modinv(p[3])) % P>>

(* The multiple of BASE an affine point is.                                *)
log(a) == CHOOSE n \in 0..N-1 : Multiples[n] = a

modpow(b, e, m) ==
  LET power[i \in 0..e] == IF i = 0 THEN 1 ELSE (b * power[i - 1]) % m
  IN  power[e]

(* A primitive cube root of unity: that of the first g that has one.       *)
cru(m) ==
  LET third(g) == modpow(g, (m - 1) \div 3, m)
  IN  third(CHOOSE g \in 2..m-1 : third(g) # 1 /\ \A h \in 2..g-1 : third(h) = 1)

ASSUME FieldAssumption ==
  /\ P \in Nat /\ P > 3 /\ P % 3 = 1 /\ B \in Int
  /\ \A x \in Field : x # 0 => \E i \in Field : (x * i) % P = 1

(* Chord and tangent make the multiples of BASE a group of order N, with no *)
(* point where x = 0 or y = 0.                                             *)
ASSUME CurveAssumption ==
  /\ N \in Nat /\ N > 1 /\ N % 3 = 1 /\ B % P # 0
  /\ Multiples[0] = ZERO
  /\ \A n \in 1..N-1 : Multiples[n] \in Curve /\ Multiples[n][1] # 0 /\ Multiples[n][2] # 0
  /\ \A m, n \in 0..N-1 : add(Multiples[m], Multiples[n]) = Multiples[(m + n) % N]
=============================================================================
