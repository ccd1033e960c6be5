------------------------------- MODULE Vkx -------------------------------
(***************************************************************************)
(* The chunks that compute vk_x = IC0 + in0 IC1 + in1 IC2, the first stage *)
(* of every chunked Groth16 verifier: one double-and-add pass, most        *)
(* significant bit first, over a table of subset sums, cut into windows    *)
(* that run in inputs (or transactions) of their own and hand the Jacobian *)
(* accumulator on.  Three schedules of src/chunked: `shamir` adds IC1, IC2 *)
(* or their sum for each bit of the two inputs; `glv` splits each input in *)
(* two halves k1 + k2 LAM, chosen by whoever spends and checked by the     *)
(* first chunk, over four points; `grouped` runs two halves of their bits  *)
(* together.  The last chunk adds IC0 and brings the sum to the form the   *)
(* next stage wants with an inverse the spender supplies.                  *)
(* The predecessor's commitment binds the state a chunk starts from        *)
(* (module CovenantChain): here it is simply the state.                    *)
(***************************************************************************)
EXTENDS Glv

CONSTANTS VKS,      \* verification keys, as the multiples of BASE their IC are
          INPUTS,   \* public inputs
          BITS,     \* a public input has at most BITS bits
          GROUPS,   \* the grouped schedule's groups
          OFFERED   \* integers a spender may offer for one half

Schedules == {"shamir", "glv", "grouped"}
Finals    == {"affine", "token", "unit"}
finals(s) == CASE s = "shamir"  -> {"affine"}
               [] s = "glv"     -> Finals
               [] s = "grouped" -> {"affine", "token"}

groups(s) == IF s = "grouped" THEN GROUPS ELSE 1
width(s)  == IF s = "shamir" THEN BITS ELSE ITERS \div groups(s)

(* The points one bit position may add.                                    *)
bases(v, s) ==
  LET ic1 == multiply(v[2])
      ic2 == multiply(v[3])
  IN  IF s = "shamir" THEN <<ic1, ic2>> ELSE <<ic1, phiPt(ic1), ic2, phiPt(ic2)>>

(* The tables baked in the scripts: for each group, the sum of every       *)
(* non-empty set of the group's points.                                    *)
entry(v, s, g, idx) ==
  LET shifted(l) == multiply(log(bases(v, s)[l]) * twoTo[g * width(s)])
      sum[l \in 0..Len(bases(v, s))] ==
        IF l = 0 THEN ZERO
        ELSE IF bit(idx, l - 1) = 1 THEN add(sum[l - 1], shifted(l)) ELSE sum[l - 1]
  IN  sum[Len(bases(v, s))]
Tables ==
  LET Entries == {e \in {<<v, s, g, idx>> : v \in VKS, s \in Schedules,
                                            g \in 0..GROUPS - 1, idx \in 1..15} :
                    e[3] < groups(e[2]) /\ e[4] < twoTo[Len(bases(e[1], e[2]))]}
  IN  [e \in Entries |-> entry(e[1], e[2], e[3], e[4])]

(* Keys of points; the bits are those of the inputs, and the groups' those *)
(* of the halves.                                                          *)
ASSUME ScheduleAssumption ==
  /\ VKS \subseteq (1..N-1) \X (1..N-1) \X (1..N-1)
  /\ BITS \in Nat /\ N <= twoTo[BITS] /\ INPUTS \subseteq 0..N-1
  /\ ITERS \in Nat /\ GROUPS \in Nat \ {0} /\ ITERS % GROUPS = 0 /\ OFFERED \subseteq Int

ASSUME EndomorphismAssumption ==
  LAM \in 0..N-1 /\ \A n \in 0..N-1 : phiPt(Multiples[n]) = multiply(LAM * n)

(* The generator refuses a key whose table has an x = 0, which the scripts *)
(* read as "no add".                                                       *)
ASSUME TablesAssumption == \A e \in DOMAIN Tables : Tables[e][1] # 0

VARIABLES vk,       \* the key the scripts were generated for
          sched,    \* their schedule
          in,       \* <<in0, in1>>, carried from chunk to chunk
          k,        \* the scalars of the points, carried from chunk to chunk
          w,        \* bit positions done
          r,        \* the accumulator <<rX, rY, rZ>>
          out       \* what the last chunk hands on, and its form; <<>> before

vars == <<vk, sched, in, k, w, r, out>>

(* What is added at a bit position of a group: entry idx of its table,     *)
(* bit l of idx being the scalar's of the l-th point; <<0, 0>> for idx = 0.*)
index(ks, i) ==
  bit(ks[1], i) + 2 * bit(ks[2], i)
    + (IF Len(ks) = 4 THEN 4 * bit(ks[3], i) + 8 * bit(ks[4], i) ELSE 0)
select(v, s, g, idx) == IF idx = 0 THEN ZERO ELSE Tables[<<v, s, g, idx>>]

jacDbl(s, p) == IF s = "grouped" THEN jacDoubleGrouped(p) ELSE jacDouble(p)
jacAdd(s, p, a) == IF s = "grouped" THEN jacAddGrouped(p, a) ELSE jacAddAffine(p, a)

(* A chunk's loop over window [lo, hi): at bit i of every group, one       *)
(* doubling of a finite accumulator, then each group's point.              *)
doubled(s, p) == IF p[3] # 0 THEN jacDbl(s, p) ELSE p
added(s, p, a) == IF a[1] # 0 THEN jacAdd(s, p, a) ELSE p
addGroups(v, s, ks, i, p) ==
  LET q[g \in 0..groups(s)] ==
        IF g = 0 THEN p
        ELSE added(s, q[g - 1], select(v, s, g - 1, index(ks, i + (g - 1) * width(s))))
  IN  q[groups(s)]
loop(v, s, ks, from, to, p) ==
  LET q[j \in from..to] ==
        IF j = from THEN p ELSE addGroups(v, s, ks, width(s) - j, doubled(s, q[j - 1]))
  IN  q[to]

(* Mutant: congruent halves of any size pass.                              *)
BindsUnbounded(k1, k2, input) ==
  /\ k1 >= 0 /\ k2 >= 0
  /\ (k1 + k2 * LAM) % N = input

(* The first chunk's checks that the halves are the input's: non-negative, *)
(* below the bound the loop covers, and congruent.                         *)
bindsWitness(k1, k2, input) ==
  /\ k1 >= 0 /\ k2 >= 0
  /\ k1 < GLV_BOUND /\ k2 < GLV_BOUND
  /\ (k1 + k2 * LAM) % N = input

Init ==
  /\ vk \in VKS /\ sched \in Schedules
  /\ in = <<>> /\ k = <<>> /\ w = 0
  /\ r = <<0, 1, 0>> /\ out = <<>>

Start(ks, inputs, hi) ==
  /\ in' = inputs /\ k' = ks /\ w' = hi
  /\ r' = loop(vk, sched, ks, 0, hi, r)
  /\ UNCHANGED <<vk, sched, out>>

(* The first chunk: any halves pass that its checks let pass.              *)
FirstChunk ==
  /\ w = 0
  /\ \E hi \in 1..width(sched) - 1, i0, i1 \in INPUTS :
       \/ sched = "shamir" /\ Start(<<i0, i1>>, <<i0, i1>>, hi)
       \/ /\ sched # "shamir"
          /\ \E k10, k20 \in OFFERED :
               /\ bindsWitness(k10, k20, i0)
               /\ \E k11, k21 \in OFFERED :
                    /\ bindsWitness(k11, k21, i1)
                    /\ Start(<<k10, k20, k11, k21>>, <<i0, i1>>, hi)

MiddleChunk ==
  /\ w > 0
  /\ \E hi \in w + 1..width(sched) - 1 :
       /\ w' = hi
       /\ r' = loop(vk, sched, k, w, hi, r)
  /\ UNCHANGED <<vk, sched, in, k, out>>

(* The sum with IC0, and the point handed on in the form the layout asks   *)
(* for: affine, affine with (0, 0) for infinity (the token chain), and     *)
(* (-x/2y, -1/2y), (0, 0) at infinity (BLS12-381's unit form).             *)
folded(v, s, p) == jacAdd(s, p, multiply(v[1]))

(* Mutant: the token chain's last chunk asks for an inverse of zero too.   *)
AcceptsFiniteOnly(f, p, inv) ==
  IF f = "unit" THEN mulFp(addFp(p[2], p[2]), inv) = 1 ELSE mulFp(p[3], inv) = 1

accepts(f, p, inv) ==
  CASE f = "affine" -> mulFp(p[3], inv) = 1
    [] f = "token"  -> IF p[3] = 0 THEN inv = 0 ELSE mulFp(p[3], inv) = 1
    [] f = "unit"   -> mulFp(addFp(p[2], p[2]), inv) = 1

emitted(f, p, inv) ==
  LET inv2 == sqrFp(inv)
  IN  CASE f = "unit" -> <<subFp(0, mulFp(mulFp(p[1], p[3]), inv)),
                           subFp(0, mulFp(mulFp(sqrFp(p[3]), p[3]), inv))>>
        [] f = "token" /\ p[3] = 0 -> ZERO
        [] OTHER -> <<mulFp(p[1], inv2), mulFp(p[2], mulFp(inv2, inv))>>

(* The reference inverse the vectors carry.                                *)
reference(f, p) == modinv(IF f = "unit" THEN 2 * p[2] ELSE p[3])

last == folded(vk, sched, loop(vk, sched, k, w, width(sched), r))

FinalChunk ==
  /\ w > 0 /\ w < width(sched)
  /\ \E p \in {last}, form \in finals(sched), inv \in 0..P :
       /\ accepts(form, p, inv)
       /\ out' = [form |-> form, point |-> emitted(form, p, inv)]
       /\ r' = p
  /\ w' = width(sched)
  /\ UNCHANGED <<vk, sched, in, k>>

Next == FirstChunk \/ MiddleChunk \/ FinalChunk

Spec == Init /\ [][Next]_vars

---------------------------------------------------------------------------
vk_x == multiply(vk[1] + in[1] * vk[2] + in[2] * vk[3])

(* What the last chunk hands to the pairing stage is vk_x of the inputs the*)
(* first one committed to, for every choice of halves and of inverse a     *)
(* spender can get past the checks.                                        *)
EmittedIsVkx ==
  out # <<>> =>
    IF out.form = "unit" /\ vk_x # ZERO
    THEN out.point = <<(-vk_x[1] * modinv(2 * vk_x[2])) % P, (-modinv(2 * vk_x[2])) % P>>
    ELSE out.point = vk_x

(* No spender is stuck: the reference inverse passes the last chunk from   *)
(* every state a chunk may leave, infinity included, except that the plain *)
(* affine form has no encoding of infinity.                                *)
ReferenceIsAccepted ==
  w \in 1..width(sched) - 1 =>
    LET p == last
    IN  \A form \in finals(sched) :
          (form = "affine" /\ vk_x = ZERO) \/ accepts(form, p, reference(form, p))

(* The builder's halves of each pair of inputs it splits (module Glv).     *)
Split == {i \in INPUTS : splits(i)}
BuilderHalves == [i0 \in Split |-> [i1 \in Split |-> glvDecomposeJoint(i0, i1)]]

(* The builder never throws, what it commits to passes the first chunk's   *)
(* checks, and its bounded search misses nothing: no halves at all that the*)
(* first chunk lets pass cost fewer table additions than the builder's, nor*)
(* as many over fewer doublings.                                           *)
BestHalves ==
  w > 0 /\ Len(k) = 4 =>
    /\ in[1] \in Split /\ in[2] \in Split
    /\ LET best == BuilderHalves[in[1]][in[2]]
       IN  /\ \A i \in 1..2 : bindsWitness(best[i][1], best[i][2], in[i])
           /\ ~better(score(SubSeq(k, 1, 2), SubSeq(k, 3, 4)), score(best[1], best[2]))
=============================================================================
