----------------------------- MODULE TwoLoop -----------------------------
(***************************************************************************)
(* The two-loop layout of the vk_x chain                                   *)
(* (src/chunked/twoloop/gen_chunks.mjs): one pass per public input, least  *)
(* significant bit first, doubling a base and adding it to a partial       *)
(* result R where the input has a bit, the result then folded into an      *)
(* accumulator that starts at IC0.  The inputs, the state each chunk       *)
(* starts from and the expected point are written into the scripts.        *)
(***************************************************************************)
EXTENDS Vkx

CONSTANT K          \* iterations of a chunk
ASSUME WindowAssumption == K \in Nat \ {0}

\* Besides the key vk and the inputs in the scripts were generated for, and the
\* partial result r, <<rX, rY, rZ>>:
VARIABLES term,     \* 0 for in0 IC1, 1 for in1 IC2; 2 when all chunks ran
          lo,       \* iterations done in this term
          acc,      \* <<accX, accY, accZ>>
          base,     \* the base <<bX, bY, bZ>>
          verdict   \* of the last chunk: "none" before

twoVars == <<term, lo, acc, base, verdict>>

affine(a) == <<a[1], a[2], 1>>

jacDblBase(p) == IF p[3] # 0 /\ p[2] # 0 THEN jacDouble(p) ELSE p

(* One iteration: the new R and the new base.                              *)
runIter(x, i, R, pt) ==
  <<IF bit(x, i) # 1 THEN R ELSE IF R[3] = 0 THEN pt ELSE addBlock(R, pt),
    jacDblBase(pt)>>

iterations(x, from, to, R, pt) ==
  LET s[i \in from..to] ==
        IF i = from THEN <<R, pt>> ELSE runIter(x, i - 1, s[i - 1][1], s[i - 1][2])
  IN  s[to]

(* Mutant: the fold trusts R to be finite.                                 *)
FoldAlways(a, R) == addBlock(a, R)

fold(a, R) == IF R[3] # 0 THEN addBlock(a, R) ELSE a

TwoLoopInit ==
  /\ vk \in VKS /\ in \in (0..N-1) \X (0..N-1)
  /\ term = 0 /\ lo = 0
  /\ acc = affine(multiply(vk[1])) /\ base = affine(multiply(vk[2])) /\ r = <<0, 1, 0>>
  /\ verdict = "none"
  /\ sched = "twoloop" /\ k = <<>> /\ w = 0 /\ out = <<>>

(* A chunk: its iterations, at the end of a term the fold, after the first *)
(* term the reset to IC2, at the end of the second the comparison.         *)
Chunk ==
  /\ sched = "twoloop" /\ term < 2
  /\ LET hi == IF lo + K < BITS THEN lo + K ELSE BITS
     IN  \E s \in {iterations(in[term + 1], lo, hi, r, base)} :
         IF hi < BITS
         THEN /\ r' = s[1] /\ base' = s[2] /\ lo' = hi
              /\ UNCHANGED <<term, acc, verdict>>
         ELSE /\ acc' = fold(acc, s[1])
              /\ lo' = 0 /\ term' = term + 1
              /\ IF term = 0
                 THEN /\ r' = <<0, 1, 0>> /\ base' = affine(multiply(vk[3]))
                      /\ UNCHANGED verdict
                 ELSE /\ r' = s[1] /\ base' = s[2]
                      /\ verdict' = IF toAffine(acc') = vk_x THEN "accept" ELSE "reject"
  /\ UNCHANGED <<vk, sched, in, k, w, out>>

(* The stage: the chunks of one of the Straus schedules, or the two loops. *)
StageInit ==
  \/ TwoLoopInit
  \/ /\ Init
     /\ term = 2 /\ lo = 0 /\ acc = <<>> /\ base = <<>> /\ verdict = "none"

StageNext ==
  \/ Chunk
  \/ sched \in Schedules /\ Next /\ UNCHANGED twoVars

StageSpec == StageInit /\ [][StageNext]_<<vars, twoVars>>

---------------------------------------------------------------------------
(* The fold is where the missing test shows: infinity absorbs what is added*)
(* to it.  The chain accepts exactly when IC0 + in0 IC1 is not infinity, or*)
(* nothing is added after, and then only the right point; it never accepts *)
(* a wrong one.  (The generator checks its result against the curve library*)
(* and throws in the remaining case, so no vector has it.)                 *)
AcceptsUnlessAbsorbed ==
  verdict # "none" =>
    LET half == multiply(vk[1] + in[1] * vk[2])
        absorbed == half = ZERO /\ multiply(in[2] * vk[3]) # ZERO
    IN  /\ verdict = "accept" <=> ~absorbed
        /\ absorbed => toAffine(acc) = ZERO
=============================================================================
