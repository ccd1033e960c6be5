------------------------------ MODULE Frontier ------------------------------
(***************************************************************************)
(* How a flush computes the new tree: D's flush code (d/dcov.mjs) writes a *)
(* program for each of four workers from the leaves, the frontier and the  *)
(* spender's claims MID, each worker runs its program on a stack of nodes, *)
(* and D commits to the frontier it assembled from the claims and puts the *)
(* claimed root in the ring W commits to.  Nobody computes the whole root  *)
(* or sees the whole ring; this module is about what the parts add up to.  *)
(*                                                                         *)
(* The spender may claim any node at any place and send any old entry and  *)
(* siblings.                                                               *)
(***************************************************************************)
EXTENDS Ring, SequencesExt

CONSTANTS
    Leaf,           \* leaf values; Z, the empty leaf and "nothing" in a
                    \* frontier, is one of them or not
    K_LOG,          \* 4: a batch has 2^K_LOG leaves
    TREE_DEPTH,     \* 30
    CUTS,           \* <<11, 23>>: the first path level of workers 3 and 4
    Batches         \* the queues of 2^K_LOG leaves that may be flushed

ASSUME ShapeAssumption ==
    /\ K_LOG \in Nat \ {0, 1}
    /\ TREE_DEPTH \in Nat
    /\ CUTS \in Nat \X Nat
    /\ K_LOG < CUTS[1] /\ CUTS[1] < CUTS[2] /\ CUTS[2] < TREE_DEPTH
    /\ Batches \subseteq [1 .. Two[K_LOG] -> Leaf]

BATCH == Two[K_LOG]
MAX_COUNT == Two[TREE_DEPTH] - BATCH
PathLevel == K_LOG .. TREE_DEPTH - 1

VARIABLES
    count,      \* leaves in the tree, as D commits to it
    F,          \* the frontier D commits to
    histRoot,   \* the ring, as W commits to it
    epoch,      \* the number of flushes, as W commits to it
    leaves,     \* history: the leaves flushed so far, in order
    slots,      \* history: the roots flushes wrote, by slot
    before      \* history: slots before the last flush
treeVars == <<count, F, histRoot, epoch, leaves, slots, before>>

ZH[l \in 0 .. TREE_DEPTH] == IF l = 0 THEN Z ELSE Pair(ZH[l - 1], ZH[l - 1])

(***************************************************************************)
(* The worker: lit pushes a node, compress pairs the top two, swap swaps   *)
(* them, check pops the top node, which must equal the literal; at the end *)
(* the stack must be empty.                                                *)
(***************************************************************************)
Lit(x) == <<[op |-> "lit", node |-> x]>>
Comp == <<[op |-> "compress"]>>
Swap == <<[op |-> "swap"]>>
Check(x) == <<[op |-> "check", node |-> x]>>

Works(s) == [ok |-> TRUE, stack |-> s]
Failed == [ok |-> FALSE, stack |-> <<>>]
Exec(m, i) ==
    LET s == m.stack
        n == Len(s)
    IN  IF ~m.ok \/ (i.op = "check" /\ n < 1) \/ (i.op \in {"compress", "swap"} /\ n < 2)
        THEN Failed
        ELSE CASE i.op = "lit"      -> Works(Append(s, i.node))
               [] i.op = "compress" -> Works(Append(SubSeq(s, 1, n - 2), Pair(s[n - 1], s[n])))
               [] i.op = "swap"     -> Works(Append(Append(SubSeq(s, 1, n - 2), s[n]), s[n - 1]))
               [] i.op = "check"    -> IF s[n] = i.node THEN Works(SubSeq(s, 1, n - 1)) ELSE Failed
Trace(start, program) ==
    LET m[j \in 0 .. Len(program)] == IF j = 0 THEN start ELSE Exec(m[j - 1], program[j])
    IN  m
RunFrom(start, program) == Trace(start, program)[Len(program)]
Run(program) == RunFrom(Works(<<>>), program)
WorkerAccepts(program) == Run(program) = Works(<<>>)
\* The node a program without its last check leaves: what a spender may learn.
Outcome(program) == {x \in Range(Run(program).stack) : Run(program).stack = <<x>>}

(***************************************************************************)
(* The programs D's flush code writes.                                     *)
(***************************************************************************)
\* The subtree of the 2^k leaves from number i + 1 on.
SubtreeCode(LV, i, k) ==
    LET T[j \in 0 .. k] ==
          IF j = 0 THEN [p \in 0 .. Two[k] - 1 |-> Lit(LV[i + p + 1])]
          ELSE [p \in 0 .. Two[k - j] - 1 |-> T[j - 1][2 * p] \o T[j - 1][2 * p + 1] \o Comp]
    IN  T
Subtree(LV, i, k) == SubtreeCode(LV, i, k)[k][0]

\* Worker 1: the first half of the batch and its third quarter.
W1Program(LV, A8, B4) ==
    Subtree(LV, 0, K_LOG - 1) \o Subtree(LV, Two[K_LOG - 1], K_LOG - 2) \o Check(B4) \o Check(A8)
\* Worker 2 begins with the last quarter and the subtree root.
W2Subtree(LV, A8, B4) ==
    Lit(A8) \o Lit(B4) \o Subtree(LV, 3 * Two[K_LOG - 2], K_LOG - 2) \o Comp \o Comp

\* One path level: r carries the program so far, the new frontier and whether
\* the lowest zero bit l0 was met; X is the claimed node entering level l0.
\* Mutants: X not checked; the node always the left child.
LevelFnUncheckedX(r, l, fr, cnt, X) ==
    LET bit == Bit(cnt, l)
    IN  [io    |-> r.io \o (IF bit = 1 THEN Lit(fr[l]) \o Swap \o Comp ELSE Lit(ZH[l]) \o Comp),
         Fp    |-> [r.Fp EXCEPT ![l] = IF r.found THEN fr[l] ELSE IF bit = 1 THEN Z ELSE X],
         found |-> r.found \/ bit = 0]
LevelFnNoSwap(r, l, fr, cnt, X) ==
    LET bit == Bit(cnt, l)
    IN  [io    |-> r.io \o (IF bit = 0 /\ ~r.found THEN Check(X) \o Lit(X) ELSE <<>>)
                        \o (IF bit = 1 THEN Lit(fr[l]) \o Comp ELSE Lit(ZH[l]) \o Comp),
         Fp    |-> [r.Fp EXCEPT ![l] = IF r.found THEN fr[l] ELSE IF bit = 1 THEN Z ELSE X],
         found |-> r.found \/ bit = 0]

LevelFn(r, l, fr, cnt, X) ==
    LET bit == Bit(cnt, l)
    IN  [io    |-> r.io \o (IF bit = 0 /\ ~r.found THEN Check(X) \o Lit(X) ELSE <<>>)
                        \o (IF bit = 1 THEN Lit(fr[l]) \o Swap \o Comp ELSE Lit(ZH[l]) \o Comp),
         Fp    |-> [r.Fp EXCEPT ![l] = IF r.found THEN fr[l] ELSE IF bit = 1 THEN Z ELSE X],
         found |-> r.found \/ bit = 0]

\* The levels from a up to below b, from region r on: the region before each.
Levels(r, a, b, fr, cnt, X) ==
    LET R[l \in a .. b] == IF l = a THEN r ELSE LevelFn(R[l - 1], l - 1, fr, cnt, X)
    IN  R

(***************************************************************************)
(* The JS reference flush (d/dpool.mjs flushPlan): the claims a keeper     *)
(* makes, and the frontier it expects.                                     *)
(***************************************************************************)
SubtreeNode(LV, i, k) == Rows([p \in 0 .. Two[k] - 1 |-> LV[i + p + 1]], k)[k][0]

PlanLevel(q, l, fr, cnt) ==
    LET bit  == Bit(cnt, l)
        l0   == bit = 0 /\ ~q.found
    IN  [node  |-> IF bit = 1 THEN Pair(fr[l], q.node) ELSE Pair(q.node, ZH[l]),
         X     |-> IF l0 THEN q.node ELSE q.X,
         Fn    |-> IF l0 THEN [q.Fn EXCEPT ![l] = q.node]
                   ELSE IF ~q.found THEN [q.Fn EXCEPT ![l] = Z] ELSE q.Fn,
         found |-> q.found \/ l0]
\* The nodes of the path, level by level.
Plan(LV, fr, cnt) ==
    LET q[l \in K_LOG .. TREE_DEPTH] ==
          IF l = K_LOG
          THEN [node |-> SubtreeNode(LV, 0, K_LOG), X |-> Z, Fn |-> fr, found |-> FALSE]
          ELSE PlanLevel(q[l - 1], l - 1, fr, cnt)
    IN  q

FlushPlan(LV, fr, cnt) ==
    LET q == Plan(LV, fr, cnt)
    IN  [A8   |-> SubtreeNode(LV, 0, K_LOG - 1),
         B4   |-> SubtreeNode(LV, Two[K_LOG - 1], K_LOG - 2),
         H11  |-> q[CUTS[1]].node,
         H23  |-> q[CUTS[2]].node,
         ROOT |-> q[TREE_DEPTH].node,
         X    |-> q[TREE_DEPTH].X,
         Fn   |-> q[TREE_DEPTH].Fn]

(***************************************************************************)
(* The flush with any claims.                                              *)
(***************************************************************************)
Fresh(io) == [io |-> io, Fp |-> [l \in PathLevel |-> Z], found |-> FALSE]

\* The regions after the levels of workers 2, 3 and 4.
Region2(LV, A8, B4, X) ==
    Levels(Fresh(W2Subtree(LV, A8, B4)), K_LOG, CUTS[1], F, count, X)[CUTS[1]]
Region3(r2, H11, X) ==
    Levels([io |-> Lit(H11), Fp |-> r2.Fp, found |-> r2.found],
           CUTS[1], CUTS[2], F, count, X)[CUTS[2]]
Region4(r3, H23, X) ==
    Levels([io |-> Lit(H23), Fp |-> r3.Fp, found |-> r3.found],
           CUTS[2], TREE_DEPTH, F, count, X)[TREE_DEPTH]

\* What a spender may claim: a zero hash, a frontier node, any node of the honest
\* computation at the wrong place, or what the worker's program comes to.
Claims(LV) ==
    LET p == FlushPlan(LV, F, count)
    IN  {ZH[l] : l \in 0 .. TREE_DEPTH} \cup {F[l] : l \in PathLevel}
          \cup {p.A8, p.B4, p.H11, p.H23, p.ROOT, p.X}

TreeInit ==
    /\ count = 0
    /\ F = [l \in PathLevel |-> Z]
    /\ slots = [s \in Slot |-> Z]
    /\ before = slots
    /\ histRoot = RingRoot(slots)
    /\ epoch = 0
    /\ leaves = <<>>

\* What a spender may send for the ring: the nodes of the ring now and before
\* the last flush, and hashes of nothing.
SendableEntry == NodesOf(slots) \cup NodesOf(before) \cup {Z, Pair(Z, Z)}

\* The ring part of a flush.
Turn(ROOT) ==
    /\ \E OLD \in SendableEntry, HS \in [1 .. RING_LOG -> SendableEntry] :
          /\ Replaces(histRoot, epoch, OLD, HS)
          /\ histRoot' = PathRoot(ROOT, epoch % RING, HS)
    /\ epoch' = epoch + 1
    /\ slots' = [slots EXCEPT ![epoch % RING] = ROOT]
    /\ before' = slots

Flush(LV) ==
    /\ count % BATCH = 0 /\ count \in 0 .. MAX_COUNT
    /\ \E A8, B4 \in Claims(LV) :
          /\ WorkerAccepts(W1Program(LV, A8, B4))
          /\ \E X \in Claims(LV) : LET r2 == Region2(LV, A8, B4, X) IN
             \E H11 \in Claims(LV) \cup Outcome(r2.io) :
                /\ WorkerAccepts(r2.io \o Check(H11))
                /\ LET r3 == Region3(r2, H11, X) IN
                   \E H23 \in Claims(LV) \cup Outcome(r3.io) :
                      /\ WorkerAccepts(r3.io \o Check(H23))
                      /\ LET r4 == Region4(r3, H23, X) IN
                         \E ROOT \in Claims(LV) \cup Outcome(r4.io) :
                            /\ WorkerAccepts(r4.io \o Check(ROOT))
                            /\ F' = r4.Fp
                            /\ Turn(ROOT)
    /\ count' = count + BATCH
    /\ leaves' = leaves \o LV

TreeNext == \E LV \in Batches : Flush(LV)
TreeSpec == TreeInit /\ [][TreeNext]_treeVars
-----------------------------------------------------------------------------
(***************************************************************************)
(* The tree of w/genesis.mjs: leaf i at index i, zero hashes on the right. *)
(***************************************************************************)
TreeOf(xs) ==
    Rows([i \in 0 .. Two[TREE_DEPTH] - 1 |-> IF i < Len(xs) THEN xs[i + 1] ELSE Z], TREE_DEPTH)
treeRoot(xs) == TreeOf(xs)[TREE_DEPTH][0]
RootAfter(e) == treeRoot(SubSeq(leaves, 1, BATCH * e))

\* The ring holds the roots of the trees after the last RING flushes, whatever
\* the spenders claimed of nodes, old entries and siblings: no claim can be
\* shifted between the workers, and a flush changes one entry.
RingIsTheTrees ==
    histRoot = RingRoot([s \in Slot |->
        LET es == {e \in 1 .. epoch : e + RING > epoch /\ (e - 1) % RING = s}
        IN  IF es = {} THEN Z ELSE RootAfter(CHOOSE e \in es : TRUE)])

\* SOUNDNESS-T9 L3, I1: D's count and frontier are those of the tree, to the
\* last batch, when every bit above K_LOG is carried out.
FrontierIsTheTree ==
    /\ count = Len(leaves)
    /\ \A l \in PathLevel :
          F[l] = IF Bit(count, l) = 1 THEN TreeOf(leaves)[l][Shift(count, l) - 1] ELSE Z

\* A root W opens, with whatever slot number and siblings, is one that one of
\* the last RING flushes wrote, not an empty slot, an expired root or an inner
\* node; and it opens with the slot and siblings of the reference only, so a
\* third party cannot vary a withdrawal.
OpenedIsInTheRing ==
    \A ROOT \in SendableEntry, s \in 0 .. 2 * RING - 1, HS \in [1 .. RING_LOG -> SendableEntry] :
        Opens(histRoot, ROOT, s, HS) =>
            /\ s \in Slot /\ ROOT = slots[s] /\ HS = RingPath(slots, s)
            /\ \E e \in 1 .. epoch : e + RING > epoch /\ ROOT = RootAfter(e)

\* An honest keeper can always flush and an owner always open: the claims of the
\* JS reference pass all four workers and give the frontier and the root it
\* expects, at any count, and its paths pass D and W.
PlanIsAccepted ==
    /\ count <= MAX_COUNT =>
        \A LV \in Batches :
            LET p  == FlushPlan(LV, F, count)
                r2 == Region2(LV, p.A8, p.B4, p.X)
                r3 == Region3(r2, p.H11, p.X)
                r4 == Region4(r3, p.H23, p.X)
            IN  /\ WorkerAccepts(W1Program(LV, p.A8, p.B4))
                /\ WorkerAccepts(r2.io \o Check(p.H11))
                /\ WorkerAccepts(r3.io \o Check(p.H23))
                /\ WorkerAccepts(r4.io \o Check(p.ROOT))
                /\ r4.Fp = p.Fn
    /\ Replaces(histRoot, epoch, slots[epoch % RING], RingPath(slots, epoch % RING))
    /\ \A s \in Slot :
          slots[s] # Z => Opens(histRoot, slots[s], s, RingPath(slots, s))
=============================================================================
