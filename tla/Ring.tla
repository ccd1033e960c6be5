-------------------------------- MODULE Ring --------------------------------
(***************************************************************************)
(* The ring of roots as the scripts see it: one hash histRoot and a        *)
(* spender who sends a path.  D's flush (d/dcov.mjs) reads the entry it    *)
(* replaces and writes the new root along the same siblings; W's withdraw  *)
(* branch (w/wcov.mjs) opens an entry.  Neither sees the other entries.    *)
(***************************************************************************)
EXTENDS Merkle

CONSTANT RING_LOG   \* 4: the ring has 2^RING_LOG slots
ASSUME RingAssumption == RING_LOG \in Nat \ {0}

RING == Two[RING_LOG]
Slot == 0 .. RING - 1

(***************************************************************************)
(* The ring of the JS reference: ringRoot and ringPath.                    *)
(***************************************************************************)
RingRoot(ring) == Rows(ring, RING_LOG)[RING_LOG][0]
RingPath(ring, s) ==
    [k \in 1 .. RING_LOG |->
        LET i == Shift(s, k - 1)
        IN  Rows(ring, RING_LOG)[k - 1][IF i % 2 = 0 THEN i + 1 ELSE i - 1]]
NodesOf(ring) ==
    UNION {{Rows(ring, RING_LOG)[l][i] : i \in DOMAIN Rows(ring, RING_LOG)[l]} : l \in 0 .. RING_LOG}

(***************************************************************************)
(* The scripts: RING_LOG unrolled levels, the slot number giving the side. *)
(***************************************************************************)
PathNodes(node, s, HS) ==
    LET h[l \in 0 .. RING_LOG] ==
          IF l = 0 THEN node
          ELSE IF Bit(s, l - 1) = 1 THEN Pair(HS[l], h[l - 1]) ELSE Pair(h[l - 1], HS[l])
    IN  h
PathRoot(node, s, HS) == PathNodes(node, s, HS)[RING_LOG]

\* W's withdraw branch.  Mutant: any slot number.
OpensAnySlot(hist, ROOT, s, HS) == ROOT # Z /\ PathRoot(ROOT, s, HS) = hist
Opens(hist, ROOT, s, HS) == ROOT # Z /\ s \in Slot /\ PathRoot(ROOT, s, HS) = hist

\* D's flush.  Mutant: the old entry is not hashed.
ReplacesAnything(hist, e, OLD, HS) == TRUE
Replaces(hist, e, OLD, HS) == PathRoot(OLD, e % RING, HS) = hist
=============================================================================
