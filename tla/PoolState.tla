------------------------------ MODULE PoolState ------------------------------
(***************************************************************************)
(* The two covenant states of the shielded pool (src/research/pq-pool) as  *)
(* values, and what a deposit, a flush and a withdrawal make of them: the  *)
(* JS reference (d/dpool.mjs DState, WState, flushPlan; r/pool.mjs wSpend) *)
(* together with the conditions the scripts (d/dcov.mjs, w/wcov.mjs) check.*)
(*                                                                         *)
(* Hashes are modelled as injective: the queue hash SHA-256(len || chain)  *)
(* is the sequence of queued leaves, a Merkle root is the sequence of the  *)
(* leaves under it, and nfRoot is the set of keys.  Frontier.tla and       *)
(* Smt.tla model how the scripts compute the last two from a witness.      *)
(***************************************************************************)
EXTENDS Integers, Sequences, FiniteSets, Functions

CONSTANTS
    Leaf,       \* the 32-byte values with every lane < p that a deposit may name
    Note,       \* the leaves somebody can open: leaf = T(P(NF || r)) for known nk, r
    Nullifier,  \* NF values, NF = T(P(nk || TAG_NF))
    Key,        \* 64-bit SMT keys
    NfOf,       \* NfOf[n]: the nullifier of note n (notes may share nk)
    KeyOf,      \* KeyOf[nf]: SHA-256("t9NF" || NF)[0..8), so keys may collide
    BATCH,      \* 16: leaves per flush (2^k, k = 4)
    RING,       \* 16: roots kept in the history ring
    MAX_COUNT,  \* 2^30 - 16: the largest count a flush accepts
    DELTA,      \* D = 1,000,000 sat: the denomination
    FEE         \* f = 10,000 sat: the keeper's fee per deposit

ASSUME LeafAssumption ==
    /\ Note \subseteq Leaf
    /\ NfOf \in [Note -> Nullifier]
    /\ KeyOf \in [Nullifier -> Key]
ASSUME SizeAssumption ==
    /\ BATCH \in Nat \ {0}
    /\ RING \in Nat \ {0}
    /\ MAX_COUNT \in Nat
    /\ MAX_COUNT % BATCH = 0
ASSUME ValueAssumption ==
    /\ DELTA \in Nat \ {0}
    /\ FEE \in Nat

Slot == 0 .. RING - 1
Root == Seq(Leaf)

\* The ring entry never written: 32 zero bytes, no leaf opens under it.
Z == <<>>

(***************************************************************************)
(* DState: the queued leaves (len, chain) and the leaves already in the    *)
(* tree (count, frontier).  WState: the spent keys (nfRoot), the ring of   *)
(* roots (histRoot) and the number of flushes so far.                      *)
(***************************************************************************)
DState == [pending : Seq(Leaf), leaves : Seq(Leaf)]
WState == [keys : SUBSET Key, slots : [Slot -> Root], epoch : Nat]

EmptyD == [pending |-> <<>>, leaves |-> <<>>]
EmptyW == [keys |-> {}, slots |-> [s \in Slot |-> Z], epoch |-> 0]

(***************************************************************************)
(* Deposit: the script sees the queue and the leaf, never the tree's count.*)
(***************************************************************************)
\* Mutants: the bound lets one leaf too many in; the leaf is put in front.
DepositAllowedOffByOne(d, C) == C \in Leaf /\ Len(d.pending) <= BATCH
DepositDAtFront(d, C) == [d EXCEPT !.pending = <<C>> \o @]

DepositAllowed(d, C) == C \in Leaf /\ Len(d.pending) < BATCH
DepositD(d, C) == [d EXCEPT !.pending = Append(@, C)]

(***************************************************************************)
(* Flush: exactly BATCH queued leaves, room in the tree; the new root goes *)
(* to slot epoch mod RING.                                                 *)
(***************************************************************************)
\* Mutants: the queue kept; the ring indexed by the epoch after the flush; the
\* root before the flush written.
FlushDKeepsQueue(d) == [d EXCEPT !.leaves = @ \o d.pending]
FlushWNextSlot(w, root) ==
    [w EXCEPT !.slots[(w.epoch + 1) % RING] = root, !.epoch = @ + 1]
FlushWRootBefore(w, root) ==
    [w EXCEPT !.slots[w.epoch % RING] = SubSeq(root, 1, Len(root) - BATCH),
              !.epoch = @ + 1]

FlushAllowed(d) == Len(d.pending) = BATCH /\ Len(d.leaves) <= MAX_COUNT
FlushD(d) == [pending |-> <<>>, leaves |-> d.leaves \o d.pending]
FlushW(w, root) ==
    [w EXCEPT !.slots[w.epoch % RING] = root, !.epoch = @ + 1]

(***************************************************************************)
(* Withdrawal of note n against the root in slot s: the statement R proves *)
(* (n lies under the root), and what W checks and inserts.                 *)
(***************************************************************************)
\* Mutants: no absence check; nothing inserted.
WithdrawAllowedPresent(w, n, s) ==
    w.slots[s] # Z /\ n \in Range(w.slots[s])
WithdrawWNoInsert(w, n) == w
WithdrawAllowed(w, n, s) ==
    /\ w.slots[s] # Z
    /\ n \in Range(w.slots[s])
    /\ KeyOf[NfOf[n]] \notin w.keys
WithdrawW(w, n) == [w EXCEPT !.keys = @ \cup {KeyOf[NfOf[n]]}]
=============================================================================
