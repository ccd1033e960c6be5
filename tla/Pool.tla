-------------------------------- MODULE Pool --------------------------------
(***************************************************************************)
(* The pool on chain: the one D output and the one W output, each with its *)
(* state and value, and the three transactions that replace them.  Anybody *)
(* may deposit any leaf, flush a full queue, or withdraw any note that     *)
(* lies under a root in the ring; a proof, once made, can be used again.   *)
(***************************************************************************)
EXTENDS PoolState

CONSTANTS D_VALUE, W_VALUE      \* the values of the two genesis outputs
ASSUME GenesisAssumption == D_VALUE \in Nat /\ W_VALUE \in Nat

VARIABLES
    d,          \* the state D commits to
    w,          \* the state W commits to
    dValue,     \* the value of the D output
    wValue,     \* the value of the W output
    payouts     \* history: the nullifiers paid, in chain order

vars == <<d, w, dValue, wValue, payouts>>

\* The genesis transaction: D and W empty.
Init ==
    /\ d = EmptyD
    /\ w = EmptyW
    /\ dValue = D_VALUE
    /\ wValue = W_VALUE
    /\ payouts = <<>>

\* D's deposit branch: D alone is replaced.
Deposit(C) ==
    /\ DepositAllowed(d, C)
    /\ d' = DepositD(d, C)
    /\ dValue' = dValue + DELTA + FEE
    /\ UNCHANGED <<w, wValue, payouts>>

\* D's and W's flush branches in one transaction: D's value pays W and, with
\* the fees, the keeper.
Flush ==
    /\ FlushAllowed(d)
    /\ d' = FlushD(d)
    /\ w' = FlushW(w, FlushD(d).leaves)
    /\ dValue' = dValue - BATCH * (DELTA + FEE)
    /\ wValue' = wValue + BATCH * DELTA
    /\ UNCHANGED payouts

\* tx1 of a withdrawal, its W input: one denomination leaves W, the ring and
\* the epoch are copied.
Withdraw(n, s) ==
    /\ WithdrawAllowed(w, n, s)
    /\ wValue >= DELTA
    /\ w' = WithdrawW(w, n)
    /\ wValue' = wValue - DELTA
    /\ payouts' = Append(payouts, NfOf[n])
    /\ UNCHANGED <<d, dValue>>

Next ==
    \/ \E C \in Leaf : Deposit(C)
    \/ Flush
    \/ \E n \in Note, s \in Slot : Withdraw(n, s)

Spec == Init /\ [][Next]_vars

-----------------------------------------------------------------------------
(***************************************************************************)
(* Properties                                                              *)
(***************************************************************************)

\* The states and values stay in their types; the queue never exceeds a batch
\* and the tree is a whole number of batches, one per epoch, within 2^30
\* leaves (the bounds the scripts rely on when they write 1 and 4 bytes).
TypeOK ==
    /\ d \in DState
    /\ w \in WState
    /\ dValue \in Nat
    /\ wValue \in Nat
    /\ payouts \in Seq(Nullifier)
    /\ Len(d.pending) <= BATCH
    /\ Len(d.leaves) = BATCH * w.epoch
    /\ Len(d.leaves) <= MAX_COUNT + BATCH

\* SOUNDNESS-T9 L6: at every moment D holds its genesis value plus D + f per
\* queued leaf, and W its genesis value plus D per flushed leaf not paid out:
\* no deposit, flush or withdrawal creates, loses or misdirects a sat.
Conservation ==
    /\ dValue = D_VALUE + (DELTA + FEE) * Len(d.pending)
    /\ wValue = W_VALUE + DELTA * (Len(d.leaves) - Len(payouts))

\* The keys of the notes in the tree that have not been spent.
Owed == {KeyOf[NfOf[n]] : n \in Note \cap Range(d.leaves)} \ w.keys

\* W can pay everybody: its value covers one denomination for each unspent key
\* in the tree at once, so the value test of a withdrawal never refuses a note
\* that the ring and the nullifier set accept.
Solvency == wValue >= W_VALUE + DELTA * Cardinality(Owed)

\* No key is paid twice, and the nullifier set holds exactly the keys paid,
\* whatever proofs are replayed, and whichever two leaves share a nullifier.
NoDoublePayout ==
    /\ \A i, j \in DOMAIN payouts : KeyOf[payouts[i]] = KeyOf[payouts[j]] => i = j
    /\ w.keys = {KeyOf[payouts[i]] : i \in DOMAIN payouts}

\* Every payment is for a note that was deposited and flushed before.
PaidWasDeposited ==
    \A i \in DOMAIN payouts :
        \E n \in Note \cap Range(d.leaves) : NfOf[n] = payouts[i]

\* SOUNDNESS-T9 L3, I3: slot e mod RING holds the root of the tree after flush
\* e for each of the last RING flushes, and Z in the slots not yet written.
RingIsHistory ==
    /\ \A e \in 0 .. w.epoch - 1 :
          e + RING >= w.epoch => w.slots[e % RING] = SubSeq(d.leaves, 1, BATCH * (e + 1))
    /\ \A s \in Slot : s >= w.epoch => w.slots[s] = Z

\* A note in the tree always lies under some root in the ring: expiry of the
\* root a proof was made for never strands the note (SOUNDNESS-T9 sec. 7).
StillProvable ==
    \A n \in Range(d.leaves) : \E s \in Slot : n \in Range(w.slots[s])

\* A leaf keeps its index: no step reorders or drops a deposit, in the queue or
\* in the tree, so the path its owner computes from the deposit order is right.
DepositOrder ==
    [][\E k \in 0 .. 1 : LET before == d.leaves \o d.pending
                             after  == d'.leaves \o d'.pending
                         IN  Len(after) = Len(before) + k
                             /\ SubSeq(after, 1, Len(before)) = before]_vars

\* A root that has left the ring never comes back: a proof refused as stale
\* stays refused, so no relayer can revive it by waiting.
ExpiredStaysExpired ==
    [][\A e \in 1 .. w.epoch :
          LET root == SubSeq(d.leaves, 1, BATCH * e)
          IN  root \notin Range(w.slots) => root \notin Range(w'.slots)]_vars

\* The pool implements the ledger its users rely on: the fees a queue holds for
\* the keeper are not the note holders', everything else above genesis is.
Ledger == INSTANCE ShieldedLedger WITH
    accepted <- d.leaves \o d.pending,
    open     <- Len(d.leaves),
    paid     <- Range(payouts),
    custody  <- dValue - D_VALUE - FEE * Len(d.pending) + wValue - W_VALUE
ImplementsLedger == Ledger!Spec
=============================================================================
