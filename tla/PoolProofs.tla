------------------------------ MODULE PoolProofs ------------------------------
(***************************************************************************)
(* Theorems about Pool, for every set of leaves and notes, every batch and *)
(* ring size, and every denomination and fee.                              *)
(***************************************************************************)
EXTENDS Pool, Induction, SequenceTheorems, FiniteSetTheorems

(***************************************************************************)
(* The types and the two balance equations are inductive together: that D  *)
(* can pay for a flush follows from its balance.                           *)
(***************************************************************************)
Accounts == TypeOK /\ Conservation

\* The arithmetic of the balances, apart from the states it is about.
LEMMA DepositBalance ==
  ASSUME NEW D0 \in Int, NEW unit \in Int, NEW q \in Int
  PROVE  D0 + unit * (q + 1) = D0 + unit * q + unit
  OBVIOUS

LEMMA FlushBalance ==
  ASSUME NEW W0 \in Int, NEW unit \in Int, NEW n \in Int, NEW k \in Int, NEW b \in Int
  PROVE  W0 + unit * ((n + b) - k) = (W0 + unit * (n - k)) + b * unit
  OBVIOUS

LEMMA QueueBalance ==
  ASSUME NEW D0 \in Int, NEW unit \in Int, NEW b \in Int
  PROVE  (D0 + unit * b) - b * unit = D0
  OBVIOUS

LEMMA PayoutBalance ==
  ASSUME NEW W0 \in Int, NEW unit \in Int, NEW n \in Int, NEW k \in Int
  PROVE  W0 + unit * (n - (k + 1)) = (W0 + unit * (n - k)) - unit
  OBVIOUS

LEMMA ProductIsNat ==
  ASSUME NEW x \in Nat, NEW y \in Nat
  PROVE  x * y \in Nat
  OBVIOUS

LEMMA InitAccounts == Init => Accounts
  <1> SUFFICES ASSUME Init PROVE Accounts
    OBVIOUS
  <1>1. d.pending = <<>> /\ d.leaves = <<>> /\ w.keys = {} /\ w.epoch = 0
    BY DEF Init, EmptyD, EmptyW
  <1>2. d \in DState /\ w \in WState
    BY DEF Init, EmptyD, EmptyW, DState, WState, Root, Z
  <1>3. BATCH * 0 = 0 /\ (DELTA + FEE) * 0 = 0 /\ DELTA * (0 - 0) = 0
    BY SizeAssumption, ValueAssumption
  <1> QED
    BY <1>1, <1>2, <1>3, GenesisAssumption, SizeAssumption DEF Init, Accounts, TypeOK, Conservation

\* What a deposit, a flush and a withdrawal do to the two states.
LEMMA DepositEffect ==
  ASSUME TypeOK, NEW C \in Leaf, Deposit(C)
  PROVE  /\ d' \in DState
         /\ d'.leaves = d.leaves
         /\ d'.pending = Append(d.pending, C)
         /\ Len(d'.pending) = Len(d.pending) + 1
         /\ Len(d'.pending) <= BATCH
  <1>1. d.pending \in Seq(Leaf) /\ d.leaves \in Seq(Leaf)
    BY DEF TypeOK, DState
  <1>2. d' = [pending |-> Append(d.pending, C), leaves |-> d.leaves] /\ Len(d.pending) < BATCH
    BY DEF Deposit, DepositD, DepositAllowed, TypeOK, DState
  <1>3. /\ Append(d.pending, C) \in Seq(Leaf)
        /\ Len(Append(d.pending, C)) = Len(d.pending) + 1
    BY <1>1, AppendProperties
  <1>4. Len(d.pending) \in Nat
    BY <1>1, LenProperties
  <1>5. Len(d.pending) + 1 <= BATCH
    BY <1>2, <1>4, SizeAssumption
  <1>6. d' \in DState
    BY <1>1, <1>2, <1>3 DEF DState
  <1>7. d'.pending = Append(d.pending, C) /\ d'.leaves = d.leaves
    BY <1>2
  <1> QED
    BY <1>3, <1>5, <1>6, <1>7

LEMMA FlushEffect ==
  ASSUME TypeOK, Flush
  PROVE  /\ d' \in DState
         /\ d'.pending = <<>>
         /\ Len(d.pending) = BATCH
         /\ d'.leaves = d.leaves \o d.pending
         /\ Len(d'.leaves) = Len(d.leaves) + BATCH
         /\ Len(d.leaves) <= MAX_COUNT
         /\ w' \in WState
         /\ w'.keys = w.keys
         /\ w'.epoch = w.epoch + 1
         /\ w'.slots = [w.slots EXCEPT ![w.epoch % RING] = d.leaves \o d.pending]
         /\ w.epoch % RING \in Slot
  <1>1. d.pending \in Seq(Leaf) /\ d.leaves \in Seq(Leaf)
    BY DEF TypeOK, DState
  <1>2. d' = [pending |-> <<>>, leaves |-> d.leaves \o d.pending]
    BY DEF Flush, FlushD
  <1>3. Len(d.pending) = BATCH /\ Len(d.leaves) <= MAX_COUNT
    BY DEF Flush, FlushAllowed
  <1>4. /\ d.leaves \o d.pending \in Seq(Leaf)
        /\ Len(d.leaves \o d.pending) = Len(d.leaves) + Len(d.pending)
    BY <1>1, ConcatProperties
  <1>5. w' = [keys  |-> w.keys,
              slots |-> [w.slots EXCEPT ![w.epoch % RING] = d.leaves \o d.pending],
              epoch |-> w.epoch + 1]
    BY <1>2 DEF Flush, FlushW, FlushD, TypeOK, WState
  <1>6. w.epoch % RING \in Slot
    BY SizeAssumption DEF TypeOK, WState, Slot
  <1>7. w' \in WState
    <2>1. w.keys \in SUBSET Key /\ w.slots \in [Slot -> Root] /\ w.epoch \in Nat
      BY DEF TypeOK, WState
    <2>2. [w.slots EXCEPT ![w.epoch % RING] = d.leaves \o d.pending] \in [Slot -> Root]
      BY <1>4, <2>1 DEF Root
    <2> QED
      BY <1>5, <2>1, <2>2 DEF WState
  <1>8. d' \in DState
    BY <1>2, <1>4 DEF DState
  <1> QED
    BY <1>2, <1>3, <1>4, <1>5, <1>6, <1>7, <1>8 DEF TypeOK, WState

LEMMA WithdrawEffect ==
  ASSUME TypeOK, NEW n \in Note, NEW s \in Slot, Withdraw(n, s)
  PROVE  /\ d' = d
         /\ w' \in WState
         /\ w'.keys = w.keys \cup {KeyOf[NfOf[n]]}
         /\ KeyOf[NfOf[n]] \notin w.keys
         /\ n \in Range(w.slots[s])
         /\ w'.slots = w.slots
         /\ w'.epoch = w.epoch
         /\ NfOf[n] \in Nullifier
         /\ payouts' = Append(payouts, NfOf[n])
         /\ payouts' \in Seq(Nullifier)
         /\ Len(payouts') = Len(payouts) + 1
  <1>1. NfOf[n] \in Nullifier /\ KeyOf[NfOf[n]] \in Key
    BY LeafAssumption
  <1>2. w' = [keys |-> w.keys \cup {KeyOf[NfOf[n]]}, slots |-> w.slots, epoch |-> w.epoch]
    BY DEF Withdraw, WithdrawW, TypeOK, WState
  <1>3. payouts' = Append(payouts, NfOf[n]) /\ d' = d
    BY DEF Withdraw
  <1>4. /\ Append(payouts, NfOf[n]) \in Seq(Nullifier)
        /\ Len(Append(payouts, NfOf[n])) = Len(payouts) + 1
    BY <1>1, AppendProperties DEF TypeOK
  <1>5. KeyOf[NfOf[n]] \notin w.keys /\ n \in Range(w.slots[s])
    BY DEF Withdraw, WithdrawAllowed
  <1>6. w' \in WState
    BY <1>1, <1>2 DEF TypeOK, WState
  <1> QED
    BY <1>1, <1>2, <1>3, <1>4, <1>5, <1>6 DEF TypeOK, WState

LEMMA NextAccounts == Accounts /\ [Next]_vars => Accounts'
  <1> SUFFICES ASSUME Accounts, [Next]_vars PROVE Accounts'
    OBVIOUS
  <1>0. /\ TypeOK /\ Conservation
        /\ Len(d.pending) \in Nat /\ Len(d.leaves) \in Nat /\ Len(payouts) \in Nat
        /\ w.epoch \in Nat
    BY LenProperties DEF Accounts, TypeOK, DState, WState
  <1>1. ASSUME NEW C \in Leaf, Deposit(C) PROVE Accounts'
    <2>1. /\ d' \in DState /\ d'.leaves = d.leaves
          /\ Len(d'.pending) = Len(d.pending) + 1 /\ Len(d'.pending) <= BATCH
      BY <1>0, <1>1, DepositEffect
    <2>2. dValue' = dValue + DELTA + FEE /\ w' = w /\ wValue' = wValue /\ payouts' = payouts
      BY <1>1 DEF Deposit
    <2>3. dValue' \in Nat /\ dValue' = dValue + (DELTA + FEE)
      BY <1>0, <2>2, ValueAssumption DEF TypeOK
    <2>4. dValue' = D_VALUE + (DELTA + FEE) * Len(d'.pending)
      <3>1. DELTA + FEE \in Int /\ D_VALUE \in Int /\ Len(d.pending) \in Int
        BY <1>0, ValueAssumption, GenesisAssumption
      <3>2. D_VALUE + (DELTA + FEE) * (Len(d.pending) + 1)
              = D_VALUE + (DELTA + FEE) * Len(d.pending) + (DELTA + FEE)
        BY <3>1, DepositBalance
      <3>3. dValue = D_VALUE + (DELTA + FEE) * Len(d.pending)
        BY <1>0 DEF Conservation
      <3> QED
        BY <2>1, <2>3, <3>2, <3>3
    <2>5. Conservation'
      BY <1>0, <2>1, <2>2, <2>4 DEF Conservation
    <2>6. TypeOK'
      BY <1>0, <2>1, <2>2, <2>3 DEF TypeOK
    <2> QED
      BY <2>5, <2>6 DEF Accounts
  <1>2. ASSUME Flush PROVE Accounts'
    <2>1. /\ d' \in DState /\ d'.pending = <<>> /\ Len(d.pending) = BATCH
          /\ Len(d'.leaves) = Len(d.leaves) + BATCH /\ Len(d.leaves) <= MAX_COUNT
          /\ w' \in WState /\ w'.epoch = w.epoch + 1
      BY <1>0, <1>2, FlushEffect
    <2>2. /\ dValue' = dValue - BATCH * (DELTA + FEE)
          /\ wValue' = wValue + BATCH * DELTA
          /\ payouts' = payouts
      BY <1>2 DEF Flush
    <2>3. /\ DELTA + FEE \in Nat /\ D_VALUE \in Nat /\ W_VALUE \in Nat
          /\ DELTA \in Nat /\ BATCH \in Nat /\ MAX_COUNT \in Nat
          /\ Len(d'.pending) = 0
      BY <2>1, ValueAssumption, GenesisAssumption, SizeAssumption, EmptySeq
    <2>4. dValue' = D_VALUE
      <3>1. (D_VALUE + (DELTA + FEE) * BATCH) - BATCH * (DELTA + FEE) = D_VALUE
        BY <2>3, QueueBalance
      <3>2. dValue = D_VALUE + (DELTA + FEE) * BATCH
        BY <1>0, <2>1 DEF Conservation
      <3>3. dValue' = (D_VALUE + (DELTA + FEE) * BATCH) - BATCH * (DELTA + FEE)
        BY <2>2, <3>2
      <3> QED
        BY <3>1, <3>3
    <2>5. wValue' = W_VALUE + DELTA * (Len(d'.leaves) - Len(payouts))
      <3>1. W_VALUE + DELTA * ((Len(d.leaves) + BATCH) - Len(payouts))
              = (W_VALUE + DELTA * (Len(d.leaves) - Len(payouts))) + BATCH * DELTA
        <4>1. /\ W_VALUE \in Int /\ DELTA \in Int /\ BATCH \in Int
              /\ Len(d.leaves) \in Int /\ Len(payouts) \in Int
          BY <1>0, <2>3
        <4>2. \A n, k \in Int : W_VALUE + DELTA * ((n + BATCH) - k)
                                   = (W_VALUE + DELTA * (n - k)) + BATCH * DELTA
          BY <4>1, FlushBalance
        <4> QED
          BY <4>1, <4>2, Zenon
      <3>2. wValue = W_VALUE + DELTA * (Len(d.leaves) - Len(payouts))
        BY <1>0 DEF Conservation
      <3>3. wValue' = (W_VALUE + DELTA * (Len(d.leaves) - Len(payouts))) + BATCH * DELTA
        BY <2>2, <3>2
      <3>4. Len(d'.leaves) - Len(payouts) = (Len(d.leaves) + BATCH) - Len(payouts)
        BY <2>1
      <3> QED
        BY <3>1, <3>3, <3>4
    <2>6. (DELTA + FEE) * 0 = 0
      BY <2>3
    <2>7. Conservation'
      BY <2>2, <2>3, <2>4, <2>5, <2>6 DEF Conservation
    <2>8. wValue' \in Nat
      <3>1. BATCH * DELTA \in Nat
        BY <2>3, ProductIsNat
      <3>2. wValue \in Nat
        BY <1>0 DEF TypeOK
      <3> QED
        BY <2>2, <3>1, <3>2
    <2>9. Len(d'.leaves) = BATCH * w'.epoch
      <3>1. BATCH * (w.epoch + 1) = BATCH * w.epoch + BATCH
        BY <1>0, <2>3
      <3> QED
        BY <1>0, <2>1, <3>1 DEF TypeOK
    <2>10. Len(d'.leaves) <= MAX_COUNT + BATCH /\ Len(d'.pending) <= BATCH
      BY <1>0, <2>1, <2>3
    <2>11. TypeOK'
      BY <1>0, <2>1, <2>2, <2>3, <2>4, <2>8, <2>9, <2>10 DEF TypeOK
    <2> QED
      BY <2>7, <2>11 DEF Accounts
  <1>3. ASSUME NEW n \in Note, NEW s \in Slot, Withdraw(n, s) PROVE Accounts'
    <2>1. /\ d' = d /\ w' \in WState /\ w'.epoch = w.epoch
          /\ payouts' \in Seq(Nullifier) /\ Len(payouts') = Len(payouts) + 1
      BY <1>0, <1>3, WithdrawEffect
    <2>2. wValue >= DELTA /\ wValue' = wValue - DELTA /\ dValue' = dValue
      BY <1>3 DEF Withdraw
    <2>3. wValue' \in Nat
      BY <1>0, <2>2, ValueAssumption DEF TypeOK
    <2>4. wValue' = W_VALUE + DELTA * (Len(d.leaves) - Len(payouts'))
      <3>1. W_VALUE + DELTA * (Len(d.leaves) - (Len(payouts) + 1))
              = (W_VALUE + DELTA * (Len(d.leaves) - Len(payouts))) - DELTA
        BY <1>0, ValueAssumption, GenesisAssumption, PayoutBalance
      <3> QED
        BY <1>0, <2>1, <2>2, <3>1 DEF Conservation
    <2>5. Conservation'
      BY <1>0, <2>1, <2>2, <2>4 DEF Conservation
    <2>6. TypeOK'
      BY <1>0, <2>1, <2>2, <2>3 DEF TypeOK
    <2> QED
      BY <2>5, <2>6 DEF Accounts
  <1>4. CASE UNCHANGED vars
    BY <1>0, <1>4 DEF vars, Accounts, TypeOK, Conservation
  <1> QED
    BY <1>1, <1>2, <1>3, <1>4 DEF Next

LEMMA AccountsHold == Spec => []Accounts
  BY InitAccounts, NextAccounts, PTL DEF Spec

\* Every reachable state is well typed: in particular the queue, the tree and
\* the epoch stay within what the scripts' 1-byte and 4-byte fields hold.
THEOREM TypeCorrect == Spec => []TypeOK
  <1>1. Accounts => TypeOK
    BY DEF Accounts
  <1> QED
    BY <1>1, AccountsHold, PTL

\* D and W always hold exactly what the deposits, flushes and withdrawals so
\* far account for.
THEOREM ConservationHolds == Spec => []Conservation
  <1>1. Accounts => Conservation
    BY DEF Accounts
  <1> QED
    BY <1>1, AccountsHold, PTL
-----------------------------------------------------------------------------
(***************************************************************************)
(* Payments.  A withdrawal pays for a leaf under a root of the ring, so    *)
(* that it was deposited needs the roots to stay inside the tree.          *)
(***************************************************************************)
SlotsInTree == \A s \in Slot : Range(w.slots[s]) \subseteq Range(d.leaves)

Payments == TypeOK /\ SlotsInTree /\ NoDoublePayout /\ PaidWasDeposited

LEMMA RangeOfAppend ==
  ASSUME NEW S, NEW q \in Seq(S), NEW e \in S
  PROVE  /\ Range(Append(q, e)) = Range(q) \cup {e}
         /\ DOMAIN Append(q, e) = DOMAIN q \cup {Len(q) + 1}
         /\ Len(q) + 1 \notin DOMAIN q
         /\ \A i \in DOMAIN q : Append(q, e)[i] = q[i]
         /\ Append(q, e)[Len(q) + 1] = e
  <1>1. DOMAIN q = 1 .. Len(q) /\ Len(q) \in Nat
    BY LenProperties
  <1>2. /\ DOMAIN Append(q, e) = 1 .. Len(q) + 1
        /\ \A i \in 1 .. Len(q) : Append(q, e)[i] = q[i]
        /\ Append(q, e)[Len(q) + 1] = e
    BY AppendProperties
  <1>3. 1 .. Len(q) + 1 = 1 .. Len(q) \cup {Len(q) + 1} /\ Len(q) + 1 \notin 1 .. Len(q)
    BY <1>1
  <1>4. Range(Append(q, e)) = Range(q) \cup {e}
    BY <1>1, <1>2, <1>3 DEF Range
  <1> QED
    BY <1>1, <1>2, <1>3, <1>4

LEMMA RangeOfConcat ==
  ASSUME NEW S, NEW q \in Seq(S), NEW r \in Seq(S)
  PROVE  Range(q) \subseteq Range(q \o r)
  <1>1. /\ DOMAIN q = 1 .. Len(q) /\ Len(q) \in Nat /\ Len(r) \in Nat
        /\ DOMAIN (q \o r) = 1 .. Len(q) + Len(r)
        /\ \A i \in 1 .. Len(q) : (q \o r)[i] = q[i]
    BY LenProperties, ConcatProperties
  <1>2. 1 .. Len(q) \subseteq 1 .. Len(q) + Len(r)
    BY <1>1
  <1> QED
    BY <1>1, <1>2 DEF Range

LEMMA InitPayments == Init => Payments
  <1> SUFFICES ASSUME Init PROVE Payments
    OBVIOUS
  <1>1. TypeOK
    BY InitAccounts DEF Accounts
  <1>2. SlotsInTree
    BY DEF Init, SlotsInTree, EmptyW, EmptyD, Z, Range
  <1>3. DOMAIN payouts = {} /\ w.keys = {}
    BY DEF Init, EmptyW
  <1>4. NoDoublePayout /\ PaidWasDeposited
    BY <1>3 DEF NoDoublePayout, PaidWasDeposited
  <1> QED
    BY <1>1, <1>2, <1>4 DEF Payments

LEMMA NextPayments == Payments /\ TypeOK' /\ [Next]_vars => Payments'
  <1> SUFFICES ASSUME Payments, TypeOK', [Next]_vars PROVE Payments'
    OBVIOUS
  <1>0. TypeOK /\ SlotsInTree /\ NoDoublePayout /\ PaidWasDeposited
    BY DEF Payments
  <1>1. ASSUME NEW C \in Leaf, Deposit(C) PROVE Payments'
    <2>1. d'.leaves = d.leaves /\ w' = w /\ payouts' = payouts
      BY <1>0, <1>1, DepositEffect DEF Deposit
    <2> QED
      BY <1>0, <2>1 DEF Payments, SlotsInTree, NoDoublePayout, PaidWasDeposited
  <1>2. ASSUME Flush PROVE Payments'
    <2>1. /\ d'.leaves = d.leaves \o d.pending
          /\ w'.keys = w.keys /\ payouts' = payouts
          /\ w'.slots = [w.slots EXCEPT ![w.epoch % RING] = d.leaves \o d.pending]
          /\ w.slots \in [Slot -> Root]
      BY <1>0, <1>2, FlushEffect DEF Flush, TypeOK, WState
    <2>2. Range(d.leaves) \subseteq Range(d'.leaves)
      BY <1>0, <2>1, RangeOfConcat DEF TypeOK, DState
    <2>3. SlotsInTree'
      <3> SUFFICES ASSUME NEW s \in Slot PROVE Range(w'.slots[s]) \subseteq Range(d'.leaves)
        BY DEF SlotsInTree
      <3>1. CASE s = w.epoch % RING
        BY <2>1, <3>1
      <3>2. CASE s # w.epoch % RING
        <4>1. w'.slots[s] = w.slots[s]
          BY <2>1, <3>2
        <4> QED
          BY <1>0, <2>2, <4>1 DEF SlotsInTree
      <3> QED
        BY <3>1, <3>2
    <2>4. NoDoublePayout'
      BY <1>0, <2>1 DEF NoDoublePayout
    <2>5. PaidWasDeposited'
      BY <1>0, <2>1, <2>2 DEF PaidWasDeposited
    <2> QED
      BY <2>3, <2>4, <2>5 DEF Payments
  <1>3. ASSUME NEW n \in Note, NEW s \in Slot, Withdraw(n, s) PROVE Payments'
    <2> DEFINE nf == NfOf[n]
    <2>1. /\ d' = d /\ w'.slots = w.slots
          /\ w'.keys = w.keys \cup {KeyOf[nf]}
          /\ KeyOf[nf] \notin w.keys
          /\ n \in Range(w.slots[s])
          /\ nf \in Nullifier
          /\ payouts' = Append(payouts, nf)
      BY <1>0, <1>3, WithdrawEffect
    <2>2. /\ DOMAIN payouts' = DOMAIN payouts \cup {Len(payouts) + 1}
          /\ Len(payouts) + 1 \notin DOMAIN payouts
          /\ \A i \in DOMAIN payouts : payouts'[i] = payouts[i]
          /\ payouts'[Len(payouts) + 1] = nf
      BY <1>0, <2>1, RangeOfAppend DEF TypeOK
    <2>3. SlotsInTree'
      BY <1>0, <2>1 DEF SlotsInTree
    <2>4. NoDoublePayout'
      <3>1. w.keys = {KeyOf[payouts[i]] : i \in DOMAIN payouts}
        BY <1>0 DEF NoDoublePayout
      <3>2. \A i \in DOMAIN payouts : KeyOf[payouts[i]] # KeyOf[nf]
        BY <2>1, <3>1
      <3>3. \A i, j \in DOMAIN payouts' : KeyOf[payouts'[i]] = KeyOf[payouts'[j]] => i = j
        BY <1>0, <2>2, <3>2 DEF NoDoublePayout
      <3>4. w'.keys = {KeyOf[payouts'[i]] : i \in DOMAIN payouts'}
        BY <2>1, <2>2, <3>1
      <3> QED
        BY <3>3, <3>4 DEF NoDoublePayout
    <2>5. PaidWasDeposited'
      <3>1. n \in Note \cap Range(d.leaves)
        BY <1>0, <2>1 DEF SlotsInTree
      <3> QED
        BY <1>0, <2>1, <2>2, <3>1 DEF PaidWasDeposited
    <2> QED
      BY <2>3, <2>4, <2>5 DEF Payments
  <1>4. CASE UNCHANGED vars
    BY <1>0, <1>4 DEF vars, Payments, SlotsInTree, NoDoublePayout, PaidWasDeposited
  <1> QED
    BY <1>1, <1>2, <1>3, <1>4 DEF Next

LEMMA PaymentsHold == Spec => []Payments
  <1>1. Init /\ [][Next]_vars /\ []TypeOK => []Payments
    BY InitPayments, NextPayments, PTL
  <1> QED
    BY <1>1, TypeCorrect, PTL DEF Spec

\* No nullifier, and no two nullifiers with one key, are ever paid twice.
THEOREM PaidOnce == Spec => []NoDoublePayout
  <1>1. Payments => NoDoublePayout
    BY DEF Payments
  <1> QED
    BY <1>1, PaymentsHold, PTL

\* Every payment is for a leaf that was deposited and flushed before.
THEOREM PaidForADeposit == Spec => []PaidWasDeposited
  <1>1. Payments => PaidWasDeposited
    BY DEF Payments
  <1> QED
    BY <1>1, PaymentsHold, PTL
-----------------------------------------------------------------------------
(***************************************************************************)
(* Solvency: every key paid is the key of a note in the tree and was paid  *)
(* for once, so the unspent keys are at most the leaves less the payments, *)
(* and W's balance has one denomination for each of those.                 *)
(***************************************************************************)
TreeKeys == {KeyOf[NfOf[n]] : n \in Note \cap Range(d.leaves)}

LEMMA TreeKeysBound ==
  ASSUME TypeOK
  PROVE  /\ IsFiniteSet(TreeKeys)
         /\ Cardinality(TreeKeys) <= Len(d.leaves)
  <1> DEFINE idx == {i \in 1 .. Len(d.leaves) : d.leaves[i] \in Note}
             key == [i \in idx |-> KeyOf[NfOf[d.leaves[i]]]]
  <1>1. d.leaves \in Seq(Leaf) /\ Len(d.leaves) \in Nat /\ DOMAIN d.leaves = 1 .. Len(d.leaves)
    BY LenProperties DEF TypeOK, DState
  <1>2. IsFiniteSet(1 .. Len(d.leaves)) /\ Cardinality(1 .. Len(d.leaves)) = Len(d.leaves)
    BY <1>1, FS_Interval
  <1>3. IsFiniteSet(idx) /\ Cardinality(idx) <= Len(d.leaves)
    BY <1>2, FS_Subset
  <1>4. key \in Surjection(idx, TreeKeys)
    BY <1>1 DEF Surjection, TreeKeys, Range
  <1>5. IsFiniteSet(TreeKeys) /\ Cardinality(TreeKeys) <= Cardinality(idx)
    BY <1>3, <1>4, FS_Surjection
  <1> HIDE DEF idx, key
  <1>6. Cardinality(TreeKeys) \in Nat /\ Cardinality(idx) \in Nat
    BY <1>3, <1>5, FS_CardinalityType
  <1> QED
    BY <1>1, <1>3, <1>5, <1>6

LEMMA PaidKeysCount ==
  ASSUME TypeOK, NoDoublePayout
  PROVE  Cardinality(w.keys) = Len(payouts)
  <1> DEFINE key == [i \in 1 .. Len(payouts) |-> KeyOf[payouts[i]]]
  <1>1. Len(payouts) \in Nat /\ DOMAIN payouts = 1 .. Len(payouts)
    BY LenProperties DEF TypeOK
  <1>2. /\ w.keys = {KeyOf[payouts[i]] : i \in 1 .. Len(payouts)}
        /\ \A i, j \in 1 .. Len(payouts) : KeyOf[payouts[i]] = KeyOf[payouts[j]] => i = j
    BY <1>1 DEF NoDoublePayout
  <1>3. key \in Bijection(1 .. Len(payouts), w.keys)
    BY <1>2 DEF Bijection, Injection, Surjection, IsInjective
  <1> QED
    BY <1>1, <1>3, FS_CountingElements DEF ExistsBijection

LEMMA OwedFinite ==
  ASSUME TypeOK
  PROVE  IsFiniteSet(Owed)
  <1>1. Owed \subseteq TreeKeys
    BY DEF Owed, TreeKeys
  <1> QED
    BY <1>1, TreeKeysBound, FS_Subset

LEMMA SolvencyFromAccounts ==
  ASSUME Accounts, Payments
  PROVE  Solvency
  <1>1. TypeOK /\ Conservation /\ NoDoublePayout /\ PaidWasDeposited
    BY DEF Accounts, Payments
  <1>2. Len(d.leaves) \in Nat /\ Len(payouts) \in Nat
    BY <1>1, LenProperties DEF TypeOK, DState
  <1>3. w.keys \subseteq TreeKeys
    <2>0. w.keys = {KeyOf[payouts[i]] : i \in DOMAIN payouts}
      BY <1>1 DEF NoDoublePayout
    <2> SUFFICES ASSUME NEW i \in DOMAIN payouts PROVE KeyOf[payouts[i]] \in TreeKeys
      BY <2>0
    <2>1. PICK n \in Note \cap Range(d.leaves) : NfOf[n] = payouts[i]
      BY <1>1 DEF PaidWasDeposited
    <2>2. KeyOf[NfOf[n]] \in TreeKeys
      BY DEF TreeKeys
    <2> QED
      BY <2>1, <2>2
  <1>4. /\ IsFiniteSet(TreeKeys)
        /\ Cardinality(TreeKeys) <= Len(d.leaves)
        /\ Cardinality(w.keys) = Len(payouts)
    BY <1>1, TreeKeysBound, PaidKeysCount
  <1>5. Owed = TreeKeys \ w.keys /\ TreeKeys \cap w.keys = w.keys
    <2>1. Owed = TreeKeys \ w.keys
      BY DEF Owed, TreeKeys
    <2>2. TreeKeys \cap w.keys = w.keys
      BY <1>3
    <2> QED
      BY <2>1, <2>2
  <1>6. /\ IsFiniteSet(Owed)
        /\ Cardinality(Owed) = Cardinality(TreeKeys) - Len(payouts)
    <2>1. /\ IsFiniteSet(TreeKeys \ w.keys)
          /\ Cardinality(TreeKeys \ w.keys)
               = Cardinality(TreeKeys) - Cardinality(TreeKeys \cap w.keys)
      BY <1>4, FS_Difference
    <2> QED
      BY <1>4, <1>5, <2>1
  <1>7. Cardinality(Owed) \in Nat /\ Cardinality(TreeKeys) \in Nat
    BY <1>4, <1>6, FS_CardinalityType
  <1>8. Cardinality(Owed) <= Len(d.leaves) - Len(payouts)
    BY <1>2, <1>4, <1>6, <1>7
  <1>9. \A x, y \in Int : x <= y => DELTA * x <= DELTA * y
    BY ValueAssumption
  <1>10. DELTA * Cardinality(Owed) <= DELTA * (Len(d.leaves) - Len(payouts))
    BY <1>2, <1>7, <1>8, <1>9
  <1>11. /\ DELTA * Cardinality(Owed) \in Int
         /\ DELTA * (Len(d.leaves) - Len(payouts)) \in Int
    BY <1>2, <1>7, ValueAssumption
  <1> QED
    BY <1>1, <1>10, <1>11, GenesisAssumption DEF Conservation, Solvency

\* W's value always covers one denomination for every unspent key in the tree.
THEOREM PoolIsSolvent == Spec => []Solvency
  <1>1. Accounts /\ Payments => Solvency
    BY SolvencyFromAccounts
  <1> QED
    BY <1>1, AccountsHold, PaymentsHold, PTL
-----------------------------------------------------------------------------
(***************************************************************************)
(* The ring.  Two flushes less than RING apart write different slots, so a *)
(* flush overwrites the root that is RING flushes old and no other.        *)
(***************************************************************************)
LEMMA SlotNotAfterEpoch ==
  ASSUME NEW R \in Nat \ {0}, NEW e \in Nat
  PROVE  e % R <= e
  OBVIOUS

History == TypeOK /\ RingIsHistory

LEMMA InitHistory == Init => History
  <1> SUFFICES ASSUME Init PROVE History
    OBVIOUS
  <1>1. TypeOK
    BY InitAccounts DEF Accounts
  <1>2. w.epoch = 0 /\ \A s \in Slot : w.slots[s] = Z
    BY DEF Init, EmptyW
  <1>3. 0 .. w.epoch - 1 = {}
    BY <1>2
  <1>4. RingIsHistory
    BY <1>2, <1>3 DEF RingIsHistory
  <1> QED
    BY <1>1, <1>4 DEF History

LEMMA FlushKeepsHistory ==
  ASSUME TypeOK, RingIsHistory, Flush
  PROVE  RingIsHistory'
  <1> DEFINE E == w.epoch
             new == d.leaves \o d.pending
  <1>0. \A m \in 1 .. Len(d.leaves) : SubSeq(new, 1, m) = SubSeq(d.leaves, 1, m)
    <2>1. d.leaves \in Seq(Leaf) /\ d.pending \in Seq(Leaf)
      BY DEF TypeOK, DState
    <2> QED
      BY <2>1, PrefixOfConcat
  <1>1. /\ d'.leaves = new /\ w'.epoch = E + 1
        /\ w'.slots = [w.slots EXCEPT ![E % RING] = new]
        /\ w.slots \in [Slot -> Root]
        /\ E % RING \in Slot /\ E \in Nat
        /\ Len(new) = Len(d.leaves) + BATCH
        /\ d.leaves \in Seq(Leaf) /\ d.pending \in Seq(Leaf) /\ new \in Seq(Leaf)
    BY FlushEffect, ConcatProperties DEF TypeOK, WState, DState
  <1>2. BATCH \in Nat \ {0} /\ RING \in Nat \ {0} /\ Len(d.leaves) = BATCH * E
    BY SizeAssumption DEF TypeOK
  <1>3. ASSUME NEW e \in 0 .. E, e + RING >= E + 1
        PROVE  w'.slots[e % RING] = SubSeq(new, 1, BATCH * (e + 1))
    <2>1. CASE e = E
      <3>1. BATCH * (E + 1) = Len(new)
        BY <1>1, <1>2
      <3>2. SubSeq(new, 1, Len(new)) = new
        BY <1>1, SubSeqFull
      <3> QED
        BY <1>1, <2>1, <3>1, <3>2
    <2>2. CASE e < E
      <3>1. e \in Nat /\ e \in 0 .. E - 1 /\ e + RING >= E /\ E < e + RING
        BY <1>1, <1>2, <1>3, <2>2
      <3>2. e % RING # E % RING /\ e % RING \in Slot
        BY <1>1, <1>2, <2>2, <3>1, NearbyEpochsDiffer, DivMod DEF Slot
      <3>3. w'.slots[e % RING] = w.slots[e % RING]
        BY <1>1, <3>2
      <3>4. w.slots[e % RING] = SubSeq(d.leaves, 1, BATCH * (e + 1))
        BY <3>1 DEF RingIsHistory
      <3>5. 1 \in 1 .. Len(d.leaves) /\ BATCH * (e + 1) \in 1 .. Len(d.leaves)
        <4>1. \A m \in 1 .. E : BATCH * m >= 1 /\ BATCH * m <= BATCH * E
          BY <1>1, <1>2, BatchesGrow
        <4>2. e + 1 \in 1 .. E /\ BATCH * (e + 1) \in Int /\ BATCH * E \in Int
          BY <1>1, <1>2, <3>1
        <4>3. BATCH * (e + 1) >= 1 /\ BATCH * (e + 1) <= BATCH * E
          BY <4>1, <4>2
        <4> QED
          BY <1>1, <1>2, <4>2, <4>3
      <3>6. SubSeq(new, 1, BATCH * (e + 1)) = SubSeq(d.leaves, 1, BATCH * (e + 1))
        BY <1>0, <3>5
      <3> QED
        BY <3>3, <3>4, <3>6
    <2>3. e = E \/ e < E
      BY <1>1
    <2> QED
      BY <2>1, <2>2, <2>3
  <1>4. ASSUME NEW s \in Slot, s >= E + 1 PROVE w'.slots[s] = Z
    <2>1. E % RING <= E
      BY <1>1, <1>2, SlotNotAfterEpoch
    <2>2. s # E % RING /\ s >= E
      BY <1>1, <1>2, <1>4, <2>1 DEF Slot
    <2> QED
      BY <1>1, <2>2 DEF RingIsHistory
  <1>5. 0 .. w'.epoch - 1 = 0 .. E
    BY <1>1
  <1> QED
    BY <1>1, <1>3, <1>4, <1>5 DEF RingIsHistory

LEMMA NextHistory == History /\ TypeOK' /\ [Next]_vars => History'
  <1> SUFFICES ASSUME History, TypeOK', [Next]_vars PROVE History'
    OBVIOUS
  <1>0. TypeOK /\ RingIsHistory
    BY DEF History
  <1>1. ASSUME NEW C \in Leaf, Deposit(C) PROVE History'
    <2>1. d'.leaves = d.leaves /\ w' = w
      BY <1>0, <1>1, DepositEffect DEF Deposit
    <2> QED
      BY <1>0, <2>1 DEF History, RingIsHistory
  <1>2. ASSUME Flush PROVE History'
    BY <1>0, <1>2, FlushKeepsHistory DEF History
  <1>3. ASSUME NEW n \in Note, NEW s \in Slot, Withdraw(n, s) PROVE History'
    <2>1. d' = d /\ w'.slots = w.slots /\ w'.epoch = w.epoch
      BY <1>0, <1>3, WithdrawEffect
    <2> QED
      BY <1>0, <2>1 DEF History, RingIsHistory
  <1>4. CASE UNCHANGED vars
    BY <1>0, <1>4 DEF vars, History, RingIsHistory
  <1> QED
    BY <1>1, <1>2, <1>3, <1>4 DEF Next

LEMMA HistoryHolds == Spec => []History
  <1>1. Init /\ [][Next]_vars /\ []TypeOK => []History
    BY InitHistory, NextHistory, PTL
  <1> QED
    BY <1>1, TypeCorrect, PTL DEF Spec

\* The ring holds the roots of the last RING flushes, each in its slot, and Z
\* where nothing was written yet.
THEOREM RingHoldsTheHistory == Spec => []RingIsHistory
  <1>1. History => RingIsHistory
    BY DEF History
  <1> QED
    BY <1>1, HistoryHolds, PTL

LEMMA LatestRootIsTheTree ==
  ASSUME TypeOK, RingIsHistory, NEW n \in Range(d.leaves)
  PROVE  \E s \in Slot : n \in Range(w.slots[s])
  <1> DEFINE last == w.epoch - 1
  <1>1. /\ d.leaves \in Seq(Leaf) /\ Len(d.leaves) \in Nat
        /\ DOMAIN d.leaves = 1 .. Len(d.leaves)
        /\ w.epoch \in Nat /\ RING \in Nat \ {0} /\ BATCH \in Nat \ {0}
        /\ Len(d.leaves) = BATCH * w.epoch
    BY LenProperties, SizeAssumption DEF TypeOK, DState, WState
  <1>2. w.epoch # 0
    <2> SUFFICES ASSUME w.epoch = 0 PROVE FALSE
      OBVIOUS
    <2>1. Len(d.leaves) = 0
      BY <1>1
    <2>2. DOMAIN d.leaves = {}
      BY <1>1, <2>1
    <2> QED
      BY <2>2 DEF Range
  <1>3. last \in Nat /\ last \in 0 .. w.epoch - 1 /\ last + RING >= w.epoch /\ last + 1 = w.epoch
    BY <1>1, <1>2
  <1>4. w.slots[last % RING] = SubSeq(d.leaves, 1, BATCH * (last + 1))
    BY <1>3 DEF RingIsHistory
  <1>5. SubSeq(d.leaves, 1, BATCH * (last + 1)) = d.leaves
    <2>1. BATCH * (last + 1) = Len(d.leaves)
      BY <1>1, <1>3
    <2> QED
      BY <1>1, <2>1, SubSeqFull
  <1>6. last % RING \in Slot
    BY <1>1, <1>3, DivMod DEF Slot
  <1> QED
    BY <1>4, <1>5, <1>6

\* A note that got into the tree can be proved against some root of the ring at
\* every later moment.
THEOREM NoteStaysProvable == Spec => []StillProvable
  <1>1. History => StillProvable
    BY LatestRootIsTheTree DEF History, StillProvable
  <1> QED
    BY <1>1, HistoryHolds, PTL

(***************************************************************************)
(* The pool implements the shielded ledger: a deposit is an Accept, a      *)
(* flush an Open, a withdrawal a Pay.                                      *)
(***************************************************************************)
Accepted == d.leaves \o d.pending
Custody == (dValue - D_VALUE - FEE * Len(d.pending)) + (wValue - W_VALUE)

LEMMA IndexInConcat ==
  ASSUME NEW S, NEW q \in Seq(S), NEW r \in Seq(S), NEW i \in 1 .. Len(q)
  PROVE  (q \o r)[i] = q[i]
  <1>1. Len(q) \in Nat /\ Len(r) \in Nat
    BY LenProperties
  <1>2. i \in 1 .. Len(q) + Len(r) /\ i <= Len(q)
    BY <1>1
  <1> QED
    BY <1>2, ConcatProperties

LEMMA AppendToConcat ==
  ASSUME NEW S, NEW q \in Seq(S), NEW r \in Seq(S), NEW e \in S
  PROVE  q \o Append(r, e) = Append(q \o r, e)
  <1>1. <<e>> \in Seq(S) /\ q \o r \in Seq(S)
    BY ConcatProperties
  <1>2. Append(r, e) = r \o <<e>> /\ Append(q \o r, e) = (q \o r) \o <<e>>
    BY <1>1, AppendIsConcat
  <1>3. (q \o r) \o <<e>> = q \o (r \o <<e>>)
    BY <1>1, ConcatAssociative
  <1> QED
    BY <1>2, <1>3

LEMMA LedgerState ==
  /\ Ledger!Init <=> /\ Accepted = <<>> /\ Len(d.leaves) = 0
                     /\ Range(payouts) = {} /\ Custody = 0
  /\ Ledger!vars = <<Accepted, Len(d.leaves), Range(payouts), Custody>>
  BY DEF Ledger!Init, Ledger!vars, Accepted, Custody

LEMMA LedgerInit == Init => Ledger!Init
  <1> SUFFICES ASSUME Init PROVE Ledger!Init
    OBVIOUS
  <1>1. d.leaves = <<>> /\ d.pending = <<>> /\ payouts = <<>>
    BY DEF Init, EmptyD
  <1>2. Accepted = <<>> /\ Len(d.leaves) = 0 /\ Len(d.pending) = 0 /\ Range(payouts) = {}
    BY <1>1 DEF Accepted, Range
  <1>3. Custody = 0
    BY <1>2, GenesisAssumption, ValueAssumption DEF Init, Custody
  <1> QED
    BY <1>2, <1>3, LedgerState

\* Payments cannot take W below its genesis value.
WAboveGenesis == wValue - W_VALUE \in Nat

LEMMA WIsAboveGenesis == Accounts /\ Payments => WAboveGenesis
  <1> SUFFICES ASSUME Accounts, Payments PROVE WAboveGenesis
    OBVIOUS
  <1>1. TypeOK /\ Solvency
    BY SolvencyFromAccounts DEF Accounts
  <1>2. Cardinality(Owed) \in Nat
    BY <1>1, OwedFinite, FS_CardinalityType
  <1>3. DELTA * Cardinality(Owed) \in Nat
    BY <1>2, ValueAssumption, ProductIsNat
  <1> QED
    BY <1>1, <1>3, GenesisAssumption DEF Solvency, TypeOK, WAboveGenesis

LEMMA WStaysAboveGenesis == Accounts' /\ Payments' => WAboveGenesis'
  BY WIsAboveGenesis, PTL

LEMMA LedgerNext ==
  ASSUME Accounts, Payments, Accounts', Payments', [Next]_vars
  PROVE  [Ledger!Next]_(Ledger!vars)
  <1>0. /\ TypeOK /\ Conservation /\ SlotsInTree /\ NoDoublePayout
        /\ d.leaves \in Seq(Leaf) /\ d.pending \in Seq(Leaf)
    BY DEF Accounts, Payments, TypeOK, DState
  <1>5. Len(d.pending) \in Nat /\ Len(d.leaves) \in Nat
    BY <1>0, LenProperties
  <1>6. /\ dValue \in Int /\ wValue \in Int /\ D_VALUE \in Int /\ W_VALUE \in Int
          /\ DELTA \in Nat /\ FEE \in Nat /\ BATCH \in Nat
    BY <1>0, GenesisAssumption, ValueAssumption, SizeAssumption DEF TypeOK
  <1>7. FEE * Len(d.pending) \in Int
    BY <1>5, <1>6
  <1>1. ASSUME NEW C \in Leaf, Deposit(C) PROVE Ledger!Accept(C)
    <2>1. /\ d'.leaves = d.leaves /\ d'.pending = Append(d.pending, C)
          /\ Len(d'.pending) = Len(d.pending) + 1
          /\ dValue' = dValue + DELTA + FEE /\ wValue' = wValue /\ payouts' = payouts
      BY <1>0, <1>1, DepositEffect DEF Deposit
    <2>2. d.leaves \o Append(d.pending, C) = Append(d.leaves \o d.pending, C)
      <3>1. \A q, r \in Seq(Leaf) : q \o Append(r, C) = Append(q \o r, C)
        BY AppendToConcat
      <3> QED
        BY <1>0, <3>1, Zenon
    <2>3. Custody' = Custody + DELTA
      <3>1. FEE * (Len(d.pending) + 1) = FEE * Len(d.pending) + FEE
        BY <1>5, <1>6
      <3>2. FEE * Len(d'.pending) = FEE * Len(d.pending) + FEE
        BY <2>1, <3>1
      <3>3. Custody' = ((dValue + DELTA + FEE) - D_VALUE - (FEE * Len(d.pending) + FEE))
                         + (wValue - W_VALUE)
        BY <2>1, <3>2 DEF Custody
      <3> DEFINE fees == FEE * Len(d.pending)
      <3> HIDE DEF fees
      <3>4. fees \in Int
        BY <1>7 DEF fees
      <3>5. ((dValue + DELTA + FEE) - D_VALUE - (fees + FEE)) + (wValue - W_VALUE)
              = ((dValue - D_VALUE - fees) + (wValue - W_VALUE)) + DELTA
        BY <1>6, <3>4
      <3> QED
        BY <3>3, <3>5 DEF Custody, fees
    <2> QED
      BY <2>1, <2>2, <2>3 DEF Ledger!Accept, Custody
  <1>2. ASSUME Flush PROVE Ledger!Open
    <2>1. /\ d'.pending = <<>> /\ d'.leaves = d.leaves \o d.pending
          /\ Len(d.pending) = BATCH /\ Len(d'.leaves) = Len(d.leaves) + BATCH
          /\ dValue' = dValue - BATCH * (DELTA + FEE)
          /\ wValue' = wValue + BATCH * DELTA
          /\ payouts' = payouts
      BY <1>0, <1>2, FlushEffect DEF Flush
    <2>2. d'.leaves \o d'.pending = d.leaves \o d.pending
      BY <1>0, <2>1, ConcatProperties, ConcatEmptySeq
    <2>3. Len(d'.leaves) \in Len(d.leaves) + 1 .. Len(d.leaves \o d.pending)
      <3>1. Len(d.leaves \o d.pending) = Len(d.leaves) + BATCH
        BY <1>0, <2>1, ConcatProperties
      <3> QED
        BY <1>5, <2>1, <3>1, SizeAssumption
    <2>4. Custody' = Custody
      <3>1. BATCH * (DELTA + FEE) = BATCH * DELTA + FEE * BATCH
        BY <1>6
      <3>2. BATCH * DELTA \in Int /\ FEE * BATCH \in Int /\ FEE * 0 = 0 /\ Len(d'.pending) = 0
        BY <1>6, <2>1
      <3>3. Custody' = ((dValue - (BATCH * DELTA + FEE * BATCH)) - D_VALUE - 0)
                         + ((wValue + BATCH * DELTA) - W_VALUE)
        BY <2>1, <3>1, <3>2 DEF Custody
      <3>4. Custody = (dValue - D_VALUE - FEE * BATCH) + (wValue - W_VALUE)
        BY <2>1 DEF Custody
      <3> QED
        BY <1>6, <3>2, <3>3, <3>4
    <2> QED
      BY <2>1, <2>2, <2>3, <2>4 DEF Ledger!Open, Custody
  <1>3. ASSUME NEW n \in Note, NEW s \in Slot, Withdraw(n, s) PROVE Ledger!Pay(n)
    <2>1. /\ d' = d /\ dValue' = dValue
          /\ KeyOf[NfOf[n]] \notin w.keys
          /\ n \in Range(w.slots[s])
          /\ NfOf[n] \in Nullifier
          /\ payouts' = Append(payouts, NfOf[n])
          /\ wValue' = wValue - DELTA
      BY <1>0, <1>3, WithdrawEffect DEF Withdraw
    <2>2. \E i \in 1 .. Len(d.leaves) : (d.leaves \o d.pending)[i] = n
      <3>1. DOMAIN d.leaves = 1 .. Len(d.leaves)
        BY <1>0, LenProperties
      <3>2. PICK i \in 1 .. Len(d.leaves) : d.leaves[i] = n
        BY <1>0, <2>1, <3>1 DEF SlotsInTree, Range
      <3>3. (d.leaves \o d.pending)[i] = d.leaves[i]
        BY <1>0, IndexInConcat
      <3> QED
        BY <3>2, <3>3
    <2>3. NfOf[n] \notin Range(payouts)
      <3>1. w.keys = {KeyOf[payouts[i]] : i \in DOMAIN payouts}
        BY <1>0 DEF NoDoublePayout
      <3> QED
        BY <2>1, <3>1 DEF Range
    <2>4. Range(payouts') = Range(payouts) \cup {NfOf[n]}
      BY <1>0, <2>1, RangeOfAppend DEF TypeOK
    <2>5. Custody' = Custody - DELTA
      BY <1>6, <1>7, <2>1 DEF Custody
    <2>6. Custody' >= 0
      <3> DEFINE fees == FEE * Len(d.pending)
                 queued == DELTA * Len(d.pending)
      <3>1. queued \in Nat /\ fees \in Int
        BY <1>5, <1>6, ProductIsNat
      <3>2. (DELTA + FEE) * Len(d.pending) = queued + fees
        <4>1. \A x \in Nat : (DELTA + FEE) * x = DELTA * x + FEE * x
          BY <1>6
        <4> QED
          BY <1>5, <4>1, Zenon
      <3>3. dValue = D_VALUE + (queued + fees)
        BY <1>0, <3>2 DEF Conservation
      <3>4. wValue' - W_VALUE \in Nat
        BY WStaysAboveGenesis DEF WAboveGenesis
      <3>5. Custody' = (dValue - D_VALUE - fees) + (wValue' - W_VALUE)
        BY <2>1 DEF Custody
      <3> HIDE DEF fees, queued
      <3>6. dValue - D_VALUE - fees = queued
        BY <1>6, <3>1, <3>3
      <3> QED
        BY <3>1, <3>4, <3>5, <3>6
    <2> QED
      BY <2>1, <2>2, <2>3, <2>4, <2>5, <2>6 DEF Ledger!Pay, Custody
  <1>4. ASSUME UNCHANGED vars PROVE UNCHANGED Ledger!vars
    <2>1. d' = d /\ dValue' = dValue /\ wValue' = wValue /\ payouts' = payouts
      BY <1>4 DEF vars
    <2> QED
      BY <2>1 DEF Ledger!vars
  <1> QED
    BY <1>1, <1>2, <1>3, <1>4, LedgerState DEF Next, Ledger!Next

\* The pool, with its covenants' queue and ring, keeps the promise made to its
\* users: deposits in order, then open, then paid once, the custody exact.
THEOREM PoolImplementsLedger == Spec => ImplementsLedger
  <1>1. Init => Ledger!Init
    BY LedgerInit
  <1>2. /\ Accounts /\ Payments /\ Accounts' /\ Payments' /\ [Next]_vars
        => [Ledger!Next]_(Ledger!vars)
    BY LedgerNext
  <1> QED
    BY <1>1, <1>2, AccountsHold, PaymentsHold, PTL DEF Spec, ImplementsLedger, Ledger!Spec

(***************************************************************************)
(* What no step of the pool ever does: reorder or drop a deposit, or bring *)
(* an expired root back into the ring.                                     *)
(***************************************************************************)
(***************************************************************************)
(* Order of deposits.                                                      *)
(***************************************************************************)
KeepsOrder ==
    \E k \in 0 .. 1 : LET before == d.leaves \o d.pending
                          after  == d'.leaves \o d'.pending
                      IN  Len(after) = Len(before) + k
                          /\ SubSeq(after, 1, Len(before)) = before

LEMMA PrefixOfAppend ==
  ASSUME NEW S, NEW q \in Seq(S), NEW e \in S
  PROVE  SubSeq(Append(q, e), 1, Len(q)) = q
  <1> DEFINE p == SubSeq(Append(q, e), 1, Len(q))
  <1>1. /\ Len(q) \in Nat /\ Append(q, e) \in Seq(S)
        /\ Len(Append(q, e)) = Len(q) + 1
        /\ \A i \in 1 .. Len(q) : Append(q, e)[i] = q[i]
    BY LenProperties, AppendProperties
  <1>2. /\ p \in Seq(S) /\ Len(p) = Len(q)
        /\ \A i \in 1 .. Len(q) : p[i] = Append(q, e)[i]
    BY <1>1, SubSeqProperties
  <1>3. \A i \in 1 .. Len(q) : p[i] = q[i]
    BY <1>1, <1>2
  <1> HIDE DEF p
  <1>4. p = q
    BY <1>2, <1>3, SeqEqual
  <1> QED
    BY <1>4 DEF p

\* KeepsOrder from the number of leaves the step adds.
LEMMA KeepsOrderByAdding ==
  ASSUME NEW k \in 0 .. 1,
         Len(d'.leaves \o d'.pending) = Len(d.leaves \o d.pending) + k,
         SubSeq(d'.leaves \o d'.pending, 1, Len(d.leaves \o d.pending))
           = d.leaves \o d.pending
  PROVE  KeepsOrder
  BY Zenon DEF KeepsOrder

LEMMA KeepsOrderByNotAdding ==
  ASSUME d.leaves \o d.pending \in Seq(Leaf),
         d'.leaves \o d'.pending = d.leaves \o d.pending
  PROVE  KeepsOrder
  <1> DEFINE before == d.leaves \o d.pending
  <1>1. before \in Seq(Leaf) /\ Len(before) \in Nat
    BY LenProperties
  <1> HIDE DEF before
  <1>2. SubSeq(before, 1, Len(before)) = before
    BY <1>1, SubSeqFull
  <1>3. Len(before) = Len(before) + 0 /\ 0 \in 0 .. 1
    BY <1>1
  <1> QED
    BY <1>2, <1>3, KeepsOrderByAdding, Zenon DEF before

LEMMA StepKeepsOrder ==
  ASSUME TypeOK, [Next]_vars
  PROVE  KeepsOrder \/ UNCHANGED vars
  <1> DEFINE before == d.leaves \o d.pending
  <1>1. d.leaves \in Seq(Leaf) /\ d.pending \in Seq(Leaf)
    BY DEF TypeOK, DState
  <1>2. before \in Seq(Leaf) /\ Len(before) \in Nat
    BY <1>1, ConcatProperties, LenProperties
  <1>3. ASSUME NEW C \in Leaf, Deposit(C) PROVE KeepsOrder
    <2>1. d'.leaves \o d'.pending = Append(before, C)
      <3>1. d'.leaves = d.leaves /\ d'.pending = Append(d.pending, C)
        BY <1>3, DepositEffect
      <3>2. d.leaves \o Append(d.pending, C) = Append(d.leaves \o d.pending, C)
        <4>1. \A q, r \in Seq(Leaf) : q \o Append(r, C) = Append(q \o r, C)
          BY AppendToConcat
        <4> QED
          BY <1>1, <4>1, Zenon
      <3> QED
        BY <3>1, <3>2
    <2> HIDE DEF before
    <2>2. /\ Len(Append(before, C)) = Len(before) + 1
          /\ SubSeq(Append(before, C), 1, Len(before)) = before
      BY <1>2, AppendProperties, PrefixOfAppend
    <2>3. 1 \in 0 .. 1
      OBVIOUS
    <2> QED
      BY <2>1, <2>2, <2>3, KeepsOrderByAdding, Zenon DEF before
  <1>4. ASSUME Flush PROVE KeepsOrder
    <2>1. d'.leaves = before /\ d'.pending = <<>>
      BY <1>4, FlushEffect
    <2>2. d'.leaves \o d'.pending = before
      BY <1>2, <2>1, ConcatEmptySeq
    <2> QED
      BY <1>2, <2>2, KeepsOrderByNotAdding
  <1>5. ASSUME NEW n \in Note, NEW s \in Slot, Withdraw(n, s) PROVE KeepsOrder
    <2>1. d'.leaves \o d'.pending = before
      BY <1>5, WithdrawEffect
    <2> QED
      BY <1>2, <2>1, KeepsOrderByNotAdding
  <1> QED
    BY <1>3, <1>4, <1>5 DEF Next

\* A leaf keeps the index its owner counted when it was deposited.
THEOREM OrderIsKept == Spec => DepositOrder
  <1>1. TypeOK /\ [Next]_vars => [KeepsOrder]_vars
    BY StepKeepsOrder
  <1>2. [][KeepsOrder]_vars => DepositOrder
    BY DEF KeepsOrder, DepositOrder
  <1> QED
    BY <1>1, <1>2, TypeCorrect, PTL DEF Spec
-----------------------------------------------------------------------------
(***************************************************************************)
(* Expired roots.                                                          *)
(***************************************************************************)
KeepsExpired ==
    \A e \in 1 .. w.epoch :
        LET root == SubSeq(d.leaves, 1, BATCH * e)
        IN  root \notin Range(w.slots) => root \notin Range(w'.slots)

LEMMA FlushKeepsExpired ==
  ASSUME TypeOK, Flush
  PROVE  KeepsExpired
  <1> SUFFICES ASSUME NEW e \in 1 .. w.epoch,
                      SubSeq(d.leaves, 1, BATCH * e) \notin Range(w.slots),
                      NEW s \in Slot,
                      w'.slots[s] = SubSeq(d.leaves, 1, BATCH * e)
               PROVE  FALSE
    <2>1. w' \in WState
      BY FlushEffect
    <2>2. DOMAIN w'.slots = Slot
      BY <2>1 DEF WState
    <2> QED
      BY <2>2 DEF KeepsExpired, Range
  <1> DEFINE root == SubSeq(d.leaves, 1, BATCH * e)
             new  == d.leaves \o d.pending
  <1>1. /\ d.leaves \in Seq(Leaf) /\ Len(d.leaves) \in Nat
        /\ w.slots \in [Slot -> Root] /\ w.epoch \in Nat
        /\ BATCH \in Nat \ {0} /\ Len(d.leaves) = BATCH * w.epoch
    BY LenProperties, SizeAssumption DEF TypeOK, DState, WState
  <1>2. Len(new) = Len(d.leaves) + BATCH /\ w'.slots = [w.slots EXCEPT ![w.epoch % RING] = new]
    BY FlushEffect
  <1>3. BATCH * e >= 1 /\ BATCH * e <= Len(d.leaves)
    BY <1>1, BatchesGrow
  <1>4. BATCH * e \in Nat
    BY <1>1, ProductIsNat
  <1>5. Len(root) = BATCH * e
    <2>1. 1 \in 1 .. Len(d.leaves) + 1 /\ BATCH * e \in 0 .. Len(d.leaves)
      BY <1>1, <1>3, <1>4
    <2> QED
      BY <1>1, <1>3, <1>4, <2>1, SubSeqProperties
  <1>6. Len(root) < Len(new)
    BY <1>1, <1>2, <1>3, <1>4, <1>5
  <1> HIDE DEF root, new
  <1>7. root # new
    BY <1>1, <1>2, <1>4, <1>5, <1>6
  <1>8. w'.slots[s] = w.slots[s] \/ w'.slots[s] = new
    BY <1>1, <1>2
  <1>9. w.slots[s] \in Range(w.slots)
    BY <1>1 DEF Range
  <1> QED
    BY <1>7, <1>8, <1>9 DEF root

LEMMA StepKeepsExpired ==
  ASSUME TypeOK, [Next]_vars
  PROVE  KeepsExpired \/ UNCHANGED vars
  <1>1. ASSUME NEW C \in Leaf, Deposit(C) PROVE KeepsExpired
    BY <1>1 DEF Deposit, KeepsExpired
  <1>2. ASSUME NEW n \in Note, NEW s \in Slot, Withdraw(n, s) PROVE KeepsExpired
    BY <1>2, WithdrawEffect DEF KeepsExpired
  <1> QED
    BY <1>1, <1>2, FlushKeepsExpired DEF Next

\* A root that has left the ring never comes back, however long one waits.
THEOREM ExpiredRootsStayOut == Spec => ExpiredStaysExpired
  <1>1. TypeOK /\ [Next]_vars => [KeepsExpired]_vars
    BY StepKeepsExpired
  <1>2. [][KeepsExpired]_vars => ExpiredStaysExpired
    BY DEF KeepsExpired, ExpiredStaysExpired
  <1> QED
    BY <1>1, <1>2, TypeCorrect, PTL DEF Spec
=============================================================================
