----------------------------- MODULE ChainProofs -----------------------------
(***************************************************************************)
(* Theorems about the covenant chain, for every number of chunks and every *)
(* computation.  The consumer who checks the lockings needs no premise;    *)
(* the provenance lemma and what follows from it need P1.                  *)
(*                                                                         *)
(* Then theorems about the verifier that does without a chain, in one      *)
(* transaction: for every number of blocks, however they are spread over   *)
(* inputs, every program and every way to cut it into pages.               *)
(***************************************************************************)
EXTENDS CovenantChain, Coordinator, Induction

(***************************************************************************)
(* What the ledger keeps: every input of every transaction is an output    *)
(* made before, and its script accepted it.                                *)
(***************************************************************************)
Accepted(ins, arg, outs) ==
    \A i \in DOMAIN ins : Out(ins[i]).lock # FREE =>
        /\ Takes(Out(ins[i]).lock, Len(ins), arg[i], Out(ins[i]))
        /\ Leaves(Out(ins[i]).lock, arg[i], outs)

Logged(t) ==
    /\ \A i \in DOMAIN txs[t].ins :
          txs[t].ins[i] \in Made /\ txs[t].ins[i][1] < t
    /\ Accepted(txs[t].ins, txs[t].arg, txs[t].outs)

LedgerOK ==
    /\ TypeOK
    /\ txs[1].ins = <<>>
    /\ \A t \in DOMAIN txs : Logged(t)

Published(ins, arg, outs) ==
    /\ ins \in Seq(utxo) /\ ins # <<>>
    /\ arg \in Seq(Arg)
    /\ outs \in Seq(Output)
    /\ Accepted(ins, arg, outs)
    /\ Tokens([i \in DOMAIN ins |-> Out(ins[i])], outs)
    /\ txs' = Append(txs, [ins |-> ins, arg |-> arg, outs |-> outs])
    /\ utxo' = (utxo \ Range(ins)) \cup {<<Len(txs) + 1, j>> : j \in DOMAIN outs}

LEMMA MadeIs ==
    ASSUME TypeOK
    PROVE  \A p : p \in Made <=>
               /\ p = <<p[1], p[2]>>
               /\ p[1] \in DOMAIN txs
               /\ p[2] \in DOMAIN txs[p[1]].outs
BY DEF Made

LEMMA OutIsOutput ==
    ASSUME TypeOK, NEW p \in Made
    PROVE  Out(p) \in Output /\ p \in Nat \X Nat
<1>1. p = <<p[1], p[2]>> /\ p[1] \in DOMAIN txs /\ p[2] \in DOMAIN txs[p[1]].outs
  BY MadeIs
<1>2. txs[p[1]] \in Tx
  BY <1>1 DEF TypeOK
<1>3. txs[p[1]].outs \in Seq(Output)
  BY <1>2 DEF Tx
<1>4. txs[p[1]].outs[p[2]] \in Output /\ p[2] \in Nat
  BY <1>1, <1>3
<1>5. p[1] \in Nat
  BY <1>1 DEF TypeOK
<1> QED
  BY <1>1, <1>4, <1>5 DEF Out

LEMMA ShortSeqs ==
    ASSUME NEW S, NEW a \in S, NEW b \in S
    PROVE  /\ <<a>> \in Seq(S) /\ Len(<<a>>) = 1 /\ <<a>> # <<>>
           /\ <<a, b>> \in Seq(S) /\ Len(<<a, b>>) = 2 /\ <<a, b>> # <<>>
OBVIOUS

\* Every step appends one transaction whose inputs' scripts accepted it.
LEMMA NextPublishes ==
    ASSUME TypeOK, Next
    PROVE  \E ins, arg, outs : Published(ins, arg, outs)
<1>1. PICK ins \in Ins : \E arg \in Args(ins) : Publish(ins, arg)
  BY DEF Next
<1>2. PICK arg \in Args(ins) : Publish(ins, arg)
  BY <1>1
<1>3. PICK outs \in Outs(ins, arg) :
        /\ \A i \in Chunked(ins) : Leaves(Locks(ins)[i], arg[i], outs)
        /\ Tokens([i \in DOMAIN ins |-> Out(ins[i])], outs)
        /\ txs' = Append(txs, [ins |-> ins, arg |-> arg, outs |-> outs])
        /\ utxo' = (utxo \ Range(ins))
                        \cup {<<Len(txs) + 1, j>> : j \in DOMAIN outs}
  BY <1>2 DEF Publish
<1>4. ins \in Seq(utxo) /\ ins # <<>> /\ Len(ins) \in 1..2
  <2>1. CASE \E p \in utxo : ins = <<p>>
    BY <2>1, ShortSeqs
  <2>2. CASE \E p, q \in utxo : ins = <<p, q>>
    <3>1. PICK p \in utxo, q \in utxo : ins = <<p, q>>
      BY <2>2
    <3> QED
      BY <3>1, ShortSeqs
  <2> QED
    BY <1>1, <2>1, <2>2 DEF Ins
<1>5. outs \in Seq(Output)
  <2>1. CASE \E o \in Output : outs = <<o>>
    BY <2>1, ShortSeqs
  <2>2. CASE \E o, q \in Output : outs = <<o, q>>
    <3>1. PICK o \in Output, q \in Output : outs = <<o, q>>
      BY <2>2
    <3> QED
      BY <3>1, ShortSeqs
  <2>3. outs \in {<<o>> : o \in Output} \cup {<<o, q>> : o \in Output, q \in Output}
    BY <1>3, SMT DEF Outs
  <2> QED
    BY <2>1, <2>2, <2>3
<1>6. \A i \in DOMAIN ins : Out(ins[i]) \in Output
  BY <1>4, OutIsOutput DEF TypeOK
<1>7. \A i \in DOMAIN ins : Locks(ins)[i] = Out(ins[i]).lock /\ Locks(ins)[i] \in Lock
  BY <1>6 DEF Locks, Output
<1>8. \A i \in DOMAIN ins : arg[i] \in Given(ins, i)
  <2>1. CASE Len(ins) = 1
    BY <2>1, <1>2, <1>4 DEF Args
  <2>2. CASE Len(ins) = 2
    BY <2>2, <1>2, <1>4 DEF Args
  <2> QED
    BY <2>1, <2>2, <1>4
<1>9. \A k \in Lock : Pushes(k) \subseteq Arg
  BY ChunksAssumption DEF Pushes, Arg, Lock, Genesis, Terminal, FREE
<1>10. \A i \in DOMAIN ins : arg[i] \in Arg
  BY <1>7, <1>8, <1>9 DEF Given
<1>11. DOMAIN arg = DOMAIN ins /\ arg \in Seq(Arg)
  <2>1. arg \in Seq(Arg) /\ Len(arg) = Len(ins)
    <3>1. CASE Len(ins) = 1
      <4>1. PICK a \in Given(ins, 1) : arg = <<a>>
        BY <3>1, <1>2 DEF Args
      <4>2. a = arg[1] /\ 1 \in DOMAIN ins
        BY <3>1, <4>1, <1>4
      <4> QED
        BY <3>1, <4>1, <4>2, <1>10, ShortSeqs
    <3>2. CASE Len(ins) = 2
      <4>1. PICK a \in Given(ins, 1), b \in Given(ins, 2) : arg = <<a, b>>
        BY <3>2, <1>2 DEF Args
      <4>2. a = arg[1] /\ b = arg[2] /\ 1 \in DOMAIN ins /\ 2 \in DOMAIN ins
        BY <3>2, <4>1, <1>4
      <4> QED
        BY <3>2, <4>1, <4>2, <1>10, ShortSeqs
    <3> QED
      BY <3>1, <3>2, <1>4
  <2> QED
    BY <2>1, <1>4
<1>12. Accepted(ins, arg, outs)
  BY <1>3, <1>7, <1>8 DEF Accepted, Given, Chunked
<1> QED
  BY <1>3, <1>4, <1>5, <1>11, <1>12 DEF Published

\* The log only grows: what was made stays as it was.
LEMMA LogGrows ==
    ASSUME TypeOK, NEW ins, NEW arg, NEW outs, Published(ins, arg, outs)
    PROVE  /\ txs' \in Seq(Tx) /\ Len(txs') = Len(txs) + 1
           /\ DOMAIN txs \subseteq DOMAIN txs' /\ Len(txs') \in DOMAIN txs'
           /\ \A t \in DOMAIN txs : txs'[t] = txs[t]
           /\ txs'[Len(txs) + 1] = [ins |-> ins, arg |-> arg, outs |-> outs]
           /\ \A p \in Made : p \in Made' /\ Out(p)' = Out(p)
           /\ \A p \in Made' : p \in Made \/ p[1] = Len(txs) + 1
<1> DEFINE tx == [ins |-> ins, arg |-> arg, outs |-> outs]
<1>1. tx \in Tx
  <2>1. utxo \subseteq Nat \X Nat
    BY OutIsOutput DEF TypeOK
  <2>2. ins \in Seq(Nat \X Nat)
    BY <2>1 DEF Published
  <2> QED
    BY <2>2 DEF Published, Tx
<1>2. txs' = Append(txs, tx) /\ txs \in Seq(Tx)
  BY DEF Published, TypeOK
<1> HIDE DEF tx
<1>3. /\ txs' \in Seq(Tx) /\ Len(txs') = Len(txs) + 1
      /\ \A t \in DOMAIN txs : txs'[t] = txs[t]
      /\ txs'[Len(txs) + 1] = tx
  BY <1>1, <1>2, AppendProperties
<1>4. DOMAIN txs \subseteq DOMAIN txs' /\ Len(txs') \in DOMAIN txs' /\ Len(txs) \in Nat
  BY <1>2, <1>3
<1>5. ASSUME NEW p \in Made
      PROVE  p \in Made' /\ Out(p)' = Out(p)
  <2>1. p = <<p[1], p[2]>> /\ p[1] \in DOMAIN txs /\ p[2] \in DOMAIN txs[p[1]].outs
    BY MadeIs
  <2>2. txs'[p[1]] = txs[p[1]] /\ p[1] \in DOMAIN txs'
    BY <2>1, <1>3, <1>4
  <2> QED
    BY <2>1, <2>2 DEF Made, Out
<1>6. ASSUME NEW p \in Made'
      PROVE  p \in Made \/ p[1] = Len(txs) + 1
  <2>1. PICK t \in DOMAIN txs' : p \in {<<t, i>> : i \in DOMAIN txs'[t].outs}
    BY DEF Made
  <2>2. p[1] = t
    BY <2>1
  <2>3. CASE t \in DOMAIN txs
    BY <2>1, <2>3, <1>3 DEF Made
  <2>4. CASE t \notin DOMAIN txs
    BY <2>2, <2>4, <1>2, <1>3
  <2> QED
    BY <2>3, <2>4
<1> QED
  BY <1>3, <1>4, <1>5, <1>6 DEF tx

LEMMA LedgerInit == Init => LedgerOK
<1> SUFFICES ASSUME Init PROVE LedgerOK
  OBVIOUS
<1>1. PICK outs \in Issue :
        txs = <<[ins |-> <<>>, arg |-> <<>>, outs |-> outs]>>
  BY DEF Init
<1>2. outs \in Seq(Output)
  BY <1>1, CovenantAssumption
<1>3. [ins |-> <<>>, arg |-> <<>>, outs |-> outs] \in Tx
  BY <1>2 DEF Tx
<1>4. txs \in Seq(Tx) /\ Len(txs) = 1 /\ DOMAIN txs = {1}
      /\ txs[1] = [ins |-> <<>>, arg |-> <<>>, outs |-> outs]
  BY <1>1, <1>3
<1>5. utxo = {<<1, j>> : j \in DOMAIN txs[1].outs}
  BY DEF Init
<1>6. utxo \subseteq Made
  BY <1>4, <1>5 DEF Made
<1>7. \A t \in DOMAIN txs : Logged(t)
  BY <1>4 DEF Logged, Accepted
<1> QED
  BY <1>4, <1>6, <1>7 DEF LedgerOK, TypeOK

LEMMA LedgerNext == LedgerOK /\ [Next]_vars => LedgerOK'
<1> SUFFICES ASSUME LedgerOK, [Next]_vars PROVE LedgerOK'
  OBVIOUS
<1>1. CASE UNCHANGED vars
  <2>1. txs' = txs /\ utxo' = utxo /\ Made' = Made /\ \A p : Out(p)' = Out(p)
    BY <1>1 DEF vars, Made, Out
  <2>2. \A t : Logged(t)' <=> Logged(t)
    BY <2>1 DEF Logged, Accepted
  <2> QED
    BY <2>1, <2>2 DEF LedgerOK, TypeOK
<1>2. CASE Next
  <2>1. PICK ins, arg, outs : Published(ins, arg, outs)
    BY <1>2, NextPublishes DEF LedgerOK
  <2>0. PICK n \in Nat : n = Len(txs) + 1
    BY DEF LedgerOK, TypeOK
  <2>2. /\ txs' \in Seq(Tx) /\ Len(txs') = n
        /\ DOMAIN txs \subseteq DOMAIN txs' /\ n \in DOMAIN txs'
        /\ \A t \in DOMAIN txs : txs'[t] = txs[t]
        /\ txs'[n] = [ins |-> ins, arg |-> arg, outs |-> outs]
        /\ \A p \in Made : p \in Made' /\ Out(p)' = Out(p)
    BY <2>0, <2>1, LogGrows DEF LedgerOK
  <2>3. Len(txs) \in Nat /\ Len(txs) > 0 /\ DOMAIN txs = 1..Len(txs) /\ DOMAIN txs' = 1..n
    BY <2>0, <2>2 DEF LedgerOK, TypeOK
  <2>4. utxo' \subseteq Made'
    <3>1. utxo \subseteq Made'
      BY <2>2 DEF LedgerOK, TypeOK
    <3>2. \A j \in DOMAIN outs : <<n, j>> \in Made'
      BY <2>2 DEF Made
    <3> QED
      BY <3>1, <3>2, <2>0, <2>1 DEF Published
  <2>5. txs'[1].ins = <<>>
    BY <2>2, <2>3 DEF LedgerOK
  <2>6. ASSUME NEW t \in DOMAIN txs
        PROVE  Logged(t)'
    <3>1. Logged(t) /\ txs'[t] = txs[t]
      BY <2>2 DEF LedgerOK
    <3> QED
      BY <3>1, <2>2 DEF Logged, Accepted
  <2>7. Logged(n)'
    <3>1. \A i \in DOMAIN ins : ins[i] \in Made
      BY <2>1 DEF Published, LedgerOK, TypeOK
    <3>2. \A i \in DOMAIN ins : ins[i][1] \in DOMAIN txs
      BY <3>1, MadeIs DEF LedgerOK
    <3>3. \A i \in DOMAIN ins : ins[i] \in Made' /\ ins[i][1] < n
      BY <3>1, <3>2, <2>0, <2>2, <2>3
    <3>4. Accepted(ins, arg, outs)'
      BY <3>1, <2>1, <2>2 DEF Published, Accepted
    <3> QED
      BY <3>3, <3>4, <2>2 DEF Logged, Accepted
  <2>8. \A t \in DOMAIN txs' : Logged(t)'
    <3>1. \A t \in DOMAIN txs' : t \in DOMAIN txs \/ t = n
      BY <2>0, <2>3
    <3> QED
      BY <3>1, <2>6, <2>7
  <2> QED
    BY <2>2, <2>3, <2>4, <2>5, <2>8 DEF LedgerOK, TypeOK
<1> QED
  BY <1>1, <1>2

\* Type correctness, and every transaction on the ledger was accepted by
\* the scripts of the outputs it spends (CovenantChain.Spec).
THEOREM LedgerCorrect == Spec => []LedgerOK
BY LedgerInit, LedgerNext, PTL DEF Spec

(***************************************************************************)
(* The consumer's walk.  Each transaction on it ran its chunk; the state   *)
(* it took is the one the transaction before computed.                     *)
(***************************************************************************)
LEMMA WalkStep ==
    ASSUME LedgerOK, NEW p, NEW k \in 1..N, NEW c \in Walks(p, k), NEW j \in 0..k - 1
    PROVE  /\ c[j] \in DOMAIN txs
           /\ Takes(j, 1, txs[c[j]].arg[1], Out(txs[c[j]].ins[1]))
           /\ Leaves(j, txs[c[j]].arg[1], txs[c[j]].outs)
           /\ txs[c[j]].ins[1] \in Made
<1>1. Walk(p, k, c) /\ c \in [0..k - 1 -> DOMAIN txs]
  BY DEF Walks
<1>2. c[j] \in DOMAIN txs /\ txs[c[j]].ins # <<>> /\ Out(txs[c[j]].ins[1]).lock = j
  BY <1>1 DEF Walk
<1>3. Logged(c[j]) /\ txs[c[j]] \in Tx
  BY <1>2 DEF LedgerOK, TypeOK
<1>4. 1 \in DOMAIN txs[c[j]].ins /\ Len(txs[c[j]].ins) \in Nat
  BY <1>2, <1>3 DEF Tx
<1>5. j # FREE
  BY ChunksAssumption DEF FREE
<1>6. /\ Takes(j, Len(txs[c[j]].ins), txs[c[j]].arg[1], Out(txs[c[j]].ins[1]))
      /\ Leaves(j, txs[c[j]].arg[1], txs[c[j]].outs)
      /\ txs[c[j]].ins[1] \in Made
  BY <1>2, <1>3, <1>4, <1>5 DEF Logged, Accepted
<1>7. Len(txs[c[j]].ins) = 1
  BY <1>6 DEF Takes, InputCount
<1> QED
  BY <1>2, <1>6, <1>7

LEMMA WalkSeam ==
    ASSUME LedgerOK, NEW p, NEW k \in 1..N, NEW c \in Walks(p, k), NEW j \in 1..k - 1
    PROVE  /\ txs[c[j]].ins[1] = <<c[j - 1], 1>>
           /\ Hash[txs[c[j]].arg[1].in] = Hash[txs[c[j - 1]].arg[1].out]
<1> DEFINE q == txs[c[j]].ins[1]
           before == txs[c[j - 1]]
<1>1. j - 1 \in 0..k - 1 /\ j \in 0..k - 1 /\ j # Genesis /\ j - 1 # Terminal
  BY ChunksAssumption DEF Genesis, Terminal
<1>2. q \in Made /\ q[1] = c[j - 1] /\ c[j - 1] \in DOMAIN txs
  BY <1>1, WalkStep DEF Walks, Walk
<1>3. Out(q) = before.outs[q[2]] /\ q[2] \in DOMAIN before.outs
  BY <1>2, MadeIs DEF Out, LedgerOK
<1>4. before.outs \in Seq(Output)
  <2>1. before \in Tx
    BY <1>2 DEF LedgerOK, TypeOK
  <2> QED
    BY <2>1 DEF Tx
<1> HIDE DEF q, before
<1>5. TokenCategory(Out(q)) = "C01" /\ Out(q).commit = Hash[txs[c[j]].arg[1].in]
  BY <1>1, WalkStep DEF Takes, Spends, q
<1>6. Leaves(j - 1, before.arg[1], before.outs)
  BY <1>1, WalkStep DEF before
<1>7. q[2] = 1
  <2>1. CASE j - 1 = Genesis
    <3>1. DOMAIN before.outs = 1..2
      BY <2>1, <1>4, <1>6 DEF Leaves, OutputCount
    <3>2. TokenCategory(before.outs[2]) = "C02"
      BY <2>1, <1>6 DEF Leaves, Leaves1
    <3> QED
      BY <3>1, <3>2, <1>3, <1>5
  <2>2. CASE j - 1 # Genesis
    BY <2>2, <1>3, <1>4, <1>6 DEF Leaves, OutputCount
  <2> QED
    BY <2>1, <2>2
<1>8. q = <<c[j - 1], 1>>
  BY <1>2, <1>7, MadeIs DEF LedgerOK
<1> QED
  BY <1>1, <1>3, <1>5, <1>6, <1>7, <1>8 DEF Leaves, Leaves0, before, q

LEMMA WalkVerifies ==
    ASSUME LedgerOK, NEW p, NEW c \in Walks(p, N)
    PROVE  StatementOf(c) \in Statement /\ Verified(StatementOf(c))
<1> DEFINE arg(j) == txs[c[j]].arg[1]
           tr == [j \in 0..N - 2 |-> arg(j).out]
<1>0. N \in Nat /\ N >= 3 /\ N \in 1..N
  BY ChunksAssumption
<1>1. \A j \in 0..N - 1 : Runs(j, arg(j))
  BY <1>0, WalkStep DEF Takes
<1>2. \A j \in 1..N - 1 : Hash[arg(j).in] = Hash[arg(j - 1).out]
  BY <1>0, WalkSeam
<1> HIDE DEF arg
<1>3. arg(0).in \in Statement /\ arg(0).out \in Start[arg(0).in]
  <2>1. Runs(0, arg(0))
    BY <1>0, <1>1
  <2> QED
    BY <2>1 DEF Runs, Genesis
<1>4. \A j \in 1..N - 2 : <<arg(j).in, arg(j).out>> \in Step[j]
  BY <1>0, <1>1 DEF Runs, Genesis
<1>5. arg(N - 1).in \in Accept
  <2>1. Runs(N - 1, arg(N - 1))
    BY <1>0, <1>1
  <2> QED
    BY <2>1 DEF Runs, Terminal
<1>6. arg(0).out \in State
  BY <1>3, ChunksAssumption
<1>7. \A j \in 1..N - 2 : arg(j).in \in State /\ arg(j).out \in State
  <2> TAKE j \in 1..N - 2
  <2>1. Step[j] \subseteq State \X State
    BY ChunksAssumption
  <2> QED
    BY <2>1, <1>4
<1>8. arg(N - 1).in \in State
  BY <1>5, ChunksAssumption
<1>9. tr \in [0..N - 2 -> State]
  BY <1>0, <1>6, <1>7
<1>10. \A j \in 1..N - 1 : arg(j).in = arg(j - 1).out
  <2> TAKE j \in 1..N - 1
  <2>1. arg(j).in \in State
    BY <1>0, <1>7, <1>8
  <2>2. arg(j - 1).out \in State
    BY <1>0, <1>6, <1>7
  <2> QED
    BY <2>1, <2>2, <1>2, CovenantAssumption
<1>11. \A j \in 1..N - 2 : <<tr[j - 1], tr[j]>> \in Step[j]
  <2> TAKE j \in 1..N - 2
  <2>1. tr[j - 1] = arg(j - 1).out /\ tr[j] = arg(j).out
    BY <1>0
  <2>2. arg(j).in = arg(j - 1).out
    BY <1>0, <1>10
  <2> QED
    BY <2>1, <2>2, <1>4
<1>12. tr[N - 2] \in Accept
  <2>1. tr[N - 2] = arg(N - 1 - 1).out
    BY <1>0
  <2>2. arg(N - 1).in = arg(N - 1 - 1).out
    BY <1>0, <1>10
  <2> QED
    BY <2>1, <2>2, <1>5
<1>13. tr[0] \in Start[arg(0).in]
  BY <1>0, <1>3
<1> HIDE DEF tr
<1>14. Verified(arg(0).in)
  BY <1>9, <1>11, <1>12, <1>13 DEF Verified, Computes, Genesis
<1> QED
  BY <1>3, <1>14 DEF StatementOf, arg

\* Without any premise about the category genesis: a consumer who walks
\* back from the last locking and checks the lockings reads a statement
\* that was verified (P2 of pairing/README.md).
THEOREM WalkSound == Spec => []WalkedIsVerified
<1>1. LedgerOK => WalkedIsVerified
  BY WalkVerifies DEF WalkedIsVerified
<1> QED
  BY <1>1, LedgerCorrect, PTL

(***************************************************************************)
(* The provenance lemma.                                                   *)
(***************************************************************************)
Placed(p) ==
    \/ Out(p).nft = "none"
    \/ IsBaton(Out(p))
    \/ /\ IsThread(Out(p))
       /\ Out(p).commit = Hash[txs[p[1]].arg[1].out]
       /\ Walks(p, Out(p).lock) # {}
    \/ IsVerdict(Out(p)) /\ Walks(p, N) # {}

\* Walks are not disturbed by what is published later.
LEMMA WalksStay ==
    ASSUME LedgerOK, NEW ins, NEW arg, NEW outs, Published(ins, arg, outs),
           NEW p, NEW k \in 1..N, NEW c \in Walks(p, k)
    PROVE  c \in Walks(p, k)' /\ StatementOf(c)' = StatementOf(c)
<1>1. Walk(p, k, c) /\ c \in [0..k - 1 -> DOMAIN txs]
  BY DEF Walks
<1>2. /\ DOMAIN txs \subseteq DOMAIN txs'
      /\ \A t \in DOMAIN txs : txs'[t] = txs[t]
      /\ \A q \in Made : Out(q)' = Out(q)
  BY LogGrows DEF LedgerOK
<1>3. k - 1 \in 0..k - 1 /\ 0 \in 0..k - 1 /\ 1..k - 1 \subseteq 0..k - 1
  OBVIOUS
<1>4. \A j \in 0..k - 1 : c[j] \in DOMAIN txs /\ txs[c[j]].ins[1] \in Made
  BY WalkStep
<1>5. \A j \in 0..k - 1 : txs'[c[j]] = txs[c[j]]
  BY <1>2, <1>4
<1>6. ASSUME NEW j \in 0..k - 1
      PROVE  txs'[txs[c[j]].ins[1][1]].outs[txs[c[j]].ins[1][2]]
                = Out(txs[c[j]].ins[1])
  <2>1. PICK q \in Made : q = txs[c[j]].ins[1]
    BY <1>4
  <2>2. Out(q)' = Out(q)
    BY <1>2
  <2> QED
    BY <2>1, <2>2 DEF Out
<1>7. c \in [0..k - 1 -> DOMAIN txs']
  BY <1>1, <1>2
<1>8. Walk(p, k, c)'
  <2>1. c[k - 1] = p[1]
    BY <1>1 DEF Walk
  <2>2. \A j \in 0..k - 1 : /\ txs'[c[j]].ins # <<>>
                            /\ Out(txs[c[j]].ins[1])'.lock = j
    BY <1>1, <1>5, <1>6 DEF Walk, Out
  <2>3. \A j \in 1..k - 1 : txs'[c[j]].ins[1][1] = c[j - 1]
    BY <1>1, <1>3, <1>5 DEF Walk
  <2>4. TokenCategory(Out(txs[c[0]].ins[1]))' = "C02"
    <3>1. TokenCategory(Out(txs[c[0]].ins[1])) = "C02"
      BY <1>1 DEF Walk
    <3>2. Out(txs[c[0]].ins[1])' = Out(txs[c[0]].ins[1])
      BY <1>3, <1>5, <1>6 DEF Out
    <3> QED
      BY <3>1, <3>2 DEF TokenCategory
  <2> QED
    BY <1>7, <2>1, <2>2, <2>3, <2>4 DEF Walk
<1> QED
  BY <1>3, <1>5, <1>7, <1>8 DEF Walks, StatementOf

\* The transaction that spends an output extends the walks from it.
LEMMA WalkExtends ==
    ASSUME LedgerOK, NEW ins, NEW arg, NEW outs, Published(ins, arg, outs),
           NEW n \in Nat, n = Len(txs) + 1, NEW i, NEW k \in 1..N - 1,
           Out(ins[1]).lock = k, NEW c \in Walks(ins[1], k)
    PROVE  Walks(<<n, i>>, k + 1)' # {}
<1> DEFINE d == [j \in 0..k |-> IF j = k THEN n ELSE c[j]]
           p == <<n, i>>
<1>0. N \in Nat /\ k \in Nat /\ k >= 1 /\ k \in 1..N /\ k + 1 - 1 = k
  BY ChunksAssumption
<1>1. /\ n \in DOMAIN txs' /\ DOMAIN txs \subseteq DOMAIN txs'
      /\ txs'[n].ins = ins
      /\ \A q \in Made : Out(q)' = Out(q)
  <2>1. /\ Len(txs') = Len(txs) + 1 /\ Len(txs') \in DOMAIN txs'
        /\ DOMAIN txs \subseteq DOMAIN txs'
        /\ txs'[Len(txs) + 1] = [ins |-> ins, arg |-> arg, outs |-> outs]
        /\ \A q \in Made : Out(q)' = Out(q)
    BY LogGrows DEF LedgerOK
  <2>2. n = Len(txs')
    BY <2>1
  <2> QED
    BY <2>1, <2>2
<1>2. PICK q \in Made : q = ins[1]
  BY DEF Published, LedgerOK, TypeOK
<1>3. c \in Walks(q, k)'
  BY <1>0, <1>2, WalksStay
<1>4. /\ c \in [0..k - 1 -> DOMAIN txs']
      /\ c[k - 1] = q[1]
      /\ \A j \in 0..k - 1 : txs'[c[j]].ins # <<>> /\ Out(txs[c[j]].ins[1])'.lock = j
      /\ \A j \in 1..k - 1 : txs'[c[j]].ins[1][1] = c[j - 1]
      /\ TokenCategory(Out(txs[c[0]].ins[1]))' = "C02"
  BY <1>3 DEF Walks, Walk
<1>5. Out(txs[n].ins[1])' = Out(q)
  BY <1>1, <1>2 DEF Out
<1>6. d \in [0..k -> DOMAIN txs']
  BY <1>0, <1>1, <1>4
<1>7. d[k] = n /\ \A j \in 0..k - 1 : d[j] = c[j]
  BY <1>0
<1> HIDE DEF d
<1>8. \A j \in 0..k : txs'[d[j]].ins # <<>> /\ Out(txs[d[j]].ins[1])'.lock = j
  <2> TAKE j \in 0..k
  <2>1. CASE j = k
    BY <2>1, <1>1, <1>2, <1>5, <1>7 DEF Published
  <2>2. CASE j \in 0..k - 1
    BY <2>2, <1>4, <1>7
  <2> QED
    BY <2>1, <2>2, <1>0
<1>9. \A j \in 1..k : txs'[d[j]].ins[1][1] = d[j - 1]
  <2> TAKE j \in 1..k
  <2>1. CASE j = k
    BY <2>1, <1>0, <1>1, <1>2, <1>4, <1>7
  <2>2. CASE j \in 1..k - 1
    <3>1. j \in 0..k - 1 /\ j - 1 \in 0..k - 1
      BY <2>2, <1>0
    <3> QED
      BY <2>2, <3>1, <1>4, <1>7
  <2> QED
    BY <2>1, <2>2, <1>0
<1>10. TokenCategory(Out(txs[d[0]].ins[1]))' = "C02"
  <2>1. 0 \in 0..k - 1 /\ d[0] = c[0]
    BY <1>0, <1>7
  <2> QED
    BY <2>1, <1>4
<1>11. Walk(p, k + 1, d)'
  BY <1>0, <1>6, <1>7, <1>8, <1>9, <1>10 DEF Walk
<1>12. d \in [0..(k + 1) - 1 -> DOMAIN txs']
  BY <1>0, <1>6
<1> QED
  BY <1>11, <1>12 DEF Walks

LEMMA WalkStarts ==
    ASSUME LedgerOK, NEW ins, NEW arg, NEW outs, Published(ins, arg, outs),
           NEW n \in Nat, n = Len(txs) + 1, NEW i,
           Out(ins[1]).lock = 0, TokenCategory(Out(ins[1])) = "C02"
    PROVE  Walks(<<n, i>>, 1)' # {}
<1> DEFINE d == [j \in 0..0 |-> n]
<1>1. /\ n \in DOMAIN txs'
      /\ txs'[n].ins = ins
      /\ \A q \in Made : Out(q)' = Out(q)
  <2>1. /\ Len(txs') = Len(txs) + 1 /\ Len(txs') \in DOMAIN txs'
        /\ DOMAIN txs \subseteq DOMAIN txs'
        /\ txs'[Len(txs) + 1] = [ins |-> ins, arg |-> arg, outs |-> outs]
        /\ \A q \in Made : Out(q)' = Out(q)
    BY LogGrows DEF LedgerOK
  <2>2. n = Len(txs')
    BY <2>1
  <2> QED
    BY <2>1, <2>2
<1>2. PICK q \in Made : q = ins[1]
  BY DEF Published, LedgerOK, TypeOK
<1>3. Out(txs[n].ins[1])' = Out(q)
  BY <1>1, <1>2 DEF Out
<1>4. d \in [0..0 -> DOMAIN txs'] /\ d[0] = n
  BY <1>1
<1> HIDE DEF d
<1>5. \A j \in 0..0 : txs'[d[j]].ins # <<>> /\ Out(txs[d[j]].ins[1])'.lock = j
  BY <1>1, <1>2, <1>3, <1>4 DEF Published
<1>6. TokenCategory(Out(txs[d[0]].ins[1]))' = "C02"
  BY <1>2, <1>3, <1>4 DEF TokenCategory
<1>7. Walk(<<n, i>>, 1, d)'
  BY <1>4, <1>5, <1>6 DEF Walk
<1> QED
  BY <1>4, <1>7 DEF Walks

LEMMA OldStayPlaced ==
    ASSUME LedgerOK, NEW ins, NEW arg, NEW outs, Published(ins, arg, outs),
           NEW p \in Made, Placed(p)
    PROVE  Placed(p)'
<1>1. Out(p)' = Out(p)
  BY LogGrows DEF LedgerOK
<1>2. txs'[p[1]] = txs[p[1]]
  BY MadeIs, LogGrows DEF LedgerOK
<1>3. ASSUME NEW k \in 1..N, Walks(p, k) # {}
      PROVE  Walks(p, k)' # {}
  BY <1>3, WalksStay
<1>4. N \in 1..N /\ 1..Terminal \subseteq 1..N
  BY ChunksAssumption DEF Terminal
<1>5. CASE Out(p).nft = "none" \/ IsBaton(Out(p))
  BY <1>1, <1>5 DEF Placed, IsBaton
<1>6. CASE IsThread(Out(p)) /\ Out(p).commit = Hash[txs[p[1]].arg[1].out]
           /\ Walks(p, Out(p).lock) # {}
  <2>1. PICK k \in 1..N : k = Out(p).lock
    BY <1>4, <1>6 DEF IsThread
  <2>2. Walks(p, k)' # {}
    BY <2>1, <1>3, <1>6
  <2>3. Walks(p, Out(p).lock)' = Walks(p, k)'
    BY <2>1, <1>1 DEF Walks, Walk
  <2> QED
    BY <2>2, <2>3, <1>1, <1>2, <1>6 DEF Placed, IsThread
<1>7. CASE IsVerdict(Out(p)) /\ Walks(p, N) # {}
  <2>1. Walks(p, N)' # {}
    BY <1>3, <1>4, <1>7
  <2> QED
    BY <2>1, <1>1, <1>7 DEF Placed, IsVerdict
<1> QED
  BY <1>5, <1>6, <1>7 DEF Placed

LEMMA NewIsPlaced ==
    ASSUME LedgerOK, \A q \in Made : Placed(q),
           NEW ins, NEW arg, NEW outs, Published(ins, arg, outs),
           NEW n \in Nat, n = Len(txs) + 1, NEW i \in DOMAIN outs
    PROVE  Placed(<<n, i>>)'
<1> DEFINE p == <<n, i>>
<1>0. N \in Nat /\ N >= 3
  BY ChunksAssumption
<1>1. Out(p)' = outs[i] /\ txs'[n].arg = arg
  <2>1. txs'[n] = [ins |-> ins, arg |-> arg, outs |-> outs]
    BY LogGrows DEF LedgerOK
  <2> QED
    BY <2>1 DEF Out
<1>2. outs \in Seq(Output) /\ outs[i] \in Output
  BY DEF Published
<1>3. ins \in Seq(utxo) /\ ins # <<>> /\ 1 \in DOMAIN ins
  BY DEF Published
<1>4. \A j \in DOMAIN ins : ins[j] \in Made /\ Out(ins[j]) \in Output
  BY <1>3, OutIsOutput DEF LedgerOK, TypeOK
<1>5. CASE \E j \in DOMAIN ins : Out(ins[j]).lock # FREE
  <2>1. Len(ins) = 1 /\ Out(ins[1]).lock # FREE
    BY <1>3, <1>5 DEF Published, Accepted, Takes, InputCount
  <2>2. PICK o \in Output : o = Out(ins[1])
    BY <1>3, <1>4
  <2>3. PICK k \in 0..N - 1 : k = o.lock
    <3>1. o.lock \in 0..N
      BY DEF Output, Lock
    <3> QED
      BY <3>1, <2>2, <2>1, <1>0 DEF FREE
  <2>4. Takes(k, 1, arg[1], o) /\ Leaves(k, arg[1], outs)
    BY <2>2, <2>1, <2>3, <1>3 DEF Published, Accepted
  <2>5. Placed(ins[1])
    BY <1>3, <1>4
  <2>6. CASE k = Genesis
    <3>1. Len(outs) = 2 /\ DOMAIN outs = 1..2
      BY <2>4, <2>6, <1>2 DEF Leaves, OutputCount
    <3>2. CASE i = 1
      <4>1. IsThread(outs[1]) /\ outs[1].lock = 1 /\ outs[1].commit = Hash[arg[1].out]
        BY <2>4, <2>6, <3>2, <1>0, <1>2
           DEF Leaves, Leaves0, IsThread, TokenCategory, Output, Genesis, Terminal
      <4>2. Walks(p, 1)' # {}
        BY <2>2, <2>4, <2>3, <2>6, WalkStarts DEF Takes, Spends, Genesis
      <4>3. Walks(p, Out(p).lock)' = Walks(p, 1)'
        BY <4>1, <3>2, <1>1 DEF Walks, Walk
      <4> QED
        BY <4>1, <4>2, <4>3, <3>2, <1>1 DEF Placed, IsThread
    <3>3. CASE i = 2
      <4>1. IsBaton(outs[2])
        BY <2>4, <2>6, <3>3, <1>2 DEF Leaves, Leaves1, IsBaton, TokenCategory, Output
      <4> QED
        BY <4>1, <3>3, <1>1 DEF Placed, IsBaton
    <3> QED
      BY <3>1, <3>2, <3>3
  <2>7. CASE k # Genesis
    <3>1. Len(outs) = 1 /\ i = 1
      BY <2>4, <2>7, <1>2 DEF Leaves, OutputCount
    <3>2. k \in 1..N - 1
      BY <2>3, <2>7, <1>0 DEF Genesis
    <3>3. o.nft = "mutable"
      BY <2>4, <2>3, <2>7 DEF Takes, Spends, TokenCategory, Output
    <3>4. Walks(ins[1], k) # {}
      BY <2>2, <2>3, <2>5, <3>3 DEF Placed, IsBaton, IsVerdict
    <3>5. Walks(p, k + 1)' # {}
      BY <2>2, <2>3, <3>2, <3>4, WalkExtends
    <3>6. CASE k = Terminal
      <4>1. outs[1].nft = "none" \/ IsVerdict(outs[1])
        BY <2>4, <3>1, <3>6, <1>2
           DEF Leaves, Leaves0, IsVerdict, TokenCategory, Output
      <4>2. k + 1 = N
        BY <3>6, <1>0 DEF Terminal
      <4> QED
        BY <4>1, <4>2, <3>1, <3>5, <1>1 DEF Placed, IsVerdict
    <3>7. CASE k # Terminal
      <4>1. /\ IsThread(outs[1]) /\ outs[1].lock = k + 1
            /\ outs[1].commit = Hash[arg[1].out]
        BY <2>4, <3>1, <3>2, <3>7, <1>0, <1>2
           DEF Leaves, Leaves0, IsThread, TokenCategory, Output, Terminal
      <4>2. Walks(p, Out(p).lock)' = Walks(p, k + 1)'
        BY <4>1, <3>1, <1>1 DEF Walks, Walk
      <4> QED
        BY <4>1, <4>2, <3>1, <3>5, <1>1 DEF Placed, IsThread
    <3> QED
      BY <3>6, <3>7
  <2> QED
    BY <2>6, <2>7
<1>6. CASE \A j \in DOMAIN ins : Out(ins[j]).lock = FREE
  <2>1. \A j \in DOMAIN ins : Out(ins[j]).nft = "none"
    BY <1>0, <1>4, <1>6
       DEF Placed, IsBaton, IsThread, IsVerdict, FREE, Genesis, Terminal
  <2>2. outs[i].nft = "none"
    BY <2>1 DEF Published, Tokens, MayBecome
  <2> QED
    BY <2>2, <1>1 DEF Placed
<1> QED
  BY <1>5, <1>6

LEMMA PlacedInit ==
    ASSUME P1, Init
    PROVE  TokensArePlaced
<1>1. PICK outs \in Issue :
        txs = <<[ins |-> <<>>, arg |-> <<>>, outs |-> outs]>>
  BY DEF Init
<1>2. TypeOK
  BY LedgerInit DEF LedgerOK
<1>3. ASSUME NEW p \in Made
      PROVE  Out(p).nft = "none" \/ IsBaton(Out(p))
  <2>1. p[1] = 1 /\ p[2] \in DOMAIN outs /\ Out(p) = outs[p[2]]
    BY <1>1, <1>2, MadeIs DEF Out
  <2> QED
    BY <2>1 DEF P1
<1> QED
  BY <1>3 DEF TokensArePlaced

LEMMA PlacedNext ==
    ASSUME LedgerOK, TokensArePlaced, [Next]_vars
    PROVE  TokensArePlaced'
<1>1. \A q \in Made : Placed(q)
  BY DEF TokensArePlaced, Placed
<1>2. CASE UNCHANGED vars
  <2>1. txs' = txs /\ Made' = Made
    BY <1>2 DEF vars, Made
  <2>2. \A q : Placed(q)' <=> Placed(q)
    BY <2>1 DEF Placed, Out, IsBaton, IsThread, IsVerdict, Walks, Walk, TokenCategory
  <2> QED
    BY <2>1, <2>2, <1>1 DEF TokensArePlaced, Placed
<1>3. CASE Next
  <2>1. PICK ins, arg, outs : Published(ins, arg, outs)
    BY <1>3, NextPublishes DEF LedgerOK
  <2>2. PICK n \in Nat : n = Len(txs) + 1
    BY DEF LedgerOK, TypeOK
  <2>3. ASSUME NEW p \in Made'
        PROVE  Placed(p)'
    <3>1. CASE p \in Made
      BY <3>1, <1>1, <2>1, OldStayPlaced
    <3>2. CASE p[1] = n
      <4>1. txs'[n] = [ins |-> ins, arg |-> arg, outs |-> outs]
        BY <2>1, <2>2, LogGrows DEF LedgerOK
      <4>2. PICK i \in DOMAIN outs : p = <<n, i>>
        BY <3>2, <4>1 DEF Made
      <4> QED
        BY <4>2, <1>1, <2>1, <2>2, NewIsPlaced
    <3> QED
      BY <3>1, <3>2, <2>1, <2>2, LogGrows DEF LedgerOK
  <2> QED
    BY <2>3 DEF TokensArePlaced, Placed
<1> QED
  BY <1>2, <1>3

\* Under P1 every NFT of the category is a baton, a thread with a walk back
\* to a genesis, or a verdict with one (the lemma of pairing/README.md).
THEOREM Provenance == ASSUME P1 PROVE Spec => []TokensArePlaced
<1>1. Init => TokensArePlaced
  BY PlacedInit
<1>2. LedgerOK /\ TokensArePlaced /\ [Next]_vars => TokensArePlaced'
  BY PlacedNext
<1> QED
  BY <1>1, <1>2, LedgerCorrect, PTL DEF Spec

\* Under P1 every verdict is one for a verified statement (the theorem of
\* pairing/README.md).
THEOREM VerdictSound == ASSUME P1 PROVE Spec => []VerdictMeansVerified
<1>1. LedgerOK /\ TokensArePlaced => VerdictMeansVerified
  <2> SUFFICES ASSUME LedgerOK, TokensArePlaced, NEW p \in Verdicts
               PROVE  \E c \in Walks(p, N) : Verified(StatementOf(c))
    BY DEF VerdictMeansVerified
  <2>1. p \in Made /\ IsVerdict(Out(p))
    BY DEF Verdicts
  <2>2. PICK c \in Walks(p, N) : TRUE
    BY <2>1 DEF TokensArePlaced, IsVerdict, IsBaton, IsThread
  <2> QED
    BY <2>2, WalkVerifies
<1> QED
  BY <1>1, LedgerCorrect, Provenance, PTL

\* No transaction spends a verdict: the script asks for a mutable NFT.
THEOREM VerdictsStay == Spec => VerdictsLast
<1>1. LedgerOK /\ [Next]_vars
        => [\A p \in utxo : IsVerdict(Out(p)) => p \in utxo']_vars
  <2> SUFFICES ASSUME LedgerOK, Next, NEW p \in utxo, IsVerdict(Out(p))
               PROVE  p \in utxo'
    BY DEF vars
  <2>1. PICK ins, arg, outs : Published(ins, arg, outs)
    BY NextPublishes DEF LedgerOK
  <2>2. Out(p).lock = Terminal /\ Terminal # FREE /\ Terminal # Genesis
    BY ChunksAssumption DEF IsVerdict, Terminal, FREE, Genesis
  <2>3. TokenCategory(Out(p)) = "C"
    BY DEF IsVerdict, TokenCategory
  <2>4. \A i \in DOMAIN ins : ins[i] # p
    BY <2>1, <2>2, <2>3 DEF Published, Accepted, Takes, Spends
  <2> QED
    BY <2>1, <2>4 DEF Published, Range
<1> QED
  BY <1>1, LedgerCorrect, PTL DEF Spec, VerdictsLast

(***************************************************************************)
(* No output is spent twice, so two walks from one genesis never part.     *)
(***************************************************************************)
SpentOnce ==
    \A t, u \in DOMAIN txs : \A i \in DOMAIN txs[t].ins :
        /\ txs[t].ins[i] \notin utxo
        /\ \A j \in DOMAIN txs[u].ins : txs[t].ins[i] = txs[u].ins[j] => t = u

LEMMA SpentOnceNext == LedgerOK /\ SpentOnce /\ [Next]_vars => SpentOnce'
<1> SUFFICES ASSUME LedgerOK, SpentOnce, [Next]_vars PROVE SpentOnce'
  OBVIOUS
<1>1. CASE UNCHANGED vars
  BY <1>1 DEF SpentOnce, vars
<1>2. CASE Next
  <2>1. PICK ins, arg, outs : Published(ins, arg, outs)
    BY <1>2, NextPublishes DEF LedgerOK
  <2>2. PICK n \in Nat : n = Len(txs) + 1
    BY DEF LedgerOK, TypeOK
  <2>3. /\ txs' \in Seq(Tx) /\ Len(txs') = n
        /\ \A t \in DOMAIN txs : txs'[t] = txs[t]
        /\ txs'[n] = [ins |-> ins, arg |-> arg, outs |-> outs]
        /\ txs'[n].ins = ins
    <3>1. /\ txs' \in Seq(Tx) /\ Len(txs') = n
          /\ \A t \in DOMAIN txs : txs'[t] = txs[t]
          /\ txs'[n] = [ins |-> ins, arg |-> arg, outs |-> outs]
      BY <2>1, <2>2, LogGrows DEF LedgerOK
    <3> QED
      BY <3>1
  <2>4. DOMAIN txs' = DOMAIN txs \cup {n} /\ n \notin DOMAIN txs /\ \A t \in DOMAIN txs : t < n
    <3>1. Len(txs) \in Nat /\ DOMAIN txs = 1..Len(txs) /\ DOMAIN txs' = 1..n
      BY <2>3 DEF LedgerOK, TypeOK
    <3> QED
      BY <3>1, <2>2
  <2>5. \A i \in DOMAIN ins : ins[i] \in utxo /\ ins[i] \in Made /\ ins[i][1] \in DOMAIN txs
    <3> TAKE i \in DOMAIN ins
    <3>1. ins[i] \in utxo /\ ins[i] \in Made
      BY <2>1 DEF Published, LedgerOK, TypeOK
    <3> QED
      BY <3>1, MadeIs DEF LedgerOK
  <2>6. \A p \in utxo' : (p \in utxo /\ p \notin Range(ins)) \/ p[1] = n
    BY <2>1, <2>2 DEF Published
  <2>7. ASSUME NEW t \in DOMAIN txs', NEW i \in DOMAIN txs'[t].ins
        PROVE  txs'[t].ins[i] \notin utxo'
    <3>1. CASE t = n
      BY <3>1, <2>3, <2>4, <2>5, <2>6 DEF Range
    <3>2. CASE t \in DOMAIN txs
      <4>1. txs'[t] = txs[t] /\ txs[t].ins[i] \notin utxo
        BY <3>2, <2>3, <2>7 DEF SpentOnce
      <4>2. txs[t].ins[i][1] < t /\ txs[t].ins[i] \in Made
        BY <3>2, <2>7, <4>1 DEF LedgerOK, Logged
      <4>3. txs[t].ins[i][1] \in DOMAIN txs
        BY <4>2, MadeIs DEF LedgerOK
      <4> QED
        BY <4>1, <4>3, <2>4, <2>6
    <3> QED
      BY <3>1, <3>2, <2>4
  <2>8. ASSUME NEW t \in DOMAIN txs', NEW u \in DOMAIN txs',
               NEW i \in DOMAIN txs'[t].ins, NEW j \in DOMAIN txs'[u].ins,
               txs'[t].ins[i] = txs'[u].ins[j]
        PROVE  t = u
    <3>1. CASE t \in DOMAIN txs /\ u \in DOMAIN txs
      BY <3>1, <2>3, <2>8 DEF SpentOnce
    <3>2. CASE t = n /\ u \in DOMAIN txs
      BY <3>2, <2>3, <2>5, <2>8 DEF SpentOnce
    <3>3. CASE u = n /\ t \in DOMAIN txs
      BY <3>3, <2>3, <2>5, <2>8 DEF SpentOnce
    <3> QED
      BY <3>1, <3>2, <3>3, <2>4
  <2> QED
    BY <2>7, <2>8 DEF SpentOnce
<1> QED
  BY <1>1, <1>2

\* Two walks of one genesis are the same walk.
LEMMA WalksAgree ==
    ASSUME LedgerOK, SpentOnce, NEW p, NEW q, NEW c \in Walks(p, N), NEW d \in Walks(q, N),
           c[0] = d[0]
    PROVE  c[N - 1] = d[N - 1]
<1> DEFINE T == {j \in 0..N - 1 : c[j] # d[j]}
<1>0. N \in Nat /\ N >= 3 /\ N \in 1..N
  BY ChunksAssumption
<1>1. SUFFICES ASSUME T # {} PROVE FALSE
  BY <1>0
<1>2. PICK j \in T : \A k \in T : ~(k < j)
  <2>1. T \in SUBSET Nat
    BY <1>0
  <2>2. PICK j \in T : \A k \in T : ~(<<k, j>> \in OpToRel(<, Nat))
    BY <1>1, <2>1, NatLessThanWellFounded, WFMin
  <2> QED
    BY <2>1, <2>2 DEF OpToRel
<1>3. j \in 1..N - 1 /\ c[j] # d[j]
  BY <1>0, <1>2
<1>4. c[j - 1] = d[j - 1]
  <2>1. j - 1 \in 0..N - 1 /\ j - 1 < j
    BY <1>0, <1>3
  <2> QED
    BY <1>2, <2>1
<1>5. txs[c[j]].ins[1] = txs[d[j]].ins[1]
  <2>1. txs[c[j]].ins[1] = <<c[j - 1], 1>>
    BY <1>0, <1>3, WalkSeam
  <2>2. txs[d[j]].ins[1] = <<d[j - 1], 1>>
    BY <1>0, <1>3, WalkSeam
  <2> QED
    BY <1>4, <2>1, <2>2
<1>6. j \in 0..N - 1
  BY <1>0, <1>3
<1>7. /\ c[j] \in DOMAIN txs /\ 1 \in DOMAIN txs[c[j]].ins
      /\ d[j] \in DOMAIN txs /\ 1 \in DOMAIN txs[d[j]].ins
  <2>1. /\ c[j] \in DOMAIN txs /\ txs[c[j]].ins # <<>>
        /\ d[j] \in DOMAIN txs /\ txs[d[j]].ins # <<>>
    BY <1>6 DEF Walks, Walk
  <2>2. txs[c[j]] \in Tx /\ txs[d[j]] \in Tx
    BY <2>1 DEF LedgerOK, TypeOK
  <2>3. txs[c[j]].ins \in Seq(Nat \X Nat) /\ txs[d[j]].ins \in Seq(Nat \X Nat)
    BY <2>2 DEF Tx
  <2> QED
    BY <2>1, <2>3
<1> QED
  BY <1>3, <1>5, <1>7 DEF SpentOnce

\* A genesis leads to at most one verdict, also without P1: a thread never forks.
THEOREM OneVerdictEach == Spec => []OneVerdictPerGenesis
<1>1. Init => SpentOnce
  <2> SUFFICES ASSUME Init PROVE SpentOnce
    OBVIOUS
  <2>1. LedgerOK /\ Len(txs) = 1
    BY LedgerInit DEF Init
  <2>2. \A t \in DOMAIN txs : txs[t].ins = <<>>
    BY <2>1 DEF LedgerOK, TypeOK
  <2> QED
    BY <2>2 DEF SpentOnce
<1>2. LedgerOK /\ SpentOnce => OneVerdictPerGenesis
  <2> SUFFICES ASSUME LedgerOK, SpentOnce, NEW p \in Verdicts, NEW q \in Verdicts,
                      NEW c \in Walks(p, N), NEW d \in Walks(q, N), c[0] = d[0]
               PROVE  p = q
    BY DEF OneVerdictPerGenesis
  <2>1. c[N - 1] = d[N - 1]
    BY WalksAgree
  <2>2. ASSUME NEW v \in Verdicts, NEW e \in Walks(v, N)
        PROVE  v = <<e[N - 1], 1>>
    <3>1. N \in 1..N /\ N - 1 \in 0..N - 1 /\ N - 1 # Genesis
      BY ChunksAssumption DEF Genesis
    <3>2. Leaves(N - 1, txs[e[N - 1]].arg[1], txs[e[N - 1]].outs) /\ e[N - 1] = v[1]
      BY <2>2, <3>1, WalkStep DEF Walks, Walk
    <3>3. Len(txs[v[1]].outs) = 1
      BY <3>1, <3>2 DEF Leaves, OutputCount
    <3>4. v = <<v[1], v[2]>> /\ v[1] \in DOMAIN txs /\ v[2] \in DOMAIN txs[v[1]].outs
      BY MadeIs DEF LedgerOK, Verdicts
    <3>5. txs[v[1]] \in Tx
      BY <3>4 DEF LedgerOK, TypeOK
    <3>6. txs[v[1]].outs \in Seq(Output)
      BY <3>5 DEF Tx
    <3>7. v[2] = 1
      BY <3>3, <3>4, <3>6
    <3> QED
      BY <3>2, <3>4, <3>7
  <2> QED
    BY <2>1, <2>2
<1> QED
  BY <1>1, <1>2, SpentOnceNext, LedgerCorrect, PTL DEF Spec

JudgedOK == Judged \subseteq {s \in Statement : Verified(s)}

\* The chain implements the abstract verifier: consumers come to accept
\* only statements that were verified, and accept them for good.
THEOREM ChainImplementsVerifier == Spec => ImplementsVerifier
<1>1. LedgerOK => JudgedOK
  BY WalkVerifies DEF Judged, JudgedOK
<1>2. Init => V!Init
  <2> SUFFICES ASSUME Init, NEW p \in Verdicts, NEW c \in Walks(p, N)
               PROVE  FALSE
    BY DEF V!Init, Judged
  <2>1. LedgerOK /\ Len(txs) = 1 /\ N \in 1..N
    <3>1. Len(txs) = 1
      BY DEF Init
    <3> QED
      BY <3>1, LedgerInit, ChunksAssumption
  <2>2. c[0] \in DOMAIN txs /\ txs[c[0]].ins # <<>>
    <3>1. 0 \in 0..N - 1
      BY <2>1
    <3> QED
      BY <3>1 DEF Walks, Walk
  <2> QED
    BY <2>1, <2>2 DEF LedgerOK, TypeOK
<1>3. LedgerOK /\ JudgedOK' /\ [Next]_vars => [V!Next]_Judged
  <2> SUFFICES ASSUME LedgerOK, JudgedOK', [Next]_vars PROVE [V!Next]_Judged
    OBVIOUS
  <2>1. CASE UNCHANGED vars
    BY <2>1 DEF vars, Judged, Verdicts, Made, Out, Walks, Walk, StatementOf
  <2>2. CASE Next
    <3>1. PICK ins, arg, outs : Published(ins, arg, outs)
      BY <2>2, NextPublishes DEF LedgerOK
    <3>2. Judged \subseteq Judged'
      <4> SUFFICES ASSUME NEW p \in Verdicts, NEW c \in Walks(p, N)
                   PROVE  StatementOf(c) \in Judged'
        BY DEF Judged
      <4>1. p \in Verdicts'
        BY <3>1, LogGrows DEF Verdicts, LedgerOK, IsVerdict
      <4>2. c \in Walks(p, N)' /\ StatementOf(c)' = StatementOf(c)
        BY <3>1, WalksStay, ChunksAssumption
      <4> QED
        BY <4>1, <4>2 DEF Judged
    <3>3. Judged' \subseteq {s \in Statement : V!Verified(s)}
      <4>1. \A st : V!Verified(st) <=> Verified(st)
        BY DEF Verified, Computes, V!Verified, V!Computes, Genesis, V!Genesis
      <4> QED
        BY <4>1 DEF JudgedOK
    <3>4. V!Judge(Judged')
      BY <3>2, <3>3 DEF V!Judge
    <3> QED
      BY <3>3, <3>4 DEF V!Next
  <2> QED
    BY <2>1, <2>2
<1> QED
  BY <1>1, <1>2, <1>3, LedgerCorrect, PTL DEF Spec, ImplementsVerifier, V!Spec

------------------------------------------------------------------------------
(***************************************************************************)
(* The one-transaction verifier (Coordinator).  First, byte strings: what  *)
(* joining and cutting them gives.                                         *)
(***************************************************************************)
\* Any sequence is a byte string.
LEMMA SequencesAre ==
    ASSUME NEW S, NEW x \in Seq(S)
    PROVE  Bytestring(x)
<1>1. \A i \in 1..Len(x) : x[i] \in ToSet(x)
  BY DEF ToSet
<1> QED
  BY <1>1 DEF Bytestring

LEMMA BytesHave ==
    ASSUME NEW x, Bytestring(x)
    PROVE  Len(x) \in Nat /\ DOMAIN x = 1..Len(x)
BY DEF Bytestring

LEMMA OneByte ==
    ASSUME NEW t
    PROVE  Bytestring(<<t>>) /\ Len(<<t>>) = 1 /\ <<t>>[1] = t
<1>1. <<t>> \in Seq({t})
  OBVIOUS
<1> QED
  BY <1>1, SequencesAre

LEMMA NoBytes == Bytestring(<<>>) /\ Len(<<>>) = 0
<1>1. <<>> \in Seq({})
  OBVIOUS
<1> QED
  BY <1>1, SequencesAre

LEMMA SameBytes ==
    ASSUME NEW x, NEW y, Bytestring(x), Bytestring(y), Len(x) = Len(y),
           \A i \in 1..Len(x) : x[i] = y[i]
    PROVE  x = y
<1>1. x = [i \in 1..Len(x) |-> x[i]] /\ y = [i \in 1..Len(y) |-> y[i]]
  BY DEF Bytestring
<1> QED
  BY <1>1

\* One byte string after another.
LEMMA Both ==
    ASSUME NEW x, NEW y, Bytestring(x), Bytestring(y)
    PROVE  /\ Bytestring(x \o y) /\ Len(x \o y) = Len(x) + Len(y)
           /\ \A i \in 1..Len(x) : (x \o y)[i] = x[i]
           /\ \A i \in 1..Len(y) : (x \o y)[Len(x) + i] = y[i]
<1> DEFINE S == ToSet(x) \cup ToSet(y)
<1>1. x \in Seq(S) /\ y \in Seq(S)
  <2>1. x \in Seq(ToSet(x)) /\ y \in Seq(ToSet(y))
    BY DEF Bytestring
  <2>2. (\A i \in 1..Len(x) : x[i] \in S) /\ (\A i \in 1..Len(y) : y[i] \in S)
    BY <2>1
  <2> QED
    BY <2>1, <2>2
<1> HIDE DEF S
<1>2. x \o y \in Seq(S)
  BY <1>1
<1>3. Len(x \o y) = Len(x) + Len(y)
  BY <1>1
<1>4. \A i \in 1..Len(x) : (x \o y)[i] = x[i]
  BY <1>1
<1>5. \A i \in 1..Len(y) : (x \o y)[Len(x) + i] = y[i]
  BY <1>1
<1> QED
  BY <1>2, <1>3, <1>4, <1>5, SequencesAre

\* A part of one.
LEMMA Part ==
    ASSUME NEW x, Bytestring(x), NEW m \in Nat \ {0}, NEW n \in Nat, m <= n + 1, n <= Len(x)
    PROVE  /\ Bytestring(SubSeq(x, m, n)) /\ Len(SubSeq(x, m, n)) = n - m + 1
           /\ \A i \in 1..n - m + 1 : SubSeq(x, m, n)[i] = x[m + i - 1]
<1> DEFINE S == ToSet(x)
<1>1. x \in Seq(S)
  BY DEF Bytestring
<1> HIDE DEF S
<1>2. SubSeq(x, m, n) \in Seq(S)
  BY <1>1, SubSeqProperties
<1>3. Len(SubSeq(x, m, n)) = n - m + 1
  BY <1>1, SubSeqProperties
<1>4. \A i \in 1..n - m + 1 : SubSeq(x, m, n)[i] = x[m + i - 1]
  BY <1>1, SubSeqProperties
<1> QED
  BY <1>2, <1>3, <1>4, SequencesAre

LEMMA FirstPart ==
    ASSUME NEW x, NEW y, Bytestring(x), Bytestring(y)
    PROVE  SubSeq(x \o y, 1, Len(x)) = x
<1>1. PICK xy : xy = x \o y
  OBVIOUS
<1>2. /\ Bytestring(xy) /\ Len(xy) = Len(x) + Len(y) /\ Len(x) \in Nat /\ Len(y) \in Nat
      /\ \A i \in 1..Len(x) : xy[i] = x[i]
  BY <1>1, Both, BytesHave
<1>3. PICK p : p = SubSeq(xy, 1, Len(x))
  OBVIOUS
<1>4. /\ Bytestring(p) /\ Len(p) = Len(x) - 1 + 1
      /\ \A i \in 1..Len(x) - 1 + 1 : p[i] = xy[1 + i - 1]
  BY <1>2, <1>3, Part
<1>5. Len(p) = Len(x) /\ \A i \in 1..Len(p) : p[i] = x[i]
  BY <1>2, <1>4
<1> QED
  BY <1>1, <1>3, <1>4, <1>5, SameBytes

LEMMA RestOf ==
    ASSUME NEW x, NEW y, Bytestring(x), Bytestring(y)
    PROVE  Drops(x \o y, Len(x)) = y
<1>1. PICK xy : xy = x \o y
  OBVIOUS
<1>2. /\ Bytestring(xy) /\ Len(xy) = Len(x) + Len(y) /\ Len(x) \in Nat /\ Len(y) \in Nat
      /\ \A i \in 1..Len(y) : xy[Len(x) + i] = y[i]
  BY <1>1, Both, BytesHave
<1>3. PICK p : p = SubSeq(xy, Len(x) + 1, Len(xy))
  OBVIOUS
<1>4. /\ Bytestring(p) /\ Len(p) = Len(xy) - (Len(x) + 1) + 1
      /\ \A i \in 1..Len(xy) - (Len(x) + 1) + 1 : p[i] = xy[(Len(x) + 1) + i - 1]
  BY <1>2, <1>3, Part
<1>5. /\ Len(p) = Len(y)
      /\ \A i \in 1..Len(p) : (Len(x) + 1) + i - 1 = Len(x) + i /\ i \in 1..Len(y)
  BY <1>2, <1>4
<1>6. \A i \in 1..Len(p) : p[i] = y[i]
  BY <1>2, <1>4, <1>5
<1> QED
  BY <1>1, <1>3, <1>4, <1>5, <1>6, SameBytes DEF Drops

LEMMA Regrouped ==
    ASSUME NEW x, NEW y, NEW z, Bytestring(x), Bytestring(y), Bytestring(z)
    PROVE  (x \o y) \o z = x \o (y \o z)
<1> DEFINE S == (ToSet(x) \cup ToSet(y)) \cup ToSet(z)
<1>1. x \in Seq(S) /\ y \in Seq(S) /\ z \in Seq(S)
  <2>1. x \in Seq(ToSet(x)) /\ y \in Seq(ToSet(y)) /\ z \in Seq(ToSet(z))
    BY DEF Bytestring
  <2>2. /\ \A i \in 1..Len(x) : x[i] \in S
        /\ \A i \in 1..Len(y) : y[i] \in S
        /\ \A i \in 1..Len(z) : z[i] \in S
    BY <2>1
  <2> QED
    BY <2>1, <2>2
<1> HIDE DEF S
<1> QED
  BY <1>1, ConcatAssociative

LEMMA Cancelled ==
    ASSUME NEW a, NEW b, NEW c, NEW d, Bytestring(a), Bytestring(b), Bytestring(c),
           Bytestring(d),            a \o b = c \o d, Len(a) = Len(c)
    PROVE  a = c /\ b = d
<1>1. a = c
  BY FirstPart
<1>2. b = d
  BY RestOf
<1> QED
  BY <1>1, <1>2

\* What stands between two others.
LEMMA Between ==
    ASSUME NEW x, NEW y, NEW z, Bytestring(x), Bytestring(y), Bytestring(z)
    PROVE  SubSeq((x \o y) \o z, Len(x) + 1, Len(x) + Len(y)) = y
<1>1. PICK xy : xy = x \o y
  OBVIOUS
<1>2. /\ Bytestring(xy) /\ Len(xy) = Len(x) + Len(y) /\ Len(x) \in Nat /\ Len(y) \in Nat
      /\ \A i \in 1..Len(y) : xy[Len(x) + i] = y[i]
  BY <1>1, Both, BytesHave
<1>3. PICK xyz : xyz = xy \o z
  OBVIOUS
<1>4. /\ Bytestring(xyz) /\ Len(xyz) = Len(xy) + Len(z) /\ Len(z) \in Nat
      /\ \A i \in 1..Len(xy) : xyz[i] = xy[i]
  BY <1>2, <1>3, Both, BytesHave
<1>5. PICK p : p = SubSeq(xyz, Len(x) + 1, Len(x) + Len(y))
  OBVIOUS
<1>6. /\ Bytestring(p) /\ Len(p) = (Len(x) + Len(y)) - (Len(x) + 1) + 1
      /\ \A i \in 1..(Len(x) + Len(y)) - (Len(x) + 1) + 1 : p[i] = xyz[(Len(x) + 1) + i - 1]
  BY <1>2, <1>4, <1>5, Part
<1>7. /\ Len(p) = Len(y)
      /\ \A i \in 1..Len(p) : /\ (Len(x) + 1) + i - 1 = Len(x) + i
                              /\ i \in 1..Len(y) /\ Len(x) + i \in 1..Len(xy)
  BY <1>2, <1>6
<1>8. \A i \in 1..Len(p) : p[i] = y[i]
  BY <1>2, <1>4, <1>6, <1>7
<1> QED
  BY <1>1, <1>3, <1>5, <1>6, <1>7, <1>8, SameBytes

(***************************************************************************)
(* The recursive functions of the model, by their steps.                   *)
(***************************************************************************)
Joins(h, xs, m) == h[0] = <<>> /\ \A l \in 1..m : h[l] = xs[Len(xs) - l + 1] \o h[l - 1]

LEMMA LastJoinedIs ==
    ASSUME NEW xs, Len(xs) \in Nat
    PROVE  Joins(LastJoined(xs), xs, Len(xs))
<1> DEFINE T == {m \in 0..Len(xs) : \E h : Joins(h, xs, m)}
           Eqn(f) == f = [l \in 0..Len(xs) |->
               IF l = 0 THEN <<>>
               ELSE xs[Len(xs) - l + 1] \o f[l - 1]]
<1>1. Len(xs) \in Nat
  OBVIOUS
<1>2. 0 \in T
  <2>1. Joins([l \in 0..0 |-> <<>>], xs, 0)
    BY <1>1 DEF Joins
  <2> QED
    BY <1>1, <2>1
<1>3. \A k \in 0..Len(xs) : k \in T /\ k < Len(xs) => k + 1 \in T
  <2> SUFFICES ASSUME NEW k \in 0..Len(xs), k \in T, k < Len(xs) PROVE k + 1 \in T
    OBVIOUS
  <2>1. PICK h : Joins(h, xs, k)
    OBVIOUS
  <2>0. PICK y : y = xs[Len(xs) - (k + 1) + 1] \o h[k]
    OBVIOUS
  <2>2. PICK g : g = Extend(h, 0, k, y)
    OBVIOUS
  <2>3. /\ k \in 0..k /\ 0 \in 0..k /\ k + 1 \in 0..Len(xs) /\ (k + 1) - 1 = k
        /\ \A l \in 1..k + 1 : l - 1 \in 0..k /\ (l = k + 1 \/ (l \in 1..k /\ l \in 0..k))
    BY <1>1
  <2>4. (\A l \in 0..k : g[l] = h[l]) /\ g[k + 1] = y
    BY <1>1, <2>2, Extended
  <2>5. Joins(g, xs, k + 1)
    BY <2>0, <2>1, <2>3, <2>4 DEF Joins
  <2> QED
    BY <2>3, <2>5
<1> HIDE DEF T
<1>4. PICK h : Joins(h, xs, Len(xs))
  <2>1. Len(xs) \in 0..Len(xs)
    BY <1>1
  <2>2. Len(xs) \in T
    BY <1>1, <1>2, <1>3, <2>1, FromTo
  <2> QED
    BY <2>2 DEF T
<1>5. Eqn([l \in 0..Len(xs) |-> h[l]])
  <2>1. PICK f : f = [l \in 0..Len(xs) |-> h[l]]
    OBVIOUS
  <2>2. \A l \in 0..Len(xs) :
          f[l] = h[l] /\ (l # 0 => l - 1 \in 0..Len(xs) /\ l \in 1..Len(xs))
    BY <1>1, <2>1
  <2>3. f = [l \in 0..Len(xs) |-> IF l = 0 THEN <<>> ELSE xs[Len(xs) - l + 1] \o f[l - 1]]
    BY <1>4, <2>1, <2>2 DEF Joins
  <2>4. Eqn(f)
    BY <2>3
  <2> HIDE DEF Eqn
  <2> QED
    BY <2>1, <2>4
<1>6. Eqn(LastJoined(xs))
  <2>1. LastJoined(xs) = CHOOSE f : Eqn(f)
    BY DEF LastJoined
  <2> HIDE DEF Eqn
  <2> QED
    BY <1>5, <2>1
<1>7. \A l \in 0..Len(xs) :
         LastJoined(xs)[l] =
           IF l = 0 THEN <<>> ELSE xs[Len(xs) - l + 1] \o LastJoined(xs)[l - 1]
  BY <1>6
<1>8. 0 \in 0..Len(xs) /\ \A l \in 1..Len(xs) : l \in 0..Len(xs) /\ l # 0
  BY <1>1
<1> QED
  BY <1>7, <1>8 DEF Joins

Fills(h, m) == h[0] = 0 /\ \A l \in 1..m : h[l] = h[l - 1] + Room[Carrier[l]]

LEMMA FilledIs ==
    Fills(Filled, Len(Carrier))
<1> DEFINE T == {m \in 0..Len(Carrier) : \E h : Fills(h, m)}
           Eqn(f) == f = [l \in 0..Len(Carrier) |->
               IF l = 0 THEN 0
               ELSE f[l - 1] + Room[Carrier[l]]]
<1>1. Len(Carrier) \in Nat
  BY CoordinatorAssumption
<1>2. 0 \in T
  <2>1. Fills([l \in 0..0 |-> 0], 0)
    BY <1>1 DEF Fills
  <2> QED
    BY <1>1, <2>1
<1>3. \A k \in 0..Len(Carrier) : k \in T /\ k < Len(Carrier) => k + 1 \in T
  <2> SUFFICES ASSUME NEW k \in 0..Len(Carrier), k \in T, k < Len(Carrier) PROVE k + 1 \in T
    OBVIOUS
  <2>1. PICK h : Fills(h, k)
    OBVIOUS
  <2>2. PICK g : g = Extend(h, 0, k, h[k] + Room[Carrier[k + 1]])
    OBVIOUS
  <2>3. /\ k \in 0..k /\ 0 \in 0..k /\ k + 1 \in 0..Len(Carrier) /\ (k + 1) - 1 = k
        /\ \A l \in 1..k + 1 : l - 1 \in 0..k /\ (l = k + 1 \/ (l \in 1..k /\ l \in 0..k))
    BY <1>1
  <2>4. (\A l \in 0..k : g[l] = h[l]) /\ g[k + 1] = h[k] + Room[Carrier[k + 1]]
    BY <1>1, <2>2, Extended
  <2>5. Fills(g, k + 1)
    BY <2>1, <2>3, <2>4 DEF Fills
  <2> QED
    BY <2>3, <2>5
<1> HIDE DEF T
<1>4. PICK h : Fills(h, Len(Carrier))
  <2>1. Len(Carrier) \in 0..Len(Carrier)
    BY <1>1
  <2>2. Len(Carrier) \in T
    BY <1>1, <1>2, <1>3, <2>1, FromTo
  <2> QED
    BY <2>2 DEF T
<1>5. Eqn([l \in 0..Len(Carrier) |-> h[l]])
  <2>1. PICK f : f = [l \in 0..Len(Carrier) |-> h[l]]
    OBVIOUS
  <2>2. \A l \in 0..Len(Carrier) :
          f[l] = h[l] /\ (l # 0 => l - 1 \in 0..Len(Carrier) /\ l \in 1..Len(Carrier))
    BY <1>1, <2>1
  <2>3. f = [l \in 0..Len(Carrier) |-> IF l = 0 THEN 0 ELSE f[l - 1] + Room[Carrier[l]]]
    BY <1>4, <2>1, <2>2 DEF Fills
  <2>4. Eqn(f)
    BY <2>3
  <2> HIDE DEF Eqn
  <2> QED
    BY <2>1, <2>4
<1>6. Eqn(Filled)
  <2>1. Filled = CHOOSE f : Eqn(f)
    BY DEF Filled
  <2> HIDE DEF Eqn
  <2> QED
    BY <1>5, <2>1
<1>7. \A l \in 0..Len(Carrier) :
         Filled[l] =
           IF l = 0 THEN 0 ELSE Filled[l - 1] + Room[Carrier[l]]
  BY <1>6
<1>8. 0 \in 0..Len(Carrier) /\ \A l \in 1..Len(Carrier) : l \in 0..Len(Carrier) /\ l # 0
  BY <1>1
<1> QED
  BY <1>7, <1>8 DEF Fills

Skips(h, frame1, m) == h[0] = frame1 /\ \A l \in 1..m : h[l] = SkipFrame(h[l - 1])

Measures(h, s, blocks, frame1, m) ==
    h[0] = frame1 /\ \A l \in 1..m : h[l] = After(h[l - 1], BlockLength(s, blocks[l]))

LEMMA SkippedIs ==
    ASSUME NEW frame1, NEW n \in Nat
    PROVE  \E h : Skips(h, frame1, n) /\ Skipped(frame1, n) = h[n]
<1> DEFINE T == {m \in 0..n : \E h : Skips(h, frame1, m)}
           Eqn(f) == f = [l \in 0..n |-> IF l = 0 THEN frame1 ELSE SkipFrame(f[l - 1])]
<1>1. n \in Nat
  OBVIOUS
<1>2. 0 \in T
  <2>1. Skips([l \in 0..0 |-> frame1], frame1, 0)
    BY <1>1 DEF Skips
  <2> QED
    BY <1>1, <2>1
<1>3. \A k \in 0..n : k \in T /\ k < n => k + 1 \in T
  <2> SUFFICES ASSUME NEW k \in 0..n, k \in T, k < n PROVE k + 1 \in T
    OBVIOUS
  <2>1. PICK h : Skips(h, frame1, k)
    OBVIOUS
  <2>2. PICK g : g = Extend(h, 0, k, SkipFrame(h[k]))
    OBVIOUS
  <2>3. /\ k \in 0..k /\ 0 \in 0..k /\ k + 1 \in 0..n /\ (k + 1) - 1 = k
        /\ \A l \in 1..k + 1 : l - 1 \in 0..k /\ (l = k + 1 \/ (l \in 1..k /\ l \in 0..k))
    BY <1>1
  <2>4. (\A l \in 0..k : g[l] = h[l]) /\ g[k + 1] = SkipFrame(h[k])
    BY <1>1, <2>2, Extended
  <2>5. Skips(g, frame1, k + 1)
    BY <2>1, <2>3, <2>4 DEF Skips
  <2> QED
    BY <2>3, <2>5
<1> HIDE DEF T
<1>4. PICK h : Skips(h, frame1, n)
  <2>1. n \in 0..n
    BY <1>1
  <2>2. n \in T
    BY <1>1, <1>2, <1>3, <2>1, FromTo
  <2> QED
    BY <2>2 DEF T
<1>5. Eqn([l \in 0..n |-> h[l]])
  <2>1. PICK f : f = [l \in 0..n |-> h[l]]
    OBVIOUS
  <2>2. \A l \in 0..n : f[l] = h[l] /\ (l # 0 => l - 1 \in 0..n /\ l \in 1..n)
    BY <1>1, <2>1
  <2>3. f = [l \in 0..n |-> IF l = 0 THEN frame1 ELSE SkipFrame(f[l - 1])]
    BY <1>4, <2>1, <2>2 DEF Skips
  <2>4. Eqn(f)
    BY <2>3
  <2> HIDE DEF Eqn
  <2> QED
    BY <2>1, <2>4
<1> DEFINE raw == CHOOSE f : Eqn(f)
<1>6. Skipped(frame1, n) = raw[n]
  BY DEF Skipped
<1>7. Eqn(raw)
  <2> HIDE DEF Eqn
  <2> QED
    BY <1>5
<1> HIDE DEF raw
<1>8. \A l \in 0..n :
         raw[l] =
           IF l = 0 THEN frame1 ELSE SkipFrame(raw[l - 1])
  BY <1>7
<1>9. 0 \in 0..n /\ \A l \in 1..n : l \in 0..n /\ l # 0
  BY <1>1
<1> QED
  BY <1>8, <1>9, <1>6 DEF Skips

LEMMA MeasuredIs ==
    ASSUME NEW s, NEW blocks, NEW frame1, NEW n \in Nat
    PROVE  \E h : Measures(h, s, blocks, frame1, n) /\ Measured(s, blocks, frame1, n) = h[n]
<1> DEFINE T == {m \in 0..n : \E h : Measures(h, s, blocks, frame1, m)}
           Eqn(f) == f = [l \in 0..n |->
               IF l = 0 THEN frame1
               ELSE After(f[l - 1], BlockLength(s, blocks[l]))]
<1>1. n \in Nat
  OBVIOUS
<1>2. 0 \in T
  <2>1. Measures([l \in 0..0 |-> frame1], s, blocks, frame1, 0)
    BY <1>1 DEF Measures
  <2> QED
    BY <1>1, <2>1
<1>3. \A k \in 0..n : k \in T /\ k < n => k + 1 \in T
  <2> SUFFICES ASSUME NEW k \in 0..n, k \in T, k < n PROVE k + 1 \in T
    OBVIOUS
  <2>1. PICK h : Measures(h, s, blocks, frame1, k)
    OBVIOUS
  <2>2. PICK g : g = Extend(h, 0, k, After(h[k], BlockLength(s, blocks[k + 1])))
    OBVIOUS
  <2>3. /\ k \in 0..k /\ 0 \in 0..k /\ k + 1 \in 0..n /\ (k + 1) - 1 = k
        /\ \A l \in 1..k + 1 : l - 1 \in 0..k /\ (l = k + 1 \/ (l \in 1..k /\ l \in 0..k))
    BY <1>1
  <2>4. (\A l \in 0..k : g[l] = h[l]) /\ g[k + 1] = After(h[k], BlockLength(s, blocks[k + 1]))
    BY <1>1, <2>2, Extended
  <2>5. Measures(g, s, blocks, frame1, k + 1)
    BY <2>1, <2>3, <2>4 DEF Measures
  <2> QED
    BY <2>3, <2>5
<1> HIDE DEF T
<1>4. PICK h : Measures(h, s, blocks, frame1, n)
  <2>1. n \in 0..n
    BY <1>1
  <2>2. n \in T
    BY <1>1, <1>2, <1>3, <2>1, FromTo
  <2> QED
    BY <2>2 DEF T
<1>5. Eqn([l \in 0..n |-> h[l]])
  <2>1. PICK f : f = [l \in 0..n |-> h[l]]
    OBVIOUS
  <2>2. \A l \in 0..n : f[l] = h[l] /\ (l # 0 => l - 1 \in 0..n /\ l \in 1..n)
    BY <1>1, <2>1
  <2>3. f = [l \in 0..n |-> IF l = 0 THEN frame1
                             ELSE After(f[l - 1], BlockLength(s, blocks[l]))]
    BY <1>4, <2>1, <2>2 DEF Measures
  <2>4. Eqn(f)
    BY <2>3
  <2> HIDE DEF Eqn
  <2> QED
    BY <2>1, <2>4
<1> DEFINE raw == CHOOSE f : Eqn(f)
<1>6. Measured(s, blocks, frame1, n) = raw[n]
  BY DEF Measured
<1>7. Eqn(raw)
  <2> HIDE DEF Eqn
  <2> QED
    BY <1>5
<1> HIDE DEF raw
<1>8. \A l \in 0..n :
         raw[l] =
           IF l = 0 THEN frame1 ELSE After(raw[l - 1], BlockLength(s, blocks[l]))
  BY <1>7
<1>9. 0 \in 0..n /\ \A l \in 1..n : l \in 0..n /\ l # 0
  BY <1>1
<1> QED
  BY <1>8, <1>9, <1>6 DEF Measures

Strings(xs) == Len(xs) \in Nat /\ \A i \in 1..Len(xs) : Bytestring(xs[i])

LEMMA JoinedStep ==
    ASSUME NEW xs, Strings(xs)
    PROVE  /\ Joined(xs) = LastJoined(xs)[Len(xs)] /\ LastJoined(xs)[0] = <<>>
           /\ \A k \in 0..Len(xs) : k < Len(xs) =>
                  /\ LastJoined(xs)[k + 1] = xs[Len(xs) - k] \o LastJoined(xs)[k]
                  /\ Bytestring(xs[Len(xs) - k])
<1>1. Joins(LastJoined(xs), xs, Len(xs))
  BY LastJoinedIs DEF Strings
<1>2. ASSUME NEW k \in 0..Len(xs), k < Len(xs)
      PROVE  /\ LastJoined(xs)[k + 1] = xs[Len(xs) - k] \o LastJoined(xs)[k]
             /\ Bytestring(xs[Len(xs) - k])
  <2>1. k + 1 \in 1..Len(xs) /\ (k + 1) - 1 = k /\ Len(xs) - (k + 1) + 1 = Len(xs) - k
    BY <1>2 DEF Strings
  <2>2. LastJoined(xs)[k + 1] = xs[Len(xs) - (k + 1) + 1] \o LastJoined(xs)[(k + 1) - 1]
    BY <1>1, <2>1 DEF Joins
  <2>3. Len(xs) - k \in 1..Len(xs)
    BY <1>2 DEF Strings
  <2> QED
    BY <2>1, <2>2, <2>3 DEF Strings
<1> QED
  BY <1>1, <1>2 DEF Joins, Joined

LEMMA JoinedBytes ==
    ASSUME NEW xs, Strings(xs)
    PROVE  \A k \in 0..Len(xs) : Bytestring(LastJoined(xs)[k])
<1> DEFINE T == {k \in 0..Len(xs) : Bytestring(LastJoined(xs)[k])}
<1>1. Len(xs) \in Nat
  BY DEF Strings
<1>2. 0 \in T
  <2>1. LastJoined(xs)[0] = <<>>
    BY JoinedStep
  <2>2. Bytestring(LastJoined(xs)[0])
    BY <2>1, NoBytes
  <2> QED
    BY <1>1, <2>2
<1>3. \A k \in 0..Len(xs) : k \in T /\ k < Len(xs) => k + 1 \in T
  <2> SUFFICES ASSUME NEW k \in 0..Len(xs), k \in T, k < Len(xs) PROVE k + 1 \in T
    OBVIOUS
  <2>1. PICK y : y = LastJoined(xs)[k]
    OBVIOUS
  <2>2. PICK x : x = xs[Len(xs) - k]
    OBVIOUS
  <2>3. LastJoined(xs)[k + 1] = x \o y /\ Bytestring(x)
    BY <2>1, <2>2, JoinedStep
  <2>4. Bytestring(x \o y)
    BY <2>1, <2>3, Both
  <2>5. Bytestring(LastJoined(xs)[k + 1]) /\ k + 1 \in 0..Len(xs)
    BY <1>1, <2>3, <2>4
  <2> QED
    BY <2>5
<1> HIDE DEF T
<1>4. \A k \in 0..Len(xs) : k \in T
  BY <1>1, <1>2, <1>3, UpTo
<1> QED
  BY <1>4 DEF T

\* Byte strings of the same lengths that are joined to the same are the same.
LEMMA JoinedSame ==
    ASSUME NEW xs, NEW ys, Strings(xs), Strings(ys), Len(xs) = Len(ys),
           \A i \in 1..Len(xs) : Len(xs[i]) = Len(ys[i]), Joined(xs) = Joined(ys)
    PROVE  \A i \in 1..Len(xs) : xs[i] = ys[i]
<1> DEFINE a(k) == LastJoined(xs)[k]
           b(k) == LastJoined(ys)[k]
           T == {k \in 0..Len(xs) : Len(a(k)) = Len(b(k))}
           R == {k \in 0..Len(xs) : a(k) = b(k)}
<1>1. Len(xs) \in Nat
  BY DEF Strings
<1>2. \A k \in 0..Len(xs) : Bytestring(a(k)) /\ Bytestring(b(k))
  BY JoinedBytes
<1>3. ASSUME NEW k \in 0..Len(xs), k < Len(xs)
      PROVE  \E x, y : /\ x = xs[Len(xs) - k] /\ y = ys[Len(xs) - k]
                       /\ Bytestring(x) /\ Bytestring(y) /\ Len(x) = Len(y)
                       /\ a(k + 1) = x \o a(k) /\ b(k + 1) = y \o b(k)
  <2>1. Len(xs) - k \in 1..Len(xs)
    BY <1>1, <1>3
  <2>2. a(k + 1) = xs[Len(xs) - k] \o a(k) /\ Bytestring(xs[Len(xs) - k])
    BY <1>3, JoinedStep
  <2>3. b(k + 1) = ys[Len(ys) - k] \o b(k) /\ Bytestring(ys[Len(ys) - k])
    BY <1>3, JoinedStep
  <2> QED
    BY <2>1, <2>2, <2>3
<1>4. a(0) = <<>> /\ b(0) = <<>>
  BY JoinedStep
<1>5. a(Len(xs)) = b(Len(xs))
  BY JoinedStep
<1> HIDE DEF a, b
<1>6. \A k \in 0..Len(xs) : k \in T
  <2>1. 0 \in T
    BY <1>1, <1>4
  <2>2. \A k \in 0..Len(xs) : k \in T /\ k < Len(xs) => k + 1 \in T
    <3> SUFFICES ASSUME NEW k \in 0..Len(xs), k \in T, k < Len(xs) PROVE k + 1 \in T
      OBVIOUS
    <3>1. PICK x, y : /\ Bytestring(x) /\ Bytestring(y) /\ Len(x) = Len(y)
                      /\ a(k + 1) = x \o a(k) /\ b(k + 1) = y \o b(k)
      BY <1>3
    <3>2. PICK v : v = a(k)
      OBVIOUS
    <3>3. PICK w : w = b(k)
      OBVIOUS
    <3>4. Bytestring(v) /\ Bytestring(w) /\ Len(v) = Len(w)
      BY <1>2, <3>2, <3>3
    <3>5. Len(x \o v) = Len(x) + Len(v) /\ Len(y \o w) = Len(y) + Len(w)
      BY <3>1, <3>4, Both
    <3> QED
      BY <1>1, <3>1, <3>2, <3>3, <3>4, <3>5
  <2> HIDE DEF T
  <2> QED
    BY <1>1, <2>1, <2>2, UpTo
<1>7. ASSUME NEW k \in 0..Len(xs), k < Len(xs), a(k + 1) = b(k + 1)
      PROVE  a(k) = b(k) /\ xs[Len(xs) - k] = ys[Len(xs) - k]
  <2>1. PICK x, y : /\ x = xs[Len(xs) - k] /\ y = ys[Len(xs) - k]
                    /\ Bytestring(x) /\ Bytestring(y) /\ Len(x) = Len(y)
                    /\ a(k + 1) = x \o a(k) /\ b(k + 1) = y \o b(k)
    BY <1>3, <1>7
  <2>2. PICK v : v = a(k)
    OBVIOUS
  <2>3. PICK w : w = b(k)
    OBVIOUS
  <2>4. Bytestring(v) /\ Bytestring(w)
    BY <1>2, <2>2, <2>3
  <2>5. x \o v = y \o w
    BY <1>7, <2>1, <2>2, <2>3
  <2>7. Bytestring(x) /\ Bytestring(y) /\ Len(x) = Len(y)
    BY <2>1
  <2>6. x = y /\ v = w
    BY ONLY <2>4, <2>5, <2>7, Cancelled
  <2> QED
    BY <2>1, <2>2, <2>3, <2>6
<1>8. \A k \in 0..Len(xs) : k \in R
  <2>1. Len(xs) \in R
    BY <1>1, <1>5
  <2>2. \A k \in 0..Len(xs) : k + 1 \in R /\ k < Len(xs) => k \in R
    BY <1>7
  <2> HIDE DEF R
  <2> QED
    BY <1>1, <2>1, <2>2, DownTo
<1>9. ASSUME NEW i \in 1..Len(xs) PROVE xs[i] = ys[i]
  <2>1. PICK k \in 0..Len(xs) : k < Len(xs) /\ Len(xs) - k = i
    <3>1. Len(xs) - i \in 0..Len(xs) /\ Len(xs) - i < Len(xs) /\ Len(xs) - (Len(xs) - i) = i
      BY <1>1
    <3> QED
      BY <3>1
  <2>2. k + 1 \in 0..Len(xs)
    BY <1>1, <2>1
  <2>3. a(k + 1) = b(k + 1)
    BY <1>8, <2>2
  <2> QED
    BY <1>7, <2>1, <2>3
<1> QED
  BY <1>9

(***************************************************************************)
(* The pages, in the order of the carriers, and the overflow are the       *)
(* program.                                                                *)
(***************************************************************************)
LEMMA Adjacent ==
    ASSUME NEW x, Bytestring(x), NEW a \in Nat, NEW b \in Nat, NEW c \in Nat,
           a <= b, b <= c, c <= Len(x)
    PROVE  SubSeq(x, a + 1, b) \o SubSeq(x, b + 1, c) = SubSeq(x, a + 1, c)
<1>0. PICK p : p = SubSeq(x, a + 1, b)
  OBVIOUS
<1>1. PICK q : q = SubSeq(x, b + 1, c)
  OBVIOUS
<1>2. PICK r : r = SubSeq(x, a + 1, c)
  OBVIOUS
<1>3. Len(x) \in Nat
  BY BytesHave
<1>4. /\ Bytestring(p) /\ Len(p) = b - (a + 1) + 1
      /\ \A i \in 1..b - (a + 1) + 1 : p[i] = x[(a + 1) + i - 1]
  BY <1>3, <1>0, Part
<1>5. /\ Bytestring(q) /\ Len(q) = c - (b + 1) + 1
      /\ \A i \in 1..c - (b + 1) + 1 : q[i] = x[(b + 1) + i - 1]
  BY <1>3, <1>1, Part
<1>6. /\ Bytestring(r) /\ Len(r) = c - (a + 1) + 1
      /\ \A i \in 1..c - (a + 1) + 1 : r[i] = x[(a + 1) + i - 1]
  BY <1>3, <1>2, Part
<1>7. PICK pq : pq = p \o q
  OBVIOUS
<1>8. /\ Bytestring(pq) /\ Len(pq) = Len(p) + Len(q)
      /\ \A i \in 1..Len(p) : pq[i] = p[i]
      /\ \A i \in 1..Len(q) : pq[Len(p) + i] = q[i]
  <2>1. Bytestring(p) /\ Bytestring(q)
    BY <1>4, <1>5
  <2> QED
    BY <1>7, <2>1, Both
<1>9. Len(p) = b - a /\ Len(q) = c - b /\ Len(r) = c - a /\ Len(pq) = c - a
  BY <1>4, <1>5, <1>6, <1>8
<1>10. ASSUME NEW i \in 1..Len(pq) PROVE pq[i] = r[i]
  <2>1. r[i] = x[a + i]
    BY <1>6, <1>9
  <2>2. CASE i <= b - a
    <3>1. i \in 1..Len(p) /\ i \in 1..b - (a + 1) + 1 /\ (a + 1) + i - 1 = a + i
      BY <1>9, <2>2
    <3> QED
      BY <1>4, <1>8, <2>1, <3>1
  <2>3. CASE i > b - a
    <3>1. PICK j \in 1..Len(q) : i = Len(p) + j
      <4>1. i - (b - a) \in 1..Len(q) /\ i = Len(p) + (i - (b - a))
        BY <1>9, <2>3
      <4> QED
        BY <4>1
    <3>2. pq[i] = q[j]
      BY <1>8, <3>1
    <3>3. j \in 1..c - (b + 1) + 1 /\ (b + 1) + j - 1 = a + i
      BY <1>9, <3>1
    <3> QED
      BY <1>5, <2>1, <3>2, <3>3
  <2> QED
    BY <1>9, <2>2, <2>3
<1> QED
  BY <1>0, <1>1, <1>2, <1>6, <1>7, <1>8, <1>9, <1>10, SameBytes

LEMMA FilledRises ==
    /\ Len(Carrier) \in Nat /\ Bytestring(Program) /\ Len(Program) \in Nat
    /\ Filled[0] = 0 /\ Filled[Len(Carrier)] <= Len(Program)
    /\ \A j \in 0..Len(Carrier) : Filled[j] \in Nat /\ Filled[j] <= Filled[Len(Carrier)]
    /\ \A j \in 0..Len(Carrier) : j < Len(Carrier) => Filled[j] <= Filled[j + 1]
<1>1. Len(Carrier) \in Nat /\ \A j \in 1..Len(Carrier) : Carrier[j] \in ToSet(Carrier)
  BY CoordinatorAssumption DEF ToSet
<1>2. Bytestring(Program) /\ Len(Program) \in Nat /\ Filled[Len(Carrier)] < Len(Program)
  BY CoordinatorAssumption, BytesHave
<1>3. Filled[0] = 0 /\ \A j \in 1..Len(Carrier) : Filled[j] = Filled[j - 1] + Room[Carrier[j]]
  BY FilledIs DEF Fills
<1>4. \A j \in 1..Len(Carrier) : Room[Carrier[j]] \in Nat
  BY <1>1, CoordinatorAssumption
<1>5. ASSUME NEW j \in 0..Len(Carrier), j < Len(Carrier), Filled[j] \in Nat
      PROVE  Filled[j + 1] \in Nat /\ Filled[j] <= Filled[j + 1]
  <2>1. j + 1 \in 1..Len(Carrier) /\ (j + 1) - 1 = j
    BY <1>1, <1>5
  <2>2. PICK m \in Nat : m = Room[Carrier[j + 1]]
    BY <1>4, <2>1
  <2>3. Filled[j + 1] = Filled[j] + m
    BY <1>3, <2>1, <2>2
  <2> QED
    BY <1>5, <2>3
<1> DEFINE T == {j \in 0..Len(Carrier) : Filled[j] \in Nat}
           R == {j \in 0..Len(Carrier) : Filled[j] <= Filled[Len(Carrier)]}
<1>6. \A j \in 0..Len(Carrier) : j \in T
  <2>1. 0 \in T
    BY <1>1, <1>3
  <2>2. \A k \in 0..Len(Carrier) : k \in T /\ k < Len(Carrier) => k + 1 \in T
    BY <1>1, <1>5
  <2> HIDE DEF T
  <2> QED
    BY <1>1, <2>1, <2>2, UpTo
<1>7. \A j \in 0..Len(Carrier) : j \in R
  <2>1. Len(Carrier) \in R
    BY <1>1, <1>6
  <2>2. ASSUME NEW k \in 0..Len(Carrier), k + 1 \in R, k < Len(Carrier) PROVE k \in R
    <3>1. k \in T /\ k + 1 \in T /\ Len(Carrier) \in T
      BY <1>1, <1>6, <2>2
    <3>2. Filled[k] <= Filled[k + 1]
      BY <1>5, <2>2, <3>1
    <3> QED
      BY <2>2, <3>1, <3>2
  <2> HIDE DEF R
  <2> QED
    BY <1>1, <2>1, <2>2, DownTo
<1>8. Filled[Len(Carrier)] \in Nat
  BY <1>1, <1>6
<1> QED
  BY <1>1, <1>2, <1>3, <1>5, <1>6, <1>7, <1>8

Pages == [j \in DOMAIN Carrier |-> Page(j)]

LEMMA PagesAre ==
    /\ Strings(Pages) /\ Len(Pages) = Len(Carrier) /\ Bytestring(Overflow)
    /\ \A j \in DOMAIN Carrier : Pages[j] = Page(j) /\ Bytestring(Page(j))
<1>0. /\ Len(Carrier) \in Nat /\ Bytestring(Program) /\ Len(Program) \in Nat
      /\ Filled[0] = 0 /\ Filled[Len(Carrier)] <= Len(Program)
      /\ \A j \in 0..Len(Carrier) : Filled[j] \in Nat /\ Filled[j] <= Filled[Len(Carrier)]
      /\ \A j \in 0..Len(Carrier) : j < Len(Carrier) => Filled[j] <= Filled[j + 1]
  BY FilledRises
<1>1. DOMAIN Carrier = 1..Len(Carrier)
  BY CoordinatorAssumption
<1>2. Len(Pages) = Len(Carrier) /\ \A j \in DOMAIN Carrier : Pages[j] = Page(j)
  BY <1>0, <1>1 DEF Pages
<1>3. ASSUME NEW j \in DOMAIN Carrier PROVE Bytestring(Page(j))
  <2>1. /\ j - 1 \in 0..Len(Carrier) /\ j \in 0..Len(Carrier) /\ j - 1 < Len(Carrier)
        /\ (j - 1) + 1 = j
    BY <1>0, <1>1
  <2>2. PICK m, n : m = Filled[j - 1] /\ n = Filled[j]
    OBVIOUS
  <2>3. m \in Nat /\ n \in Nat /\ m <= n /\ n <= Len(Program)
    BY <1>0, <2>1, <2>2
  <2>4. Bytestring(SubSeq(Program, m + 1, n))
    BY <1>0, <2>3, Part
  <2> QED
    BY <2>2, <2>4 DEF Page
<1>4. Bytestring(Overflow)
  <2>1. PICK m : m = Filled[Len(Carrier)]
    OBVIOUS
  <2>2. m \in Nat /\ m <= Len(Program)
    BY <1>0, <2>1
  <2>3. Bytestring(SubSeq(Program, m + 1, Len(Program)))
    BY <1>0, <2>2, Part
  <2> QED
    BY <2>1, <2>3 DEF Overflow
<1> QED
  BY <1>0, <1>1, <1>2, <1>3, <1>4 DEF Strings

LEMMA PagesJoin == Joined(Pages) \o Overflow = Program
<1>0. /\ Len(Carrier) \in Nat /\ Bytestring(Program) /\ Len(Program) \in Nat
      /\ Filled[0] = 0 /\ Filled[Len(Carrier)] <= Len(Program)
      /\ \A j \in 0..Len(Carrier) : Filled[j] \in Nat /\ Filled[j] <= Filled[Len(Carrier)]
      /\ \A j \in 0..Len(Carrier) : j < Len(Carrier) => Filled[j] <= Filled[j + 1]
  BY FilledRises
<1>1. PICK n \in Nat : n = Len(Carrier)
  BY <1>0
<1>2. DOMAIN Carrier = 1..n
  BY <1>1, CoordinatorAssumption
<1> DEFINE last(k) == LastJoined(Pages)[k]
           T == {k \in 0..n : last(k) = SubSeq(Program, Filled[n - k] + 1, Filled[n])}
<1>3. 0 \in T
  <2>1. PICK m \in Nat : m = Filled[n] /\ m <= Len(Program)
    BY <1>0, <1>1
  <2>2. /\ Bytestring(SubSeq(Program, m + 1, m))
        /\ Len(SubSeq(Program, m + 1, m)) = m - (m + 1) + 1
    BY <1>0, <2>1, Part
  <2>3. SubSeq(Program, m + 1, m) = <<>>
    BY <2>2, NoBytes, SameBytes
  <2>4. last(0) = <<>>
    BY PagesAre, JoinedStep
  <2>5. last(0) = SubSeq(Program, Filled[n - 0] + 1, Filled[n])
    <3>1. n - 0 = n
      OBVIOUS
    <3> QED
      BY <2>1, <2>3, <2>4, <3>1
  <2> QED
    BY <2>5
<1>4. \A k \in 0..n : k \in T /\ k < n => k + 1 \in T
  <2> SUFFICES ASSUME NEW k \in 0..n, k \in T, k < n PROVE k + 1 \in T
    OBVIOUS
  <2>1. last(k + 1) = Pages[n - k] \o last(k)
    BY <1>1, PagesAre, JoinedStep
  <2>2. /\ n - k \in DOMAIN Carrier /\ (n - k) - 1 = n - (k + 1)
        /\ n - (k + 1) \in 0..n /\ n - (k + 1) < n /\ (n - (k + 1)) + 1 = n - k
        /\ n - k \in 0..n
    BY <1>2
  <2>3. PICK a, b, c : a = Filled[n - (k + 1)] /\ b = Filled[n - k] /\ c = Filled[n]
    OBVIOUS
  <2>4. a \in Nat /\ b \in Nat /\ c \in Nat /\ a <= b /\ b <= c /\ c <= Len(Program)
    BY <1>0, <1>1, <2>2, <2>3
  <2>5. Pages[n - k] = SubSeq(Program, a + 1, b)
    BY <2>2, <2>3, PagesAre DEF Page
  <2>6. SubSeq(Program, a + 1, b) \o SubSeq(Program, b + 1, c) = SubSeq(Program, a + 1, c)
    BY <1>0, <2>4, Adjacent
  <2>7. last(k + 1) = SubSeq(Program, a + 1, c)
    BY <2>1, <2>3, <2>5, <2>6
  <2> QED
    BY <2>2, <2>3, <2>7
<1> HIDE DEF T
<1>5. n \in T
  <2>1. \A k \in 0..n : k \in T
    BY <1>3, <1>4, UpTo
  <2> QED
    BY <2>1
<1>6. PICK m \in Nat : m = Filled[n] /\ m <= Len(Program)
  BY <1>0, <1>1
<1>7. PICK a \in Nat : a = Filled[0] /\ a <= m
  <2>1. Filled[0] \in Nat /\ Filled[0] <= Filled[n] /\ 0 \in 0..n
    BY <1>0, <1>1
  <2> QED
    BY <1>6, <2>1
<1>8. Joined(Pages) = SubSeq(Program, a + 1, m)
  <2>1. Joined(Pages) = last(n)
    BY <1>1, PagesAre, JoinedStep
  <2>2. last(n) = SubSeq(Program, Filled[n - n] + 1, Filled[n]) /\ n - n = 0
    BY <1>5 DEF T
  <2> HIDE DEF last
  <2> QED
    BY <1>6, <1>7, <2>1, <2>2
<1>9. PICK z \in Nat : z = Len(Program)
  BY <1>0
<1>10. SubSeq(Program, a + 1, m) \o SubSeq(Program, m + 1, z) = SubSeq(Program, a + 1, z)
  <2>1. /\ Bytestring(Program) /\ a \in Nat /\ m \in Nat /\ z \in Nat /\ a <= m /\ m <= z
        /\ z <= Len(Program)
    BY <1>0, <1>6, <1>7, <1>9
  <2> QED
    BY ONLY <2>1, Adjacent
<1>11. SubSeq(Program, 1, z) = Program
  <2>1. Program \in Seq(ToSet(Program))
    BY <1>0 DEF Bytestring
  <2> QED
    BY <1>0, <1>9, <2>1
<1>12. Overflow = SubSeq(Program, m + 1, z)
  BY <1>1, <1>6, <1>9 DEF Overflow
<1>13. a + 1 = 1
  BY <1>0, <1>7
<1> QED
  BY <1>8, <1>10, <1>11, <1>12, <1>13, Zenon

(***************************************************************************)
(* Pushes, and the redeem scripts.                                         *)
(***************************************************************************)
LEMMA PushIs ==
    ASSUME NEW x, Bytestring(x)
    PROVE  /\ Bytestring(Push(x)) /\ Len(Push(x)) = Len(x) + 1
           /\ Push(x) = <<Byte(Len(x))>> \o x /\ Push(x)[1] = Byte(Len(x))
<1>1. PICK b : b = <<Byte(Len(x))>>
  OBVIOUS
<1>2. Bytestring(b) /\ Len(b) = 1 /\ b[1] = Byte(Len(x))
  BY <1>1, OneByte
<1>3. Push(x) = b \o x
  BY <1>1 DEF Push
<1>4. /\ Bytestring(b \o x) /\ Len(b \o x) = Len(b) + Len(x)
      /\ \A i \in 1..Len(b) : (b \o x)[i] = b[i]
  BY <1>2, Both
<1>5. Len(x) \in Nat
  BY BytesHave
<1> QED
  BY <1>1, <1>2, <1>3, <1>4, <1>5

\* What is read back: the item pushed first, and what follows it.
LEMMA PushRead ==
    ASSUME NEW x, NEW y, Bytestring(x), Bytestring(y)
    PROVE  /\ SubSeq(Push(x) \o y, 2, Len(x) + 1) = x
           /\ Drops(Push(x) \o y, Len(x) + 1) = y
           /\ Bytestring(Push(x) \o y) /\ Len(Push(x) \o y) = (Len(x) + 1) + Len(y)
           /\ (Push(x) \o y)[1] = Byte(Len(x))
<1>1. PICK b : b = <<Byte(Len(x))>>
  OBVIOUS
<1>2. Bytestring(b) /\ Len(b) = 1 /\ b[1] = Byte(Len(x))
  BY <1>1, OneByte
<1>3. PICK p : p = Push(x)
  OBVIOUS
<1>4. /\ p = b \o x /\ Bytestring(p) /\ Len(p) = Len(x) + 1 /\ p[1] = Byte(Len(x))
      /\ Len(x) \in Nat
  BY <1>1, <1>3, PushIs, BytesHave
<1>5. SubSeq((b \o x) \o y, Len(b) + 1, Len(b) + Len(x)) = x
  BY <1>2, Between
<1>6. SubSeq(p \o y, 2, Len(x) + 1) = x
  <2>1. Len(b) + 1 = 2 /\ Len(b) + Len(x) = Len(x) + 1
    BY <1>2, <1>4
  <2> QED
    BY <1>4, <1>5, <2>1
<1>7. Drops(p \o y, Len(p)) = y
  BY <1>4, RestOf
<1>8. /\ Bytestring(p \o y) /\ Len(p \o y) = Len(p) + Len(y)
      /\ \A i \in 1..Len(p) : (p \o y)[i] = p[i]
  BY <1>4, Both
<1>9. 1 \in 1..Len(p)
  BY <1>4
<1> QED
  BY <1>3, <1>4, <1>6, <1>7, <1>8, <1>9

\* The data a worker's script pushes and drops.
Data(w) == IF w = First THEN Overflow
           ELSE IF w \in ToSet(Carrier)
                THEN Page(CHOOSE j \in DOMAIN Carrier : Carrier[j] = w) ELSE <<>>

LEMMA RedeemIs ==
    ASSUME NEW w
    PROVE  /\ Redeem(w) = Push(Data(w)) \o <<<<"code", w>>>> /\ Bytestring(Data(w))
           /\ Bytestring(Redeem(w)) /\ Len(Redeem(w)) = (Len(Data(w)) + 1) + 1
<1>1. Redeem(w) = Push(Data(w)) \o <<<<"code", w>>>>
  BY DEF Redeem, Data
<1>2. Bytestring(Data(w))
  <2>1. CASE w = First
    BY <2>1, PagesAre DEF Data
  <2>2. CASE w # First /\ w \in ToSet(Carrier)
    <3>1. \E j \in DOMAIN Carrier : Carrier[j] = w
      BY <2>2 DEF ToSet
    <3>2. PICK j \in DOMAIN Carrier : j = CHOOSE i \in DOMAIN Carrier : Carrier[i] = w
      BY <3>1
    <3> QED
      BY <2>2, <3>2, PagesAre DEF Data
  <2>3. CASE w # First /\ w \notin ToSet(Carrier)
    BY <2>3, NoBytes DEF Data
  <2> QED
    BY <2>1, <2>2, <2>3
<1>3. PICK d : d = Data(w)
  OBVIOUS
<1>4. PICK c : c = <<<<"code", w>>>>
  OBVIOUS
<1>5. Bytestring(c) /\ Len(c) = 1
  BY <1>4, OneByte
<1>6. Bytestring(Push(d) \o c) /\ Len(Push(d) \o c) = (Len(d) + 1) + Len(c)
  BY <1>2, <1>3, <1>5, PushRead
<1> QED
  BY <1>1, <1>2, <1>3, <1>4, <1>5, <1>6

LEMMA DataIs ==
    /\ Data(First) = Overflow
    /\ \A j \in DOMAIN Carrier : Carrier[j] \in 1..W /\ Data(Carrier[j]) = Page(j)
<1>1. Data(First) = Overflow
  BY DEF Data
<1>2. ASSUME NEW j \in DOMAIN Carrier PROVE Carrier[j] \in 1..W /\ Data(Carrier[j]) = Page(j)
  <2>1. Carrier[j] \in ToSet(Carrier) /\ Carrier[j] # First /\ Carrier[j] \in 1..W
    BY CoordinatorAssumption DEF ToSet
  <2>2. \A i \in DOMAIN Carrier : Carrier[i] = Carrier[j] => i = j
    BY CoordinatorAssumption
  <2>3. (CHOOSE i \in DOMAIN Carrier : Carrier[i] = Carrier[j]) = j
    BY <2>2
  <2> QED
    BY <2>1, <2>3 DEF Data
<1> QED
  BY <1>1, <1>2

\* Different workers have different scripts.
LEMMA RedeemsDiffer ==
    ASSUME NEW v, NEW w, Redeem(v) = Redeem(w)
    PROVE  v = w
<1>1. PICK p, q : p = Push(Data(v)) /\ q = Push(Data(w))
  OBVIOUS
<1>2. PICK c, d : c = <<<<"code", v>>>> /\ d = <<<<"code", w>>>>
  OBVIOUS
<1>3. Bytestring(c) /\ Bytestring(d) /\ Len(c) = 1 /\ Len(d) = 1
  BY <1>2, OneByte
<1>4. Bytestring(p) /\ Bytestring(q) /\ Len(p) = Len(Data(v)) + 1 /\ Len(q) = Len(Data(w)) + 1
  BY <1>1, PushIs, RedeemIs
<1>5. p \o c = q \o d
  BY <1>1, <1>2, RedeemIs
<1>6. Len(p) = Len(q)
  <2>1. Len(p \o c) = Len(p) + Len(c) /\ Len(q \o d) = Len(q) + Len(d)
    BY ONLY <1>3, <1>4, Both
  <2>2. Len(p) \in Nat /\ Len(q) \in Nat
    BY <1>4, BytesHave
  <2> QED
    BY <1>3, <1>5, <2>1, <2>2
<1>7. c = d
  <2>1. Bytestring(p) /\ Bytestring(c) /\ Bytestring(q) /\ Bytestring(d)
    BY <1>3, <1>4
  <2> QED
    BY ONLY <1>5, <1>6, <2>1, Cancelled
<1> QED
  BY <1>2, <1>7

LEMMA P2shDiffer ==
    ASSUME NEW x, NEW y, P2sh(x) = P2sh(y)
    PROVE  x = y
BY DEF P2sh, HashOf

LEMMA P2shIs ==
    ASSUME NEW x
    PROVE  Bytestring(P2sh(x)) /\ Len(P2sh(x)) = LOCKING /\ P2sh(x)[1] = <<"op_hash256">>
<1>1. P2sh(x) \in Seq({<<"op_hash256">>, HashOf("redeem", x)})
  BY DEF P2sh
<1>2. Len(P2sh(x)) = 2 /\ P2sh(x)[1] = <<"op_hash256">>
  BY DEF P2sh
<1> QED
  BY <1>1, <1>2, SequencesAre DEF LOCKING

(***************************************************************************)
(* The code input 0 cuts out of a worker's unlocking, the script at the    *)
(* end being the worker's, is the data of that script.                     *)
(***************************************************************************)
LEMMA CutOut ==
    ASSUME NEW w, NEW own, Bytestring(own)
    PROVE  LET bytes == own \o Push(Redeem(w))
               cut == Drops(bytes, Len(bytes) - Len(Redeem(w)))
           IN  /\ cut = Redeem(w) /\ Len(bytes) >= Len(Redeem(w))
               /\ SubSeq(cut, 2, Len(Data(w)) + 1) = Data(w)
<1>1. PICK r : r = Redeem(w)
  OBVIOUS
<1>2. PICK b : b = <<Byte(Len(r))>>
  OBVIOUS
<1>3. /\ Bytestring(r) /\ Bytestring(b) /\ Len(b) = 1 /\ Push(r) = b \o r /\ Len(r) \in Nat
      /\ Len(own) \in Nat
  BY <1>1, <1>2, RedeemIs, OneByte, PushIs, BytesHave
<1>4. PICK h : h = own \o b
  OBVIOUS
<1>5. Bytestring(h) /\ Len(h) = Len(own) + 1 /\ own \o Push(r) = h \o r
  <2>1. Bytestring(own \o b) /\ Len(own \o b) = Len(own) + Len(b)
    BY <1>3, Both
  <2>2. (own \o b) \o r = own \o (b \o r)
    BY <1>3, Regrouped
  <2> QED
    BY <1>3, <1>4, <2>1, <2>2
<1>6. Len(h \o r) = Len(h) + Len(r) /\ Drops(h \o r, Len(h)) = r
  BY <1>3, <1>5, Both, RestOf
<1>7. Len(h \o r) - Len(r) = Len(h) /\ Len(h \o r) >= Len(r)
  BY <1>3, <1>5, <1>6
<1>8. SubSeq(r, 2, Len(Data(w)) + 1) = Data(w)
  <2>1. PICK d, c : d = Data(w) /\ c = <<<<"code", w>>>>
    OBVIOUS
  <2>2. Bytestring(c) /\ Bytestring(d) /\ r = Push(d) \o c
    BY <1>1, <2>1, OneByte, RedeemIs
  <2>3. SubSeq(Push(d) \o c, 2, Len(d) + 1) = d
    BY <2>2, PushRead
  <2> QED
    BY <2>1, <2>2, <2>3
<1> QED
  BY <1>1, <1>5, <1>6, <1>7, <1>8

(***************************************************************************)
(* The invariant, and the bytes of an unlocking.                           *)
(***************************************************************************)
\* What is pushed: of which form the arguments of input 0 are, the scripts
\* the spent coins take, a frame per block.
IsOpened ==
    /\ \E r, q, b, a : opening.header = <<r, q, b, a>>
    /\ \E s \in Statements : opening.statement = <<<<"statement", s>>>>
    /\ opening.quotient \in Quotient
    /\ \A w \in 1..W : /\ opening.redeem[w] \in {Redeem(v) : v \in 1..W} \cup Foreign
                       /\ Spendable(w, opening.redeem[w])
IsFrame(b) ==
    /\ frames[b].payload \in Payload[b]
    /\ \E links : frames[b].eval = <<Evaluation(links)>>
FramesAre ==
    /\ Bytestring(frames) /\ Len(frames) <= LAST
    /\ \A b \in DOMAIN frames : IsFrame(b)
Built ==
    /\ coins \in Coins
    /\ opening # NONE => IsOpened
    /\ opening = NONE => frames = <<>>
    /\ FramesAre

\* The verdict is what the scripts say of what was pushed.
VerdictGiven ==
    verdict # "none" =>
        /\ Len(frames) = LAST
        /\ verdict = IF RootPasses /\ \A w \in 1..W : WorkerPasses(w)
                     THEN "accepted" ELSE "rejected"
CoordinatorInv == Built /\ VerdictGiven

LEMMA SizesAre ==
    /\ W \in Nat \ {0} /\ LAST \in Nat \ {0} /\ Frames \in [0..W -> Seq(Block)]
    /\ \A i \in 0..W : DOMAIN Frames[i] = 1..Len(Frames[i]) /\ Len(Frames[i]) \in Nat
    /\ \A i \in 0..W : \A o \in DOMAIN Frames[i] : Frames[i][o] \in Block
BY CoordinatorAssumption

LEMMA FrameIs ==
    ASSUME FramesAre, NEW b, b \in DOMAIN frames
    PROVE  /\ b \in Block /\ Bytestring(frames[b].payload)
           /\ Bytestring(frames[b].eval) /\ Len(frames[b].eval) = EVAL
           /\ frames[b].eval # <<>> /\ frames[b].eval[1][1] = "eval"
<1>1. b \in 1..LAST
  BY BytesHave, SizesAre DEF FramesAre
<1>2. IsFrame(b)
  BY DEF FramesAre
<1>3. Bytestring(frames[b].payload)
  BY <1>1, <1>2, CoordinatorAssumption DEF IsFrame, Block
<1>4. PICK links : frames[b].eval = <<Evaluation(links)>>
  BY <1>2 DEF IsFrame
<1>5. PICK e : e = Evaluation(links)
  OBVIOUS
<1>6. e[1] = "eval"
  BY <1>5 DEF Evaluation
<1>7. Bytestring(<<e>>) /\ Len(<<e>>) = 1 /\ <<e>>[1] = e /\ <<e>> # <<>>
  BY OneByte
<1> QED
  BY <1>1, <1>3, <1>4, <1>5, <1>6, <1>7 DEF EVAL, Block

LEMMA FrameBytes ==
    ASSUME FramesAre, NEW b
    PROVE  /\ Bytestring(Frame(b))
           /\ b \in DOMAIN frames =>
                Len(Frame(b)) = (Len(frames[b].payload) + 1) + (EVAL + 1)
<1>1. CASE b \in DOMAIN frames
  <2>1. PICK p, e : p = frames[b].payload /\ e = frames[b].eval
    OBVIOUS
  <2>2. Bytestring(p) /\ Bytestring(e) /\ Len(e) = EVAL
    BY <1>1, <2>1, FrameIs
  <2>3. /\ Bytestring(Push(p)) /\ Len(Push(p)) = Len(p) + 1 /\ Bytestring(Push(e))
        /\ Len(Push(e)) = EVAL + 1
    BY <2>2, PushIs
  <2>4. Bytestring(Push(p) \o Push(e)) /\ Len(Push(p) \o Push(e)) = (Len(p) + 1) + (EVAL + 1)
    BY <2>3, Both
  <2> QED
    BY <1>1, <2>1, <2>4 DEF Frame
<1>2. CASE b \notin DOMAIN frames
  BY <1>2, NoBytes DEF Frame
<1> QED
  BY <1>1, <1>2

OwnFrames(i) == [o \in DOMAIN Frames[i] |-> Frame(Frames[i][o])]

LEMMA OwnIs ==
    ASSUME FramesAre, NEW i \in 0..W
    PROVE  /\ Strings(OwnFrames(i)) /\ Len(OwnFrames(i)) = Len(Frames[i])
           /\ \A o \in DOMAIN Frames[i] : OwnFrames(i)[o] = Frame(Frames[i][o])
           /\ Own(i) = Joined(OwnFrames(i)) /\ Bytestring(Own(i))
<1>1. DOMAIN Frames[i] = 1..Len(Frames[i]) /\ Len(Frames[i]) \in Nat
  BY SizesAre
<1>2. /\ Len(OwnFrames(i)) = Len(Frames[i])
      /\ \A o \in DOMAIN Frames[i] : OwnFrames(i)[o] = Frame(Frames[i][o])
  BY <1>1 DEF OwnFrames
<1>3. Strings(OwnFrames(i))
  BY <1>1, <1>2, FrameBytes DEF Strings
<1>4. Own(i) = Joined(OwnFrames(i))
  BY DEF Own, OwnFrames
<1>5. Len(OwnFrames(i)) \in 0..Len(OwnFrames(i))
  BY <1>1, <1>2
<1>6. Bytestring(Joined(OwnFrames(i)))
  <2>1. PICK x : x = OwnFrames(i)
    OBVIOUS
  <2>2. Strings(x) /\ Len(x) \in 0..Len(x)
    BY <1>3, <1>5, <2>1
  <2>3. Joined(x) = LastJoined(x)[Len(x)] /\ Bytestring(LastJoined(x)[Len(x)])
    BY <2>2, JoinedStep, JoinedBytes
  <2> QED
    BY <2>1, <2>3
<1> QED
  BY <1>2, <1>3, <1>4, <1>6

(***************************************************************************)
(* The binder: with the sizes given, one digest stands for one locking     *)
(* each.  The coins then take nothing but the workers' own scripts.        *)
(***************************************************************************)
LEMMA CoinsAre ==
    ASSUME Built
    PROVE  Bytestring(coins) /\ Len(coins) = W /\ \A w \in 1..W : Bytestring(coins[w])
BY CoordinatorAssumption DEF Built

Genuines == [w \in 1..W |-> P2sh(Redeem(w))]

LEMMA GenuinesAre ==
    /\ Strings(Genuines) /\ Bytestring(Genuines) /\ Len(Genuines) = W
    /\ \A w \in 1..W : Genuines[w] = P2sh(Redeem(w)) /\ Len(Genuines[w]) = LOCKING
    /\ Digest = Joined(Genuines)
<1>1. W \in Nat
  BY SizesAre
<1>2. Genuines \in Seq({P2sh(Redeem(w)) : w \in 1..W})
  BY <1>1 DEF Genuines
<1>3. Len(Genuines) = W /\ \A w \in 1..W : Genuines[w] = P2sh(Redeem(w))
  BY <1>1 DEF Genuines
<1>4. \A w \in 1..W : Bytestring(Genuines[w]) /\ Len(Genuines[w]) = LOCKING
  BY <1>3, P2shIs
<1>5. Digest = Joined(Genuines)
  BY DEF Digest, Genuines
<1> QED
  BY <1>1, <1>2, <1>3, <1>4, <1>5, SequencesAre DEF Strings

LEMMA BinderBinds ==
    ASSUME Built
    PROVE  Binder <=> \A w \in 1..W : coins[w] = P2sh(Redeem(w))
<1>1. Strings(coins) /\ Len(coins) = W
  BY CoinsAre, SizesAre DEF Strings
<1>2. ASSUME Binder PROVE \A w \in 1..W : coins[w] = P2sh(Redeem(w))
  <2>1. PICK c : c = coins
    OBVIOUS
  <2>2. PICK g : g = Genuines
    OBVIOUS
  <2>3. Strings(c) /\ Strings(g) /\ Len(c) = W /\ Len(g) = W /\ Joined(c) = Joined(g)
    BY <1>1, <1>2, <2>1, <2>2, GenuinesAre DEF Binder
  <2>4. \A w \in 1..W : Len(c[w]) = Len(g[w])
    BY <1>2, <2>1, <2>2, GenuinesAre DEF Binder
  <2>5. \A w \in 1..Len(c) : c[w] = g[w]
    BY <2>3, <2>4, JoinedSame
  <2> QED
    BY <1>1, <2>1, <2>2, <2>5, GenuinesAre
<1>3. ASSUME \A w \in 1..W : coins[w] = P2sh(Redeem(w)) PROVE Binder
  <2>1. coins = Genuines
    <3>1. \A w \in 1..Len(coins) : coins[w] = Genuines[w]
      BY <1>1, <1>3, GenuinesAre
    <3> QED
      BY <1>1, <3>1, CoinsAre, GenuinesAre, SameBytes
  <2>2. \A w \in 1..W : Len(coins[w]) = LOCKING
    BY <1>3, P2shIs
  <2> QED
    BY <2>1, <2>2, GenuinesAre DEF Binder
<1> QED
  BY <1>2, <1>3

LEMMA ScriptsAre ==
    ASSUME Built, opening # NONE, NEW w \in 1..W, coins[w] = P2sh(Redeem(w))
    PROVE  opening.redeem[w] = Redeem(w)
<1>1. Spendable(w, opening.redeem[w])
  BY DEF Built, IsOpened
<1>2. coins[w] = P2sh(opening.redeem[w])
  BY <1>1, P2shIs DEF Spendable
<1> QED
  BY <1>2, P2shDiffer

\* What input 0 imports is the program.
LEMMA ImportedIs ==
    ASSUME Built, opening # NONE, \A w \in 1..W : coins[w] = P2sh(Redeem(w))
    PROVE  /\ Imported = Program
           /\ \A w \in 1..W : Len(Bytes(w)) >= Len(Redeem(w))
<1>1. ASSUME NEW w \in 1..W
      PROVE  /\ Load(w, Len(Data(w))) = Data(w)
             /\ Len(Bytes(w)) >= Len(Redeem(w))
  <2>1. w # 0 /\ w \in 0..W
    BY SizesAre
  <2>2. Bytes(w) = Own(w) \o Push(Redeem(w))
    BY <2>1, ScriptsAre DEF Bytes
  <2>3. PICK own : own = Own(w)
    OBVIOUS
  <2>4. Bytestring(own)
    BY <2>1, <2>3, OwnIs DEF Built
  <2>5. LET bytes == own \o Push(Redeem(w))
            cut == Drops(bytes, Len(bytes) - Len(Redeem(w)))
        IN  /\ cut = Redeem(w) /\ Len(bytes) >= Len(Redeem(w))
            /\ SubSeq(cut, 2, Len(Data(w)) + 1) = Data(w)
    BY <2>4, CutOut
  <2> QED
    BY <2>2, <2>3, <2>5 DEF Load, RedeemOf
<1>2. Load(First, Len(Overflow)) = Overflow
  BY <1>1, DataIs, CoordinatorAssumption
<1>3. \A j \in DOMAIN Carrier : Load(Carrier[j], Len(Page(j))) = Page(j)
  BY <1>1, DataIs
<1>4. [j \in DOMAIN Carrier |-> Load(Carrier[j], Len(Page(j)))] = Pages
  BY <1>3 DEF Pages
<1>5. Imported = Joined(Pages) \o Overflow
  BY <1>2, <1>4 DEF Imported
<1> QED
  BY <1>1, <1>5, PagesJoin

LEMMA OpenWhenFull ==
    ASSUME Built, Len(frames) = LAST
    PROVE  opening # NONE
BY NoBytes, SizesAre DEF Built

LEMMA CodeFromInv == CoordinatorInv => CodeIsTheProgram
<1> SUFFICES ASSUME CoordinatorInv, verdict = "accepted"
             PROVE  Imported = Program /\ \A w \in 1..W : opening.redeem[w] = Redeem(w)
  BY DEF CodeIsTheProgram
<1>1. Built /\ opening # NONE
  BY OpenWhenFull DEF CoordinatorInv, VerdictGiven
<1>2. RootPasses
  BY DEF CoordinatorInv, VerdictGiven
<1>3. \A w \in 1..W : coins[w] = P2sh(Redeem(w))
  BY <1>1, <1>2, BinderBinds DEF RootPasses
<1> QED
  BY <1>1, <1>3, ScriptsAre, ImportedIs

(***************************************************************************)
(* Reading.  Whatever follows a frame, it is found again by its length.    *)
(***************************************************************************)
LEMMA FrameRead ==
    ASSUME FramesAre, NEW b, b \in DOMAIN frames, NEW y, Bytestring(y)
    PROVE  /\ After(Frame(b) \o y, Len(frames[b].payload)) = y
           /\ ReadAt(Frame(b) \o y, Len(frames[b].payload)).payload = frames[b].payload
           /\ ReadAt(Frame(b) \o y, Len(frames[b].payload)).eval = frames[b].eval
           /\ Width(Frame(b) \o y) = Len(frames[b].payload)
           /\ Len(Frame(b) \o y) >= Len(frames[b].payload) + 2
           /\ (Frame(b) \o y)[1] = Byte(Len(frames[b].payload))
           /\ (Frame(b) \o y)[Len(frames[b].payload) + 2] = Byte(EVAL)
<1>1. PICK x : x = Frame(b) \o y
  OBVIOUS
<1>2. PICK n : n = Len(frames[b].payload)
  OBVIOUS
<1>3. PICK p, e : p = frames[b].payload /\ e = frames[b].eval
  OBVIOUS
<1>4. Bytestring(p) /\ Bytestring(e) /\ Len(e) = EVAL /\ n = Len(p) /\ n \in Nat
  BY <1>3, <1>2, FrameIs, BytesHave
<1>5. PICK pp, pe : pp = Push(p) /\ pe = Push(e)
  OBVIOUS
<1>6. Bytestring(pp) /\ Bytestring(pe) /\ Len(pp) = n + 1 /\ Len(pe) = EVAL + 1
  BY <1>4, <1>5, PushIs
<1>7. x = (pp \o pe) \o y
  BY <1>3, <1>5, <1>1 DEF Frame
<1>8. (pp \o pe) \o y = pp \o (pe \o y)
  BY <1>6, Regrouped
<1>9. Bytestring(pe \o y) /\ Len(pe \o y) = (EVAL + 1) + Len(y) /\ (pe \o y)[1] = Byte(EVAL)
  BY <1>4, <1>5, PushRead
<1>10. PICK z : z = pe \o y
  OBVIOUS
<1>11. /\ x = pp \o z /\ Bytestring(z) /\ z[1] = Byte(EVAL) /\ Len(z) = (EVAL + 1) + Len(y)
      /\ Len(y) \in Nat
  BY <1>7, <1>8, <1>9, <1>10, BytesHave
<1>12. SubSeq(x, 2, n + 1) = p /\ x[1] = Byte(n) /\ Len(x) = (n + 1) + Len(z) /\ Bytestring(x)
  <2>1. /\ SubSeq(Push(p) \o z, 2, Len(p) + 1) = p /\ (Push(p) \o z)[1] = Byte(Len(p))
        /\ Bytestring(Push(p) \o z) /\ Len(Push(p) \o z) = (Len(p) + 1) + Len(z)
    BY ONLY <1>4, <1>11, PushRead
  <2> QED
    BY <1>4, <1>5, <1>11, <2>1
<1>13. x[n + 2] = Byte(EVAL)
  <2>1. \A i \in 1..Len(z) : (pp \o z)[Len(pp) + i] = z[i]
    BY ONLY <1>6, <1>11, Both
  <2>2. 1 \in 1..Len(z) /\ Len(pp) + 1 = n + 2
    BY <1>4, <1>6, <1>11 DEF EVAL
  <2>3. (pp \o z)[Len(pp) + 1] = z[1]
    BY <2>1, <2>2
  <2> QED
    BY <1>11, <2>2, <2>3
<1>14. After(x, n) = y
  <2>1. Bytestring(pp \o pe) /\ Len(pp \o pe) = (n + 1) + (EVAL + 1)
    BY <1>6, Both
  <2>2. Drops((pp \o pe) \o y, Len(pp \o pe)) = y
    BY <2>1, RestOf
  <2>3. n + 1 + EVAL + 1 = (n + 1) + (EVAL + 1)
    BY <1>4 DEF EVAL
  <2> QED
    BY <1>7, <2>1, <2>2, <2>3 DEF After
<1>15. SubSeq(x, n + 3, n + 2 + EVAL) = e
  <2>1. PICK c : c = <<Byte(EVAL)>>
    OBVIOUS
  <2>2. Bytestring(c) /\ Len(c) = 1 /\ pe = c \o e
    BY <1>4, <1>5, <2>1, OneByte, PushIs
  <2>3. PICK h : h = pp \o c
    OBVIOUS
  <2>4. Bytestring(h) /\ Len(h) = n + 2
    BY <1>4, <1>6, <2>2, <2>3, Both
  <2>5. pp \o pe = h \o e
    <3>0. Bytestring(pp) /\ Bytestring(c) /\ Bytestring(e)
      BY <1>4, <1>6, <2>2
    <3>1. (pp \o c) \o e = pp \o (c \o e)
      BY ONLY <3>0, Regrouped
    <3> QED
      BY <2>2, <2>3, <3>1
  <2>6. SubSeq((h \o e) \o y, Len(h) + 1, Len(h) + Len(e)) = e
    BY <1>4, <2>4, Between
  <2>7. Len(h) + 1 = n + 3 /\ Len(h) + Len(e) = n + 2 + EVAL
    BY <1>4, <2>4
  <2> QED
    BY <1>7, <2>5, <2>6, <2>7
<1>16. Len(x) >= n + 2
  BY <1>4, <1>11, <1>12 DEF EVAL
<1>17. Width(x) = n
  <2>1. x # <<>>
    BY <1>4, <1>16, NoBytes
  <2>2. x[1][1] = "byte" /\ x[1][2] = n
    BY <1>12 DEF Byte
  <2> QED
    BY <2>1, <2>2 DEF Width
<1> QED
  BY <1>3, <1>1, <1>2, <1>12, <1>13, <1>14, <1>15, <1>16, <1>17 DEF ReadAt

\* Where a block is.
LEMMA PlaceIs ==
    ASSUME NEW b \in Block
    PROVE  /\ InputOf(b) \in 0..W /\ Ordinal(b) \in DOMAIN Frames[InputOf(b)]
           /\ Frames[InputOf(b)][Ordinal(b)] = b
<1>1. PICK i \in 0..W : b \in ToSet(Frames[i])
  BY CoordinatorAssumption
<1>2. InputOf(b) \in 0..W /\ b \in ToSet(Frames[InputOf(b)])
  BY <1>1 DEF InputOf
<1>3. PICK o \in DOMAIN Frames[InputOf(b)] : Frames[InputOf(b)][o] = b
  BY <1>2 DEF ToSet
<1> QED
  BY <1>2, <1>3 DEF Ordinal

LEMMA OnlyPlace ==
    ASSUME NEW b \in Block, NEW i \in 0..W, b \in ToSet(Frames[i])
    PROVE  InputOf(b) = i
<1>1. PICK o \in DOMAIN Frames[i] : Frames[i][o] = b
  BY DEF ToSet
<1>2. PICK j, p : j = InputOf(b) /\ p = Ordinal(b)
  OBVIOUS
<1>3. j \in 0..W /\ p \in DOMAIN Frames[j] /\ Frames[j][p] = b
  BY <1>2, PlaceIs
<1>4. j = i
  BY <1>1, <1>3, CoordinatorAssumption
<1> QED
  BY <1>2, <1>4

(***************************************************************************)
(* The arguments of input 0, and what comes after the frames of an input.  *)
(***************************************************************************)
LEMMA FiveParts ==
    ASSUME NEW a, NEW b, NEW c, NEW d, NEW e, Bytestring(a), Bytestring(b), Bytestring(c),
           Bytestring(d), Bytestring(e)
    PROVE  /\ (((a \o b) \o c) \o d) \o e = (a \o b) \o (c \o (d \o e))
           /\ (((a \o b) \o c) \o d) \o e = a \o (b \o (c \o (d \o e)))
           /\ Bytestring(c \o (d \o e)) /\ Bytestring(b \o (c \o (d \o e)))
           /\ Bytestring(d \o e)
           /\ Bytestring(a \o b)
<1>1. PICK f : f = a \o b
  OBVIOUS
<1>2. Bytestring(f)
  BY <1>1, Both
<1>3. ((f \o c) \o d) \o e = (f \o c) \o (d \o e)
  <2>1. Bytestring(f \o c)
    BY <1>2, Both
  <2> QED
    BY <2>1, Regrouped
<1>4. PICK g : g = d \o e
  OBVIOUS
<1>5. Bytestring(g)
  BY <1>4, Both
<1>6. (f \o c) \o g = f \o (c \o g)
  BY ONLY <1>2, <1>5, Bytestring(c), Regrouped
<1>7. PICK k : k = c \o g
  OBVIOUS
<1>8. Bytestring(k)
  BY <1>5, <1>7, Both
<1>9. (a \o b) \o k = a \o (b \o k) /\ Bytestring(b \o k)
  BY ONLY <1>8, Bytestring(a), Bytestring(b), Regrouped, Both
<1> QED
  BY <1>1, <1>2, <1>3, <1>4, <1>5, <1>6, <1>7, <1>8, <1>9

Rear(i) ==
    IF i = 0 THEN Push(opening.quotient) \o Push(RootRedeem)
    ELSE Push(opening.redeem[i])

LEMMA OpenedIs ==
    ASSUME Built, opening # NONE
    PROVE  /\ Bytestring(opening.header) /\ Len(opening.header) = HEADER
           /\ Bytestring(opening.statement) /\ Len(opening.statement) = STATEMENT
           /\ opening.statement[1] = <<"statement", Stated>> /\ Stated \in Statements
           /\ Bytestring(opening.quotient)
           /\ \A w \in 1..W : Bytestring(opening.redeem[w])
<1>0. IsOpened
  BY DEF Built
<1>1. Bytestring(opening.header) /\ Len(opening.header) = HEADER
  <2>1. PICK r, q, b, a : opening.header = <<r, q, b, a>>
    BY <1>0 DEF IsOpened
  <2>2. opening.header \in Seq({r, q, b, a}) /\ Len(opening.header) = 4
    BY <2>1
  <2> QED
    BY <2>2, SequencesAre DEF HEADER
<1>2. /\ Bytestring(opening.statement) /\ Len(opening.statement) = STATEMENT
      /\ opening.statement[1] = <<"statement", Stated>> /\ Stated \in Statements
  <2>1. PICK s \in Statements : opening.statement = <<<<"statement", s>>>>
    BY <1>0 DEF IsOpened
  <2>2. PICK t : t = <<"statement", s>>
    OBVIOUS
  <2>3. opening.statement = <<t>> /\ t[2] = s
    BY <2>1, <2>2
  <2>4. Bytestring(opening.statement) /\ Len(opening.statement) = 1 /\ opening.statement[1] = t
    BY <2>3, OneByte
  <2>5. Stated = s
    BY <2>3, <2>4 DEF Stated
  <2> QED
    BY <2>2, <2>4, <2>5 DEF STATEMENT
<1>3. Bytestring(opening.quotient)
  BY <1>0, CoordinatorAssumption DEF IsOpened
<1>4. ASSUME NEW w \in 1..W PROVE Bytestring(opening.redeem[w])
  <2>1. opening.redeem[w] \in {Redeem(v) : v \in 1..W} \cup Foreign
    BY <1>0 DEF IsOpened
  <2> QED
    <3>1. CASE opening.redeem[w] \in Foreign
      BY <3>1, CoordinatorAssumption
    <3>2. CASE opening.redeem[w] \in {Redeem(v) : v \in 1..W}
      <4>1. PICK v \in 1..W : opening.redeem[w] = Redeem(v)
        BY <3>2
      <4> QED
        BY <4>1, RedeemIs
    <3> QED
      BY <2>1, <3>1, <3>2
<1> QED
  BY <1>1, <1>2, <1>3, <1>4

LEMMA RootRedeemIs == Bytestring(RootRedeem) /\ Len(RootRedeem) = 1
BY OneByte DEF RootRedeem

LEMMA ArgumentsAre ==
    ASSUME Built, opening # NONE
    PROVE  /\ Header = opening.header /\ StatementRead = Stated
           /\ FramesOf(0) = Own(0) \o Rear(0)
           /\ Len(Bytes(0)) = ARGUMENTS + Len(Own(0) \o Rear(0))
<1>1. PICK h, s, q, o, r : /\ h = opening.header /\ s = opening.statement
                           /\ q = opening.quotient /\ o = Own(0) /\ r = RootRedeem
  OBVIOUS
<1>2. /\ Bytestring(h) /\ Len(h) = 4 /\ Bytestring(s) /\ Len(s) = 1
      /\ s[1] = <<"statement", Stated>> /\ Bytestring(q)
  BY <1>1, OpenedIs DEF HEADER, STATEMENT
<1>3. Bytestring(o) /\ Bytestring(r)
  BY <1>1, OwnIs, SizesAre, RootRedeemIs DEF Built
<1>4. PICK ph, ps, pq, pr : ph = Push(h) /\ ps = Push(s) /\ pq = Push(q) /\ pr = Push(r)
  OBVIOUS
<1>5. /\ Bytestring(ph) /\ Bytestring(ps) /\ Bytestring(pq) /\ Bytestring(pr)
      /\ Len(ph) = 5 /\ Len(ps) = 2
  <2>1. /\ Bytestring(Push(h)) /\ Len(Push(h)) = Len(h) + 1
        /\ Bytestring(Push(s)) /\ Len(Push(s)) = Len(s) + 1
        /\ Bytestring(Push(q)) /\ Bytestring(Push(r))
    BY ONLY <1>2, <1>3, PushIs
  <2> QED
    BY <1>2, <1>4, <2>1
<1>6. PICK all : all = Bytes(0)
  OBVIOUS
<1>7. all = (((ph \o ps) \o o) \o pq) \o pr
  BY <1>1, <1>4, <1>6 DEF Bytes
<1>8. PICK rest : rest = o \o (pq \o pr)
  OBVIOUS
<1>9. PICK phs : phs = ph \o ps
  OBVIOUS
<1>10. /\ all = phs \o rest /\ all = ph \o (ps \o rest) /\ Bytestring(rest)
       /\ Bytestring(ps \o rest) /\ Bytestring(phs)
  <2>1. /\ (((ph \o ps) \o o) \o pq) \o pr = (ph \o ps) \o (o \o (pq \o pr))
        /\ (((ph \o ps) \o o) \o pq) \o pr = ph \o (ps \o (o \o (pq \o pr)))
        /\ Bytestring(o \o (pq \o pr)) /\ Bytestring(ps \o (o \o (pq \o pr)))
        /\ Bytestring(ph \o ps)
    <3>0. Bytestring(ph) /\ Bytestring(ps) /\ Bytestring(o) /\ Bytestring(pq) /\ Bytestring(pr)
      BY <1>3, <1>5
    <3>1. (((ph \o ps) \o o) \o pq) \o pr = (ph \o ps) \o (o \o (pq \o pr))
      BY ONLY <3>0, FiveParts
    <3>2. (((ph \o ps) \o o) \o pq) \o pr = ph \o (ps \o (o \o (pq \o pr)))
      BY ONLY <3>0, FiveParts
    <3>3. Bytestring(ph \o ps) /\ Bytestring(pq \o pr)
      BY ONLY <3>0, Both
    <3>4. Bytestring(o \o (pq \o pr))
      BY ONLY <3>0, <3>3, Both
    <3>5. Bytestring(ps \o (o \o (pq \o pr)))
      BY ONLY <3>0, <3>4, Both
    <3> QED
      BY <3>1, <3>2, <3>3, <3>4, <3>5
  <2> QED
    BY <1>7, <1>8, <1>9, <2>1
<1>11. rest = Own(0) \o Rear(0)
  BY <1>1, <1>4, <1>8 DEF Rear
<1>12. Len(phs) = 7 /\ \A i \in 1..Len(ps) : phs[Len(ph) + i] = ps[i]
  <2>1. /\ Len(ph \o ps) = Len(ph) + Len(ps)
        /\ \A i \in 1..Len(ps) : (ph \o ps)[Len(ph) + i] = ps[i]
    <3>0. Bytestring(ph) /\ Bytestring(ps)
      BY <1>5
    <3> QED
      BY ONLY <3>0, Both
  <2> QED
    BY <1>5, <1>9, <2>1
<1>13. Len(all) = 7 + Len(rest) /\ \A i \in 1..Len(phs) : all[i] = phs[i]
  <2>1. /\ Len(phs \o rest) = Len(phs) + Len(rest)
        /\ \A i \in 1..Len(phs) : (phs \o rest)[i] = phs[i]
    BY ONLY <1>10, Both
  <2> QED
    BY <1>10, <1>12, <2>1
<1>14. Drops(all, 7) = rest
  BY <1>10, <1>12, RestOf
<1>15. ARGUMENTS = 7
  BY DEF ARGUMENTS, HEADER, STATEMENT
<1>16. Header = h
  <2>1. PICK z : z = ps \o rest
    OBVIOUS
  <2>2. SubSeq(Push(h) \o z, 2, Len(h) + 1) = h
    BY <1>2, <1>10, <2>1, PushRead
  <2>3. Len(h) + 1 = HEADER + 1
    BY <1>2 DEF HEADER
  <2> QED
    BY <1>4, <1>6, <1>10, <2>1, <2>2, <2>3 DEF Header
<1>17. all[7] = s[1]
  <2>1. PICK c : c = <<Byte(Len(s))>>
    OBVIOUS
  <2>2. Bytestring(c) /\ Len(c) = 1 /\ ps = c \o s
    BY <1>2, <1>4, <2>1, OneByte, PushIs
  <2>3. \A i \in 1..Len(s) : (c \o s)[Len(c) + i] = s[i]
    <3>0. Bytestring(c) /\ Bytestring(s)
      BY <1>2, <2>2
    <3> QED
      BY ONLY <3>0, Both
  <2>4. ps[2] = s[1]
    <3>1. 1 \in 1..Len(s) /\ Len(c) + 1 = 2
      BY <1>2, <2>2
    <3>2. (c \o s)[Len(c) + 1] = s[1]
      BY <2>3, <3>1
    <3> QED
      BY <2>2, <3>1, <3>2
  <2>5. phs[7] = ps[2]
    <3>1. 2 \in 1..Len(ps) /\ Len(ph) + 2 = 7
      BY <1>5
    <3>2. phs[Len(ph) + 2] = ps[2]
      BY <1>12, <3>1
    <3> QED
      BY <3>1, <3>2
  <2>6. 7 \in 1..Len(phs)
    BY <1>12
  <2>7. all[7] = phs[7]
    BY <1>13, <2>6
  <2> QED
    BY <2>4, <2>5, <2>7
<1>18. StatementRead = Stated
  BY <1>2, <1>6, <1>15, <1>17 DEF StatementRead
<1> QED
  BY <1>1, <1>6, <1>11, <1>13, <1>14, <1>15, <1>16, <1>18 DEF FramesOf

(***************************************************************************)
(* The transaction with all its frames, read on from frame to frame.       *)
(***************************************************************************)
Full == Built /\ Len(frames) = LAST

LEMMA FullIs ==
    ASSUME Full
    PROVE  /\ opening # NONE /\ DOMAIN frames = Block /\ FramesAre
           /\ \A b \in Block : IsFrame(b)
BY OpenWhenFull, BytesHave DEF Full, Built, FramesAre, Block

LEMMA FramesOfIs ==
    ASSUME Full, NEW i \in 0..W
    PROVE  FramesOf(i) = Own(i) \o Rear(i) /\ Bytestring(Rear(i))
<1>1. opening # NONE /\ Built
  BY FullIs DEF Full
<1>2. CASE i = 0
  <2>1. FramesOf(i) = Own(i) \o Rear(i)
    BY <1>1, <1>2, ArgumentsAre
  <2>2. Bytestring(Push(opening.quotient)) /\ Bytestring(Push(RootRedeem))
    BY <1>1, OpenedIs, RootRedeemIs, PushIs
  <2>3. Bytestring(Push(opening.quotient) \o Push(RootRedeem))
    BY ONLY <2>2, Both
  <2> QED
    BY <1>2, <2>1, <2>3 DEF Rear
<1>3. CASE i # 0
  <2>1. i \in 1..W
    BY <1>3, SizesAre
  <2>2. Bytestring(opening.redeem[i])
    BY <1>1, <2>1, OpenedIs
  <2> QED
    BY <1>3, <2>2, PushIs DEF FramesOf, Bytes, Rear
<1> QED
  BY <1>2, <1>3

\* What is left of the unlocking of input i after k frames.
Left(i, k) == LastJoined(OwnFrames(i))[Len(Frames[i]) - k] \o Rear(i)

LEMMA LeftIs ==
    ASSUME Full, NEW i \in 0..W
    PROVE  /\ FramesOf(i) = Left(i, 0)
           /\ \A k \in 0..Len(Frames[i]) : Bytestring(Left(i, k))
           /\ \A k \in 1..Len(Frames[i]) : Left(i, k - 1) = Frame(Frames[i][k]) \o Left(i, k)
<1>0. FramesAre
  BY FullIs
<1>1. PICK x, n : x = OwnFrames(i) /\ n = Len(Frames[i])
  OBVIOUS
<1>2. /\ Strings(x) /\ Len(x) = n /\ n \in Nat /\ DOMAIN Frames[i] = 1..n
      /\ \A o \in DOMAIN Frames[i] : x[o] = Frame(Frames[i][o])
      /\ Own(i) = Joined(x)
  BY <1>0, <1>1, OwnIs, SizesAre
<1>3. PICK r : r = Rear(i) /\ Bytestring(r)
  BY FramesOfIs
<1>4. FramesOf(i) = Left(i, 0)
  <2>1. Joined(x) = LastJoined(x)[Len(x)]
    BY <1>2, JoinedStep
  <2>2. n - 0 = n
    BY <1>2
  <2> QED
    BY <1>1, <1>2, <2>1, <2>2, FramesOfIs DEF Left
<1>5. \A k \in 0..n : Left(i, k) = LastJoined(x)[n - k] \o r
  BY <1>1, <1>3 DEF Left
<1>6. \A k \in 0..n : Bytestring(LastJoined(x)[k])
  BY <1>2, JoinedBytes
<1>7. ASSUME NEW k \in 0..n PROVE Bytestring(Left(i, k))
  <2>1. PICK l : l = LastJoined(x)[n - k]
    OBVIOUS
  <2>2. n - k \in 0..n
    BY <1>2
  <2>3. Bytestring(l)
    BY <1>6, <2>1, <2>2
  <2>4. Bytestring(l \o r)
    BY <1>3, <2>3, Both
  <2> QED
    BY <1>5, <2>1, <2>4
<1>8. ASSUME NEW k \in 1..n PROVE Left(i, k - 1) = Frame(Frames[i][k]) \o Left(i, k)
  <2>1. n - k \in 0..n /\ n - k < n /\ (n - k) + 1 = n - (k - 1) /\ n - (n - k) = k
        /\ k - 1 \in 0..n /\ k \in 0..n
    BY <1>2
  <2>2. PICK m : m = n - k
    OBVIOUS
  <2>3. LastJoined(x)[m + 1] = x[n - m] \o LastJoined(x)[m]
    BY <1>2, <2>1, <2>2, JoinedStep
  <2>4. PICK l, f : l = LastJoined(x)[m] /\ f = x[k]
    OBVIOUS
  <2>5. Bytestring(l) /\ Bytestring(f) /\ Bytestring(r)
    BY <1>2, <1>3, <1>6, <2>1, <2>2, <2>4 DEF Strings
  <2>6. (f \o l) \o r = f \o (l \o r)
    BY ONLY <2>5, Regrouped
  <2>7. LastJoined(x)[n - (k - 1)] = f \o l
    BY <2>1, <2>2, <2>3, <2>4
  <2>8. Left(i, k - 1) = (f \o l) \o r /\ Left(i, k) = l \o r
    BY <1>5, <2>1, <2>2, <2>4, <2>7
  <2>9. f = Frame(Frames[i][k])
    BY <1>2, <2>4
  <2> QED
    BY <2>6, <2>8, <2>9
<1> QED
  BY <1>1, <1>4, <1>7, <1>8

\* Frames are passed over whichever way their lengths are come by.
LEMMA ReadOn ==
    ASSUME Full, NEW i \in 0..W, NEW m \in 0..Len(Frames[i]), NEW h, h[0] = FramesOf(i),
           \A o \in 1..m : h[o - 1] = Left(i, o - 1) =>
               h[o] = After(h[o - 1], Len(frames[Frames[i][o]].payload))
    PROVE  h[m] = Left(i, m)
<1> DEFINE T == {k \in 0..m : h[k] = Left(i, k)}
<1>1. m \in Nat /\ Len(Frames[i]) \in Nat /\ DOMAIN Frames[i] = 1..Len(Frames[i])
  BY SizesAre
<1>2. 0 \in T
  BY <1>1, LeftIs
<1>3. \A k \in 0..m : k \in T /\ k < m => k + 1 \in T
  <2> SUFFICES ASSUME NEW k \in 0..m, k \in T, k < m PROVE k + 1 \in T
    OBVIOUS
  <2>1. /\ k + 1 \in 1..m /\ k + 1 \in 1..Len(Frames[i]) /\ (k + 1) - 1 = k
        /\ k + 1 \in 0..Len(Frames[i]) /\ k + 1 \in 0..m
    BY <1>1
  <2>2. PICK o : o = k + 1
    OBVIOUS
  <2>3. h[o - 1] = Left(i, o - 1)
    BY <2>1, <2>2
  <2>4. h[o] = After(h[o - 1], Len(frames[Frames[i][o]].payload))
    BY <2>1, <2>2, <2>3
  <2>5. PICK b : b = Frames[i][o]
    OBVIOUS
  <2>6. PICK y : y = Left(i, o)
    OBVIOUS
  <2>7. Bytestring(y) /\ Left(i, o - 1) = Frame(b) \o y
    BY <2>1, <2>2, <2>5, <2>6, LeftIs
  <2>8. b \in DOMAIN frames /\ FramesAre
    BY <1>1, <2>1, <2>2, <2>5, FullIs, SizesAre
  <2>9. After(Frame(b) \o y, Len(frames[b].payload)) = y
    BY ONLY <2>7, <2>8, FrameRead
  <2> QED
    BY <2>1, <2>2, <2>3, <2>4, <2>5, <2>6, <2>7, <2>9
<1> HIDE DEF T
<1>4. \A k \in 0..m : k \in T
  BY <1>1, <1>2, <1>3, UpTo
<1>5. m \in 0..m
  BY <1>1
<1> QED
  BY <1>4, <1>5 DEF T

\* One of the two readings: by the lengths pushed.
LEMMA FrameAtIs ==
    ASSUME Full, NEW b \in Block
    PROVE  \E y : Bytestring(y) /\ FrameAt(b) = Frame(b) \o y
<1>1. PICK i, k : i = InputOf(b) /\ k = Ordinal(b)
  OBVIOUS
<1>2. i \in 0..W /\ k \in DOMAIN Frames[i] /\ Frames[i][k] = b
  BY <1>1, PlaceIs
<1>3. k \in 1..Len(Frames[i]) /\ Len(Frames[i]) \in Nat /\ DOMAIN Frames[i] = 1..Len(Frames[i])
  BY <1>2, SizesAre
<1>4. PICK m : m = k - 1
  OBVIOUS
<1>5. m \in Nat /\ m \in 0..Len(Frames[i]) /\ \A o \in 1..m : o \in 1..Len(Frames[i])
  BY <1>3, <1>4
<1>6. PICK h : Skips(h, FramesOf(i), m) /\ Skipped(FramesOf(i), m) = h[m]
  BY <1>5, SkippedIs
<1>7. ASSUME NEW o \in 1..m, h[o - 1] = Left(i, o - 1)
      PROVE  h[o] = After(h[o - 1], Len(frames[Frames[i][o]].payload))
  <2>1. PICK c, y : c = Frames[i][o] /\ y = Left(i, o)
    OBVIOUS
  <2>2. o \in 1..Len(Frames[i]) /\ o \in 0..Len(Frames[i])
    BY <1>5
  <2>3. Bytestring(y) /\ Left(i, o - 1) = Frame(c) \o y
    BY <1>2, <2>1, <2>2, LeftIs
  <2>4. c \in DOMAIN frames /\ FramesAre
    BY <1>2, <1>3, <2>1, <2>2, FullIs, SizesAre
  <2>5. Width(Frame(c) \o y) = Len(frames[c].payload)
    BY ONLY <2>3, <2>4, FrameRead
  <2>6. h[o] = SkipFrame(h[o - 1])
    BY <1>6 DEF Skips
  <2> QED
    BY <1>7, <2>1, <2>3, <2>5, <2>6 DEF SkipFrame
<1>8. h[0] = FramesOf(i)
  BY <1>6 DEF Skips
<1>9. h[m] = Left(i, m)
  BY <1>2, <1>5, <1>7, <1>8, ReadOn
<1>10. Left(i, m) = Frame(b) \o Left(i, k) /\ Bytestring(Left(i, k))
  <2>1. k \in 1..Len(Frames[i]) /\ k \in 0..Len(Frames[i])
    BY <1>3
  <2>2. Bytestring(Left(i, k))
    BY <1>2, <2>1, LeftIs
  <2>3. Left(i, k - 1) = Frame(Frames[i][k]) \o Left(i, k)
    BY <1>2, <2>1, LeftIs
  <2> QED
    BY <1>2, <1>4, <2>2, <2>3
<1>11. FrameAt(b) = h[m]
  BY <1>1, <1>4, <1>6 DEF FrameAt
<1> QED
  BY <1>9, <1>10, <1>11

\* The other: by the lengths the digits give.
Sized == \A b \in Block : Len(frames[b].payload) = OwnLength(Stated, b)

LEMMA LengthsAgree ==
    ASSUME NEW s \in Statements, NEW b \in Block
    PROVE  BlockLength(s, b) = OwnLength(s, b)
<1>1. CASE b \in Windowed
  <2>1. PICK d \in {0, 1}, e \in {0, 1} : s[b] = <<d, e>>
    BY <1>1, CoordinatorAssumption
  <2>2. s[b][1] = d /\ s[b][2] = e
    BY <2>1
  <2>3. d + e = 0 <=> d = 0 /\ e = 0
    OBVIOUS
  <2>4. s[b] = <<0, 0>> <=> d = 0 /\ e = 0
    BY <2>1
  <2> QED
    BY <1>1, <2>2, <2>3, <2>4 DEF BlockLength, OwnLength
<1>2. CASE b \notin Windowed
  BY <1>2 DEF BlockLength, OwnLength
<1> QED
  BY <1>1, <1>2

LEMMA RawInputIs ==
    ASSUME Full, Sized, NEW b \in Block
    PROVE  \E y : Bytestring(y) /\ RawInput(Stated, b) = Frame(b) \o y
<1>0. Stated \in Statements
  BY FullIs, OpenedIs DEF Full
<1>1. PICK i, k : i = InputOf(b) /\ k = Ordinal(b)
  OBVIOUS
<1>2. i \in 0..W /\ k \in DOMAIN Frames[i] /\ Frames[i][k] = b
  BY <1>1, PlaceIs
<1>3. k \in 1..Len(Frames[i]) /\ Len(Frames[i]) \in Nat /\ DOMAIN Frames[i] = 1..Len(Frames[i])
  BY <1>2, SizesAre
<1>4. PICK m : m = k - 1
  OBVIOUS
<1>5. m \in Nat /\ m \in 0..Len(Frames[i]) /\ \A o \in 1..m : o \in 1..Len(Frames[i])
  BY <1>3, <1>4
<1>6. PICK h : /\ Measures(h, Stated, Frames[i], FramesOf(i), m)
               /\ Measured(Stated, Frames[i], FramesOf(i), m) = h[m]
  BY <1>5, MeasuredIs
<1>7. ASSUME NEW o \in 1..m, h[o - 1] = Left(i, o - 1)
      PROVE  h[o] = After(h[o - 1], Len(frames[Frames[i][o]].payload))
  <2>1. PICK c : c = Frames[i][o]
    OBVIOUS
  <2>2. c \in Block
    BY <1>2, <1>3, <1>5, <2>1, SizesAre
  <2>3. BlockLength(Stated, c) = Len(frames[c].payload)
    BY <1>0, <2>2, LengthsAgree DEF Sized
  <2>4. h[o] = After(h[o - 1], BlockLength(Stated, Frames[i][o]))
    BY <1>6 DEF Measures
  <2> QED
    BY <2>1, <2>3, <2>4
<1>8. h[0] = FramesOf(i)
  BY <1>6 DEF Measures
<1>9. h[m] = Left(i, m)
  BY <1>2, <1>5, <1>7, <1>8, ReadOn
<1>10. Left(i, m) = Frame(b) \o Left(i, k) /\ Bytestring(Left(i, k))
  <2>1. k \in 1..Len(Frames[i]) /\ k \in 0..Len(Frames[i])
    BY <1>3
  <2>2. Bytestring(Left(i, k))
    BY <1>2, <2>1, LeftIs
  <2>3. Left(i, k - 1) = Frame(Frames[i][k]) \o Left(i, k)
    BY <1>2, <2>1, LeftIs
  <2> QED
    BY <1>2, <1>4, <2>2, <2>3
<1>11. RawInput(Stated, b) = h[m]
  BY <1>1, <1>4, <1>6 DEF RawInput
<1> QED
  BY <1>9, <1>10, <1>11

\* Both find the payload that was pushed.
LEMMA ReadingsAre ==
    ASSUME Full, Sized, NEW b \in Block
    PROVE  /\ LoadPredecessor(Stated, b).payload = frames[b].payload
           /\ LoadPredecessor(Stated, b).eval = frames[b].eval
           /\ Committed(Stated, b) = frames[b].payload /\ Framed(Stated, b)
<1>1. PICK n : n = Len(frames[b].payload)
  OBVIOUS
<1>2. b \in DOMAIN frames /\ FramesAre /\ Stated \in Statements
  BY FullIs, OpenedIs DEF Full
<1>3. OwnLength(Stated, b) = n /\ BlockLength(Stated, b) = n
  BY <1>1, <1>2, LengthsAgree DEF Sized
<1>4. PICK x : x = FrameAt(b)
  OBVIOUS
<1>5. PICK y : Bytestring(y) /\ x = Frame(b) \o y
  BY <1>4, FrameAtIs
<1>6. /\ Width(x) = n /\ ReadAt(x, n).payload = frames[b].payload
      /\ ReadAt(x, n).eval = frames[b].eval
  BY ONLY <1>1, <1>2, <1>5, FrameRead
<1>7. PICK z : z = RawInput(Stated, b)
  OBVIOUS
<1>8. PICK u : Bytestring(u) /\ z = Frame(b) \o u
  BY <1>7, RawInputIs
<1>9. /\ ReadAt(z, n).payload = frames[b].payload
      /\ Len(z) >= n + 2 /\ z[1] = Byte(n) /\ z[n + 2] = Byte(EVAL)
  BY ONLY <1>1, <1>2, <1>8, FrameRead
<1>10. LoadPredecessor(Stated, b) = ReadAt(x, n)
  BY <1>3, <1>4, <1>6 DEF LoadPredecessor
<1> QED
  BY <1>3, <1>6, <1>7, <1>9, <1>10 DEF Committed, Framed

\* Input 0 has one block, without windows, and then the quotient.
LEMMA RootFrameIs ==
    ASSUME Full, Sized
    PROVE  /\ Frames[0][1] \in Block /\ Len(frames[Frames[0][1]].payload) = FIXED
           /\ FramesOf(0) = Frame(Frames[0][1]) \o Rear(0)
           /\ Len(FramesOf(0)) =
                ((FIXED + 1) + (EVAL + 1)) + ((Len(opening.quotient) + 1) + (1 + 1))
           /\ Len(opening.quotient) = QUOTIENT => QuotientRead = opening.quotient
<1>1. 0 \in 0..W /\ Len(Frames[0]) = 1 /\ DOMAIN Frames[0] = 1..1
  BY SizesAre, CoordinatorAssumption
<1>2. PICK b : b = Frames[0][1]
  OBVIOUS
<1>3. b \in Block /\ b \in ToSet(Frames[0])
  BY <1>1, <1>2, SizesAre DEF ToSet
<1>4. b \notin Windowed
  BY <1>3, CoordinatorAssumption
<1>5. Len(frames[b].payload) = FIXED
  BY <1>3, <1>4 DEF Sized, OwnLength
<1>6. PICK r : r = Rear(0)
  OBVIOUS
<1>7. Bytestring(r) /\ FramesAre /\ b \in DOMAIN frames
  BY <1>1, <1>3, <1>6, FramesOfIs, FullIs
<1>8. Left(0, 1) = r
  <2>1. LastJoined(OwnFrames(0))[0] = <<>>
    BY <1>1, <1>7, OwnIs, JoinedStep
  <2>2. <<>> \o r = r
    <3>1. r \in Seq(ToSet(r))
      BY <1>7 DEF Bytestring
    <3> QED
      BY <3>1
  <2>3. Left(0, 1) = LastJoined(OwnFrames(0))[1 - 1] \o Rear(0)
    BY <1>1 DEF Left
  <2>4. 1 - 1 = 0
    OBVIOUS
  <2> QED
    BY <1>6, <2>1, <2>2, <2>3, <2>4
<1>9. FramesOf(0) = Frame(b) \o r
  <2>1. 1 \in 1..Len(Frames[0]) /\ 1 - 1 = 0
    BY <1>1
  <2>2. FramesOf(0) = Left(0, 0)
    BY <1>1, LeftIs
  <2>3. Left(0, 1 - 1) = Frame(Frames[0][1]) \o Left(0, 1)
    BY <1>1, <2>1, LeftIs
  <2> QED
    BY <1>2, <1>8, <2>1, <2>2, <2>3
<1>10. PICK q : q = opening.quotient
  OBVIOUS
<1>11. Bytestring(q) /\ Len(q) \in Nat
  BY <1>10, FullIs, OpenedIs, BytesHave DEF Full
<1>12. PICK p : p = Push(RootRedeem)
  OBVIOUS
<1>13. Bytestring(p) /\ Len(p) = 1 + 1
  BY <1>12, RootRedeemIs, PushIs
<1>14. r = Push(q) \o p
  BY <1>6, <1>10, <1>12 DEF Rear
<1>15. Len(r) = (Len(q) + 1) + (1 + 1) /\ SubSeq(r, 2, Len(q) + 1) = q
  BY <1>11, <1>13, <1>14, PushRead
<1>16. Len(FramesOf(0)) = ((FIXED + 1) + (EVAL + 1)) + Len(r)
  <2>1. Bytestring(Frame(b)) /\ Len(Frame(b)) = (FIXED + 1) + (EVAL + 1)
    BY <1>5, <1>7, FrameBytes
  <2>2. Len(Frame(b) \o r) = Len(Frame(b)) + Len(r)
    BY <1>7, <2>1, Both
  <2> QED
    BY <1>9, <2>1, <2>2
<1>17. After(FramesOf(0), FIXED) = r
  <2>1. After(Frame(b) \o r, Len(frames[b].payload)) = r
    BY ONLY <1>7, FrameRead
  <2> QED
    BY <1>5, <1>9, <2>1
<1>18. Len(q) = QUOTIENT => QuotientRead = q
  BY <1>15, <1>17 DEF QuotientRead
<1> QED
  BY <1>2, <1>3, <1>5, <1>6, <1>9, <1>10, <1>15, <1>16, <1>18

(***************************************************************************)
(* The running total: what each block adds, from the block before it.      *)
(***************************************************************************)
LEMMA PredecessorIs ==
    ASSUME Full, Sized, NEW b \in Block
    PROVE  /\ b = 1 => /\ Predecessor(Stated, b).payload = <<>>
                       /\ Links(Predecessor(Stated, b).eval) = <<>>
           /\ b # 1 => /\ b - 1 \in Block
                       /\ Predecessor(Stated, b).payload = frames[b - 1].payload
                       /\ Predecessor(Stated, b).eval = frames[b - 1].eval
<1>1. CASE b = 1
  <2>1. /\ Predecessor(Stated, b).payload = <<>>
        /\ Predecessor(Stated, b).eval = <<Evaluation(<<>>)>>
    BY <1>1 DEF Predecessor
  <2>2. Links(<<Evaluation(<<>>)>>) = <<>>
    BY DEF Links, Evaluation
  <2> QED
    BY <1>1, <2>1, <2>2
<1>2. CASE b # 1
  <2>1. b - 1 \in Block
    BY <1>2, SizesAre DEF Block
  <2>2. PICK a : a = b - 1
    OBVIOUS
  <2>3. /\ LoadPredecessor(Stated, a).payload = frames[a].payload
        /\ LoadPredecessor(Stated, a).eval = frames[a].eval
    BY <2>1, <2>2, ReadingsAre
  <2>4. \/ Predecessor(Stated, b) = frames[a]
       \/ Predecessor(Stated, b) = LoadPredecessor(Stated, a)
    BY <1>2, <2>2 DEF Predecessor
  <2> QED
    BY <1>2, <2>1, <2>2, <2>3, <2>4
<1> QED
  BY <1>1, <1>2

Link(b) ==
    [statement |-> Stated, beta |-> opening.header[3], alpha |-> opening.header[4],
     state |-> IF b = 1 THEN <<>> ELSE frames[b - 1].payload, payload |-> frames[b].payload]
Totalled == \A b \in Block : frames[b].eval = Absorb(b, frames[b].payload)

LEMMA LinksRead ==
    ASSUME NEW x
    PROVE  Links(<<Evaluation(x)>>) = x
<1>1. PICK e : e = Evaluation(x)
  OBVIOUS
<1>2. e[1] = "eval" /\ e[2] = x
  BY <1>1 DEF Evaluation
<1>3. <<e>> # <<>> /\ <<e>>[1] = e
  OBVIOUS
<1> QED
  BY <1>1, <1>2, <1>3 DEF Links

LEMMA AbsorbIs ==
    ASSUME Full, Sized, NEW b \in Block
    PROVE  Links(Absorb(b, frames[b].payload)) =
               Append(IF b = 1 THEN <<>> ELSE Links(frames[b - 1].eval), Link(b))
<1>1. StatementRead = Stated /\ Header = opening.header
  BY ArgumentsAre, FullIs DEF Full
<1>2. PICK before : before = Predecessor(Stated, b)
  OBVIOUS
<1>3. before.payload = IF b = 1 THEN <<>> ELSE frames[b - 1].payload
  BY <1>2, PredecessorIs
<1>4. Links(before.eval) = IF b = 1 THEN <<>> ELSE Links(frames[b - 1].eval)
  BY <1>2, PredecessorIs
<1>5. Absorb(b, frames[b].payload) = <<Evaluation(Append(Links(before.eval), Link(b)))>>
  BY <1>1, <1>2, <1>3 DEF Absorb, Link
<1> QED
  BY <1>4, <1>5, LinksRead

LEMMA AppendNext ==
    ASSUME NEW f, NEW n \in Nat
    PROVE  Append([i \in 1..n |-> f[i]], f[n + 1]) = [i \in 1..n + 1 |-> f[i]]
<1>1. PICK s : s = [i \in 1..n |-> f[i]]
  OBVIOUS
<1>2. PICK t : t = [i \in 1..n + 1 |-> f[i]]
  OBVIOUS
<1> DEFINE S == {f[i] : i \in 1..n + 1}
<1>3. s \in Seq(S) /\ Len(s) = n /\ t \in Seq(S) /\ Len(t) = n + 1 /\ f[n + 1] \in S
  BY <1>1, <1>2
<1> HIDE DEF S
<1>4. /\ Append(s, f[n + 1]) \in Seq(S) /\ Len(Append(s, f[n + 1])) = n + 1
      /\ \A i \in 1..n : Append(s, f[n + 1])[i] = s[i]
      /\ Append(s, f[n + 1])[n + 1] = f[n + 1]
  BY <1>3
<1>5. \A i \in 1..n + 1 : Append(s, f[n + 1])[i] = t[i]
  BY <1>1, <1>2, <1>4
<1>6. Bytestring(Append(s, f[n + 1])) /\ Bytestring(t)
  BY <1>3, <1>4, SequencesAre
<1> QED
  BY <1>1, <1>2, <1>3, <1>4, <1>5, <1>6, SameBytes

LEMMA LinksAre ==
    ASSUME Full, Sized, Totalled
    PROVE  \A b \in Block : Links(frames[b].eval) = [i \in 1..b |-> Link(i)]
<1>1. PICK f : f = [i \in Block |-> Link(i)]
  OBVIOUS
<1>2. \A b \in Block : f[b] = Link(b)
  BY <1>1
<1> DEFINE T == {b \in Block : Links(frames[b].eval) = [i \in 1..b |-> f[i]]}
<1>3. LAST \in Nat /\ 1 \in Nat /\ 1 \in Block /\ Block = 1..LAST /\ 1 <= LAST
  BY SizesAre DEF Block
<1>4. \A b \in Block :
        Links(frames[b].eval) = Append(IF b = 1 THEN <<>> ELSE Links(frames[b - 1].eval), f[b])
  <2> SUFFICES ASSUME NEW b \in Block
               PROVE  Links(frames[b].eval) =
                        Append(IF b = 1 THEN <<>> ELSE Links(frames[b - 1].eval), f[b])
    OBVIOUS
  <2>1. frames[b].eval = Absorb(b, frames[b].payload)
    BY DEF Totalled
  <2> QED
    BY <1>2, <2>1, AbsorbIs
<1>5. 1 \in T
  <2>1. Links(frames[1].eval) = Append(<<>>, f[1])
    BY <1>3, <1>4
  <2>2. Append([i \in 1..0 |-> f[i]], f[0 + 1]) = [i \in 1..0 + 1 |-> f[i]]
    BY AppendNext, Zenon
  <2>3. [i \in 1..0 |-> f[i]] = <<>> /\ 0 + 1 = 1
    OBVIOUS
  <2> QED
    BY <1>3, <2>1, <2>2, <2>3
<1>6. \A b \in 1..LAST : b \in T /\ b < LAST => b + 1 \in T
  <2> SUFFICES ASSUME NEW b \in 1..LAST, b \in T, b < LAST PROVE b + 1 \in T
    OBVIOUS
  <2>1. b + 1 \in Block /\ b + 1 # 1 /\ (b + 1) - 1 = b /\ b \in Nat /\ b \in Block
    BY <1>3
  <2>2. Links(frames[b + 1].eval) = Append(Links(frames[b].eval), f[b + 1])
    BY <1>4, <2>1
  <2>3. Append([i \in 1..b |-> f[i]], f[b + 1]) = [i \in 1..b + 1 |-> f[i]]
    BY <2>1, AppendNext
  <2> QED
    BY <2>1, <2>2, <2>3
<1> HIDE DEF T
<1>7. \A b \in 1..LAST : b \in T
  BY <1>3, <1>5, <1>6, FromTo
<1> QED
  <2> SUFFICES ASSUME NEW b \in Block PROVE Links(frames[b].eval) = [i \in 1..b |-> Link(i)]
    OBVIOUS
  <2>1. Links(frames[b].eval) = [i \in 1..b |-> f[i]]
    BY <1>3, <1>7 DEF T
  <2>2. \A i \in 1..b : i \in Block
    BY <1>3
  <2>3. [i \in 1..b |-> f[i]] = [i \in 1..b |-> Link(i)]
    BY <1>2, <2>2
  <2> QED
    BY <2>1, <2>3

(***************************************************************************)
(* The final total, and what the three properties say of the invariant.    *)
(***************************************************************************)
\* The header of challenges drawn from what was pushed.
HeaderOf(root, qroot) ==
    <<root, qroot, HashOf("beta", root), HashOf("alpha", <<root, qroot>>)>>

LEMMA TotalIs ==
    ASSUME Full, Sized, Totalled
    PROVE  FinalTotal = [i \in 1..LAST |-> Link(i)]
<1>1. StatementRead = Stated /\ LAST \in Block
  BY ArgumentsAre, FullIs, SizesAre DEF Full, Block
<1>2. LoadPredecessor(Stated, LAST).eval = frames[LAST].eval
  BY <1>1, ReadingsAre
<1> QED
  BY <1>1, <1>2, LinksAre DEF FinalTotal

LEMMA LinkIs ==
    ASSUME NEW b
    PROVE  /\ Link(b).statement = Stated /\ Link(b).payload = frames[b].payload
           /\ Link(b).beta = opening.header[3] /\ Link(b).alpha = opening.header[4]
           /\ b # 1 => Link(b).state = frames[b - 1].payload
BY DEF Link

LEMMA TotalSays ==
    ASSUME Full, Sized, Totalled
    PROVE  /\ FinalTotal[1].statement = Stated
           /\ [b \in Block |-> FinalTotal[b].payload] = Payloads
           /\ Len(FinalTotal) = LAST
           /\ \A b \in 2..LAST : FinalTotal[b].state = FinalTotal[b - 1].payload
           /\ \A b \in Block : /\ FinalTotal[b].statement = Stated
                               /\ FinalTotal[b].beta = opening.header[3]
                               /\ FinalTotal[b].alpha = opening.header[4]
<1>1. PICK t : t = FinalTotal
  OBVIOUS
<1>2. /\ LAST \in Nat /\ 1 \in Block /\ Block = 1..LAST
      /\ \A b \in 2..LAST : b \in Block /\ b - 1 \in Block /\ b # 1
  BY SizesAre DEF Block
<1>3. Len(t) = LAST /\ \A b \in Block : t[b] = Link(b)
  BY <1>1, <1>2, TotalIs
<1>4. \A b \in Block : /\ t[b].statement = Stated /\ t[b].payload = frames[b].payload
                       /\ t[b].beta = opening.header[3] /\ t[b].alpha = opening.header[4]
  BY <1>3, LinkIs
<1>5. \A b \in 2..LAST : t[b].state = t[b - 1].payload
  <2> SUFFICES ASSUME NEW b \in 2..LAST PROVE t[b].state = t[b - 1].payload
    OBVIOUS
  <2>1. b \in Block /\ b - 1 \in Block /\ b # 1
    BY <1>2
  <2>2. t[b].state = frames[b - 1].payload
    BY <1>3, <2>1, LinkIs
  <2> QED
    BY <1>4, <2>1, <2>2
<1>6. [b \in Block |-> t[b].payload] = Payloads
  BY <1>4 DEF Payloads
<1> QED
  BY <1>1, <1>2, <1>3, <1>4, <1>5, <1>6

\* With such challenges the equation is about what the total was made of.
LEMMA DrawnIs ==
    ASSUME Full, Sized, Totalled,
           LET root == Root(Stated, Payloads)  qroot == HashOf("qroot", opening.quotient)
           IN  /\ opening.header[3] = HashOf("beta", root)
               /\ opening.header[4] = HashOf("alpha", <<root, qroot>>)
    PROVE  Drawn(FinalTotal, opening.quotient)
<1>1. PICK t, root : t = FinalTotal /\ root = Root(Stated, Payloads)
  OBVIOUS
<1>2. Root(t[1].statement, [b \in Block |-> t[b].payload]) = root
  BY <1>1, TotalSays
<1>3. Len(t) = LAST /\ \A b \in 2..LAST : t[b].state = t[b - 1].payload
  BY <1>1, TotalSays
<1>4. \A b \in Block :
        /\ t[b].statement = t[1].statement
        /\ t[b].beta = HashOf("beta", root)
        /\ t[b].alpha = HashOf("alpha", <<root, HashOf("qroot", opening.quotient)>>)
  BY <1>1, TotalSays
<1>5. Drawn(t, opening.quotient)
  BY <1>2, <1>3, <1>4 DEF Drawn
<1> QED
  BY <1>1, <1>5

\* The commitment is to the payloads pushed.
LEMMA CommittedAre ==
    ASSUME Full, Sized
    PROVE  [b \in Block |-> Committed(Stated, b)] = Payloads
BY ReadingsAre DEF Payloads

LEMMA BlocksPass ==
    ASSUME Full
    PROVE  (\A b \in Block : BlockPasses(b)) <=> Sized /\ Totalled
<1>1. StatementRead = Stated
  BY ArgumentsAre, FullIs DEF Full
<1>2. ASSUME NEW b \in Block
      PROVE  BlockPasses(b) <=> /\ Len(frames[b].payload) = OwnLength(Stated, b)
                                /\ frames[b].eval = Absorb(b, frames[b].payload)
  <2>1. Len(frames[b].eval) = EVAL
    BY FullIs, FrameIs
  <2> QED
    BY <1>1, <2>1 DEF BlockPasses
<1> QED
  BY <1>2 DEF Sized, Totalled

LEMMA VerdictFromInv == CoordinatorInv => VerdictIsTrue
<1> SUFFICES ASSUME CoordinatorInv, verdict = "accepted"
             PROVE  \E r \in Relation : r[1] = Stated
  BY DEF VerdictIsTrue
<1>1. Full /\ RootPasses /\ \A w \in 1..W : WorkerPasses(w)
  BY DEF CoordinatorInv, VerdictGiven, Full
<1>2. opening # NONE /\ Built
  BY <1>1, FullIs DEF Full
<1>3. \A w \in 1..W : coins[w] = P2sh(Redeem(w))
  BY <1>1, <1>2, BinderBinds DEF RootPasses
<1>4. Delegated /\ QuotientPasses /\ \A b \in ToSet(Frames[0]) : BlockPasses(b)
  BY <1>1, <1>2, <1>3, ImportedIs DEF RootPasses
<1>5. ASSUME NEW b \in Block PROVE BlockPasses(b)
  <2>1. PICK i \in 0..W : b \in ToSet(Frames[i])
    BY CoordinatorAssumption
  <2>2. CASE i = 0
    BY <1>4, <2>1, <2>2
  <2>3. CASE i # 0
    <3>1. i \in 1..W
      BY <2>3, SizesAre
    <3> QED
      BY <1>1, <1>3, <2>1, <3>1 DEF WorkerPasses
  <2> QED
    BY <2>2, <2>3
<1>6. Sized /\ Totalled
  BY <1>1, <1>5, BlocksPass
<1>7. Len(opening.quotient) = QUOTIENT
  BY <1>4 DEF QuotientPasses
<1>8. QuotientRead = opening.quotient
  BY <1>1, <1>6, <1>7, RootFrameIs
<1>9. /\ opening.header[1] = Root(Stated, Payloads)
      /\ opening.header[2] = HashOf("qroot", opening.quotient)
      /\ opening.header[3] = HashOf("beta", opening.header[1])
      /\ opening.header[4] = HashOf("alpha", <<opening.header[1], opening.header[2]>>)
  <2>1. opening.statement[1][2] = Stated
    BY DEF Stated
  <2>2. [b \in Block |-> Committed(opening.statement[1][2], b)] = Payloads
    BY <1>1, <1>6, <2>1, CommittedAre
  <2> QED
    BY <1>4, <1>8, <2>1, <2>2 DEF Delegated
<1>10. Drawn(FinalTotal, opening.quotient)
  BY <1>1, <1>6, <1>9, DrawnIs
<1>11. <<FinalTotal[1].statement, [b \in Block |-> FinalTotal[b].payload],
         opening.quotient>> \in Relation
  BY <1>4, <1>10 DEF QuotientPasses
<1>12. <<Stated, Payloads, opening.quotient>> \in Relation
  BY <1>1, <1>6, <1>11, TotalSays
<1> QED
  BY <1>12

LEMMA HonestFromInv == CoordinatorInv => HonestIsAccepted
<1> SUFFICES ASSUME CoordinatorInv, verdict # "none",
                    <<Stated, Payloads, opening.quotient>> \in Relation,
                    \A w \in 1..W : coins[w] = P2sh(Redeem(w)),
                    \A b \in Block : frames[b].eval = Absorb(b, frames[b].payload),
                    opening.header = HeaderOf(Root(Stated, Payloads),
                                              HashOf("qroot", opening.quotient))
             PROVE  verdict = "accepted"
  BY DEF HonestIsAccepted, HeaderOf
<1>1. Full
  BY DEF CoordinatorInv, VerdictGiven, Full
<1>2. opening # NONE /\ Built /\ FramesAre
  BY <1>1, FullIs DEF Full
<1>3. Totalled
  BY DEF Totalled
<1>4. PICK r : r = <<Stated, Payloads, opening.quotient>>
  OBVIOUS
<1>5. r \in Relation /\ r[1] = Stated /\ r[2] = Payloads /\ r[3] = opening.quotient
  BY <1>4
<1>6. /\ Len(opening.quotient) = QUOTIENT
      /\ \A b \in Block : Len(Payloads[b]) = OwnLength(Stated, b)
  BY <1>5, CoordinatorAssumption
<1>7. Sized
  BY <1>6 DEF Sized, Payloads
<1>8. \A b \in Block : BlockPasses(b)
  BY <1>1, <1>3, <1>7, BlocksPass
<1>9. \A i \in 0..W : \A b \in ToSet(Frames[i]) : b \in Block
  BY SizesAre DEF ToSet
<1>10. \A w \in 1..W : WorkerPasses(w)
  <2> SUFFICES ASSUME NEW w \in 1..W, NEW v \in 1..W, coins[w] = P2sh(Redeem(v))
               PROVE  v = w /\ \A b \in ToSet(Frames[w]) : BlockPasses(b)
    BY DEF WorkerPasses
  <2>1. v = w
    BY P2shDiffer, RedeemsDiffer
  <2>2. w \in 0..W
    BY SizesAre
  <2> QED
    BY <1>8, <1>9, <2>1, <2>2
<1>11. FrameGuard
  <2>1. PICK n, k : n = Len(FramesOf(0)) /\ k = Len(Bytes(0))
    OBVIOUS
  <2>2. k = ARGUMENTS + n
    BY <1>2, <2>1, ArgumentsAre
  <2>3. n = ((FIXED + 1) + (EVAL + 1)) + ((QUOTIENT + 1) + (1 + 1))
    BY <1>1, <1>6, <1>7, <2>1, RootFrameIs
  <2>4. Len(RootRedeem) = 1
    BY RootRedeemIs
  <2>5. k = ARGUMENTS + (FIXED + 1) + (EVAL + 1) + (QUOTIENT + 1) + 1 + 1
    BY <2>2, <2>3 DEF ARGUMENTS, HEADER, STATEMENT, FIXED, EVAL, QUOTIENT
  <2> QED
    BY <2>1, <2>4, <2>5 DEF FrameGuard
<1>12. Binder
  BY <1>2, BinderBinds
<1>13. Imported = Program /\ \A w \in 1..W : Len(Bytes(w)) >= Len(Redeem(w))
  BY <1>2, ImportedIs
<1>14. PICK root, qroot :
         root = Root(Stated, Payloads) /\ qroot = HashOf("qroot", opening.quotient)
  OBVIOUS
<1>15. /\ opening.header[1] = root /\ opening.header[2] = qroot
       /\ opening.header[3] = HashOf("beta", root)
       /\ opening.header[4] = HashOf("alpha", <<root, qroot>>)
  <2>1. opening.header = HeaderOf(root, qroot)
    BY <1>14
  <2>2. PICK b, a : b = HashOf("beta", root) /\ a = HashOf("alpha", <<root, qroot>>)
    OBVIOUS
  <2>3. opening.header = <<root, qroot, b, a>>
    BY <2>1, <2>2 DEF HeaderOf
  <2> QED
    BY <2>2, <2>3
<1>16. Delegated
  <2>1. opening.statement[1][2] = Stated
    BY DEF Stated
  <2>2. [b \in Block |-> Committed(Stated, b)] = Payloads
    BY <1>1, <1>7, CommittedAre
  <2>3. \A b \in Block : Framed(Stated, b)
    BY <1>1, <1>7, ReadingsAre
  <2>4. QuotientRead = opening.quotient
    BY <1>1, <1>6, <1>7, RootFrameIs
  <2>5. Len(opening.header) = HEADER /\ Len(opening.statement) = STATEMENT
    BY <1>2, OpenedIs
  <2> QED
    BY <1>14, <1>15, <2>1, <2>2, <2>3, <2>4, <2>5 DEF Delegated
<1>17. QuotientPasses
  <2>1. FinalTotal[1].statement = Stated /\ [b \in Block |-> FinalTotal[b].payload] = Payloads
    BY <1>1, <1>3, <1>7, TotalSays
  <2> QED
    BY <1>6, <2>1 DEF QuotientPasses
<1>18. \A b \in ToSet(Frames[0]) : BlockPasses(b)
  <2>1. 0 \in 0..W
    BY SizesAre
  <2> QED
    BY <1>8, <1>9, <2>1
<1>19. RootPasses
  BY <1>11, <1>12, <1>13, <1>16, <1>17, <1>18 DEF RootPasses
<1> QED
  BY <1>10, <1>19 DEF CoordinatorInv, VerdictGiven

(***************************************************************************)
(* What the scripts say depends on the coins and on what is pushed alone.  *)
(***************************************************************************)
pushed == <<coins, opening, frames>>

LEMMA SameFrame ==
    ASSUME UNCHANGED pushed, NEW b
    PROVE  Frame(b)' = Frame(b)
BY DEF Frame, pushed

LEMMA SameOwn ==
    ASSUME UNCHANGED pushed, NEW i
    PROVE  Own(i)' = Own(i)
BY SameFrame DEF Own

LEMMA SameBytesOf ==
    ASSUME UNCHANGED pushed, NEW i
    PROVE  Bytes(i)' = Bytes(i)
BY SameOwn DEF Bytes, pushed

LEMMA SameFramesOf ==
    ASSUME UNCHANGED pushed, NEW i
    PROVE  FramesOf(i)' = FramesOf(i)
BY SameBytesOf DEF FramesOf

LEMMA SameHeader ==
    ASSUME UNCHANGED pushed
    PROVE  Header' = Header
BY SameBytesOf DEF Header

LEMMA SameStatement ==
    ASSUME UNCHANGED pushed
    PROVE  StatementRead' = StatementRead
BY SameBytesOf DEF StatementRead

LEMMA SameFrameAt ==
    ASSUME UNCHANGED pushed, NEW b
    PROVE  FrameAt(b)' = FrameAt(b)
BY SameFramesOf DEF FrameAt

LEMMA SameLoad ==
    ASSUME UNCHANGED pushed, NEW s, NEW b
    PROVE  LoadPredecessor(s, b)' = LoadPredecessor(s, b)
BY SameFrameAt DEF LoadPredecessor

LEMMA SamePredecessor ==
    ASSUME UNCHANGED pushed, NEW s, NEW b
    PROVE  Predecessor(s, b)' = Predecessor(s, b)
BY SameLoad DEF Predecessor, pushed

LEMMA SameAbsorb ==
    ASSUME UNCHANGED pushed, NEW b, NEW payload
    PROVE  Absorb(b, payload)' = Absorb(b, payload)
BY SamePredecessor, SameHeader, SameStatement DEF Absorb

LEMMA SameBlock ==
    ASSUME UNCHANGED pushed, NEW b
    PROVE  BlockPasses(b)' <=> BlockPasses(b)
BY SameAbsorb, SameStatement DEF BlockPasses, pushed

LEMMA SameBinder ==
    ASSUME UNCHANGED pushed
    PROVE  Binder' <=> Binder
BY DEF Binder, pushed

LEMMA SameGuard ==
    ASSUME UNCHANGED pushed
    PROVE  FrameGuard' <=> FrameGuard
BY SameBytesOf DEF FrameGuard

LEMMA SameCode ==
    ASSUME UNCHANGED pushed, NEW w, NEW n
    PROVE  Load(w, n)' = Load(w, n)
BY SameBytesOf DEF Load, RedeemOf

LEMMA SameImported ==
    ASSUME UNCHANGED pushed
    PROVE  Imported' = Imported
BY SameCode DEF Imported

LEMMA SameRaw ==
    ASSUME UNCHANGED pushed, NEW s, NEW b
    PROVE  RawInput(s, b)' = RawInput(s, b)
BY SameFramesOf DEF RawInput

LEMMA SameCommitted ==
    ASSUME UNCHANGED pushed, NEW s, NEW b
    PROVE  Committed(s, b)' = Committed(s, b)
BY SameRaw DEF Committed

LEMMA SameFramed ==
    ASSUME UNCHANGED pushed, NEW s, NEW b
    PROVE  Framed(s, b)' <=> Framed(s, b)
BY SameRaw DEF Framed

LEMMA SameQuotientRead ==
    ASSUME UNCHANGED pushed
    PROVE  QuotientRead' = QuotientRead
BY SameFramesOf DEF QuotientRead

LEMMA SameDelegated ==
    ASSUME UNCHANGED pushed
    PROVE  Delegated' <=> Delegated
BY SameCommitted, SameFramed, SameQuotientRead DEF Delegated, pushed

LEMMA SameTotal ==
    ASSUME UNCHANGED pushed
    PROVE  FinalTotal' = FinalTotal
BY SameLoad, SameStatement DEF FinalTotal

LEMMA SameQuotient ==
    ASSUME UNCHANGED pushed
    PROVE  QuotientPasses' <=> QuotientPasses
BY SameTotal DEF QuotientPasses, pushed

LEMMA SameRoot ==
    ASSUME UNCHANGED pushed
    PROVE  RootPasses' <=> RootPasses
BY SameGuard, SameBinder, SameBytesOf, SameImported, SameDelegated, SameQuotient,
   SameBlock DEF RootPasses

LEMMA SameWorker ==
    ASSUME UNCHANGED pushed, NEW w
    PROVE  WorkerPasses(w)' <=> WorkerPasses(w)
BY SameBlock DEF WorkerPasses, pushed

LEMMA CoordinatorStarts == CoordinatorInit => CoordinatorInv
<1> SUFFICES ASSUME CoordinatorInit PROVE CoordinatorInv
  OBVIOUS
<1>1. frames = <<>> /\ Bytestring(<<>>) /\ Len(<<>>) = 0 /\ DOMAIN <<>> = {}
  BY NoBytes DEF CoordinatorInit
<1>2. FramesAre
  BY <1>1, SizesAre DEF FramesAre
<1> QED
  BY <1>1, <1>2 DEF CoordinatorInit, CoordinatorInv, Built, VerdictGiven

LEMMA OpenKeeps == CoordinatorInv /\ Open => CoordinatorInv'
<1> SUFFICES ASSUME CoordinatorInv, Open PROVE CoordinatorInv'
  OBVIOUS
<1>1. opening = NONE /\ frames = <<>> /\ coins \in Coins /\ FramesAre
  BY DEF CoordinatorInv, Built, Open
<1>2. PICK s \in Statements, committed \in Opened, q \in Quotient, p \in Quotient,
           redeem \in [1..W -> {Redeem(w) : w \in 1..W} \cup Foreign] :
        /\ \A w \in 1..W : Spendable(w, redeem[w])
        /\ \E root, qroot, beta, alpha :
              opening' = [header |-> <<root, qroot, beta, alpha>>,
                          statement |-> <<<<"statement", s>>>>,
                          quotient |-> p, redeem |-> redeem]
  BY DEF Open
<1>3. UNCHANGED <<coins, frames, verdict>>
  BY DEF Open
<1>4. /\ \E r, k, b, a : opening'.header = <<r, k, b, a>>
      /\ opening'.statement = <<<<"statement", s>>>>
      /\ opening'.quotient = p /\ opening'.redeem = redeem
  BY <1>2
<1>5. ASSUME NEW w \in 1..W
      PROVE  /\ opening'.redeem[w] \in {Redeem(v) : v \in 1..W} \cup Foreign
             /\ Spendable(w, opening.redeem[w])'
  <2>1. redeem[w] \in {Redeem(v) : v \in 1..W} \cup Foreign /\ Spendable(w, redeem[w])
    BY <1>2
  <2> QED
    BY <1>3, <1>4, <2>1 DEF Spendable
<1>6. IsOpened'
  BY <1>4, <1>5 DEF IsOpened
<1>7. opening' # NONE
  <2>1. PICK r, k, b, a : opening'.header = <<r, k, b, a>>
    BY <1>4
  <2>2. <<r, k, b, a>> # <<>>
    OBVIOUS
  <2>3. NONE.header = <<>>
    BY DEF NONE
  <2> QED
    BY <2>1, <2>2, <2>3
<1>8. FramesAre'
  BY <1>1, <1>3 DEF FramesAre, IsFrame
<1>9. verdict = "none"
  <2>1. Len(frames) = 0
    BY <1>1, NoBytes
  <2> QED
    BY <2>1, SizesAre DEF CoordinatorInv, VerdictGiven
<1> QED
  BY <1>1, <1>3, <1>6, <1>7, <1>8, <1>9 DEF CoordinatorInv, Built, VerdictGiven

LEMMA PushFrameKeeps == CoordinatorInv /\ PushFrame => CoordinatorInv'
<1> SUFFICES ASSUME CoordinatorInv, PushFrame PROVE CoordinatorInv'
  OBVIOUS
<1>1. opening # NONE /\ IsOpened /\ coins \in Coins /\ FramesAre
  BY DEF CoordinatorInv, Built, PushFrame
<1>2. PICK b : b = Len(frames) + 1
  OBVIOUS
<1>3. b <= LAST /\ UNCHANGED <<coins, opening, verdict>>
  BY <1>2 DEF PushFrame
<1>4. PICK payload \in Payload[b], other \in Payload[b] :
        frames' = Append(frames, [payload |-> payload, eval |-> Absorb(b, other)])
  BY <1>2 DEF PushFrame
<1>5. PICK f : f = [payload |-> payload, eval |-> Absorb(b, other)]
  OBVIOUS
<1>6. f.payload = payload /\ \E links : f.eval = <<Evaluation(links)>>
  BY <1>5 DEF Absorb
<1>7. Bytestring(frames) /\ Len(frames) \in Nat /\ DOMAIN frames = 1..Len(frames)
  BY <1>1, BytesHave DEF FramesAre
<1>8. frames' = Append(frames, f)
  BY <1>4, <1>5
<1>9. /\ Bytestring(frames') /\ Len(frames') = b /\ DOMAIN frames' = 1..b
      /\ frames'[b] = f /\ \A k \in 1..b - 1 : frames'[k] = frames[k]
  <2>1. Append(frames, f) = frames \o <<f>>
    <3>1. frames \in Seq(ToSet(frames))
      BY <1>7 DEF Bytestring
    <3>2. frames \in Seq(ToSet(frames) \cup {f}) /\ f \in ToSet(frames) \cup {f}
      BY <3>1
    <3> QED
      BY <3>2, AppendIsConcat
  <2>2. PICK y : y = <<f>>
    OBVIOUS
  <2>3. Bytestring(y) /\ Len(y) = 1 /\ y[1] = f
    BY <2>2, OneByte
  <2>4. PICK x : x = frames
    OBVIOUS
  <2>5. Bytestring(x)
    BY <1>7, <2>4
  <2>6. /\ Bytestring(x \o y) /\ Len(x \o y) = Len(x) + Len(y)
        /\ \A i \in 1..Len(x) : (x \o y)[i] = x[i]
        /\ \A i \in 1..Len(y) : (x \o y)[Len(x) + i] = y[i]
    <3>0. Bytestring(x) /\ Bytestring(y)
      BY <2>3, <2>5
    <3> QED
      BY ONLY <3>0, Both
  <2>7. DOMAIN (x \o y) = 1..Len(x \o y)
    BY <2>6, BytesHave
  <2>8. frames' = x \o y /\ b = Len(x) + 1 /\ b - 1 = Len(x) /\ 1 \in 1..Len(y)
    BY <1>2, <1>7, <1>8, <2>1, <2>2, <2>3, <2>4
  <2>9. (x \o y)[Len(x) + 1] = y[1]
    BY <2>6, <2>8
  <2> QED
    BY <2>3, <2>4, <2>6, <2>7, <2>8, <2>9
<1>10. ASSUME NEW k \in 1..b PROVE IsFrame(k)'
  <2>1. CASE k = b
    BY <1>6, <1>9, <2>1 DEF IsFrame
  <2>2. CASE k # b
    <3>1. k \in 1..b - 1 /\ k \in DOMAIN frames
      BY <1>2, <1>7, <2>2
    <3>2. frames'[k] = frames[k] /\ IsFrame(k)
      BY <1>1, <1>9, <3>1 DEF FramesAre
    <3> QED
      BY <3>2 DEF IsFrame
  <2> QED
    BY <2>1, <2>2
<1>11. FramesAre'
  BY <1>3, <1>9, <1>10 DEF FramesAre
<1>12. verdict = "none"
  <2>1. Len(frames) # LAST
    <3>1. Len(frames) \in Nat /\ Len(frames) + 1 <= LAST
      BY <1>2, <1>3, <1>7
    <3> QED
      BY <3>1
  <2> QED
    BY <2>1 DEF CoordinatorInv, VerdictGiven
<1>13. IsOpened'
  BY <1>1, <1>3 DEF IsOpened, Spendable
<1> QED
  BY <1>1, <1>3, <1>11, <1>12, <1>13 DEF CoordinatorInv, Built, VerdictGiven

LEMMA BuiltStays ==
    ASSUME Built, UNCHANGED pushed
    PROVE  Built'
<1>1. FramesAre'
  BY DEF Built, FramesAre, IsFrame, pushed
<1>2. opening' # NONE => IsOpened'
  BY DEF Built, IsOpened, Spendable, pushed
<1> QED
  BY <1>1, <1>2 DEF Built, pushed

LEMMA SubmitKeeps == CoordinatorInv /\ Submit => CoordinatorInv'
<1> SUFFICES ASSUME CoordinatorInv, Submit PROVE CoordinatorInv'
  OBVIOUS
<1>1. UNCHANGED pushed
  BY DEF Submit, pushed
<1>2. Built'
  BY <1>1, BuiltStays DEF CoordinatorInv
<1>3. PICK yes \in BOOLEAN : yes <=> RootPasses /\ \A w \in 1..W : WorkerPasses(w)
  OBVIOUS
<1>4. Len(frames') = LAST /\ verdict' = IF yes THEN "accepted" ELSE "rejected"
  BY <1>1, <1>3 DEF Submit, pushed
<1>5. yes <=> (RootPasses /\ \A w \in 1..W : WorkerPasses(w))'
  BY <1>1, <1>3, SameRoot, SameWorker
<1>6. VerdictGiven'
  BY <1>4, <1>5 DEF VerdictGiven
<1> QED
  BY <1>2, <1>6 DEF CoordinatorInv

LEMMA StutterKeeps == CoordinatorInv /\ UNCHANGED coordinatorVars => CoordinatorInv'
<1> SUFFICES ASSUME CoordinatorInv, UNCHANGED coordinatorVars PROVE CoordinatorInv'
  OBVIOUS
<1>1. UNCHANGED pushed /\ verdict' = verdict
  BY DEF coordinatorVars, pushed
<1>2. Built'
  BY <1>1, BuiltStays DEF CoordinatorInv
<1>3. PICK yes \in BOOLEAN : yes <=> RootPasses /\ \A w \in 1..W : WorkerPasses(w)
  OBVIOUS
<1>4. verdict' # "none" =>
        Len(frames') = LAST /\ verdict' = IF yes THEN "accepted" ELSE "rejected"
  BY <1>1, <1>3 DEF CoordinatorInv, VerdictGiven, pushed
<1>5. yes <=> (RootPasses /\ \A w \in 1..W : WorkerPasses(w))'
  BY <1>1, <1>3, SameRoot, SameWorker
<1>6. VerdictGiven'
  BY <1>4, <1>5 DEF VerdictGiven
<1> QED
  BY <1>2, <1>6 DEF CoordinatorInv

THEOREM CoordinatorInvariant == CoordinatorSpec => []CoordinatorInv
<1>1. CoordinatorInv /\ [CoordinatorNext]_coordinatorVars => CoordinatorInv'
  BY OpenKeeps, PushFrameKeeps, SubmitKeeps, StutterKeeps DEF CoordinatorNext
<1> QED
  BY <1>1, CoordinatorStarts, PTL DEF CoordinatorSpec

THEOREM CodeIsTheProgramAlways == CoordinatorSpec => []CodeIsTheProgram
BY CoordinatorInvariant, CodeFromInv, PTL

THEOREM VerdictIsTrueAlways == CoordinatorSpec => []VerdictIsTrue
BY CoordinatorInvariant, VerdictFromInv, PTL

THEOREM HonestIsAcceptedAlways == CoordinatorSpec => []HonestIsAccepted
BY CoordinatorInvariant, HonestFromInv, PTL
===============================================================================
