---------------------------- MODULE LinkedProofs ----------------------------
(***************************************************************************)
(* Theorems about the linked verifiers, for every number of chunks, every  *)
(* layout of them over groups, and every computation; then about the plan  *)
(* that cuts a stage in chunks and packs them in groups, for all costs.    *)
(***************************************************************************)
EXTENDS Linked, Groups, Induction, FiniteSetTheorems, SequenceTheorems

(***************************************************************************)
(* Layouts.  The groups follow each other, and each is an interval of      *)
(* chunks from its root to its tail.                                       *)
(***************************************************************************)
LEMMA TerminalIs ==
    /\ Terminal \in Nat /\ Terminal >= 2
    /\ N = Terminal + 1 /\ N - 2 = Terminal - 1 /\ FREE = Terminal + 1
BY ChunksAssumption DEF Terminal, FREE

LEMMA LayoutIs ==
    ASSUME layout \in Layouts
    PROVE  /\ G \in Nat \ {0} /\ GroupOf \in [0..Terminal -> 0..G - 1]
           /\ GroupOf[0] = 0 /\ GroupOf[Terminal] = G - 1
           /\ \A k \in 1..Terminal : GroupOf[k] \in {GroupOf[k - 1], GroupOf[k - 1] + 1}
           /\ Carrier \in 1..Terminal /\ Borrows \subseteq (Carrier + 1)..Terminal
           /\ \A k \in Borrows : GroupOf[k] = GroupOf[Carrier]
BY LinkedAssumption DEF IsLayout, G, GroupOf, Carrier, Borrows

LEMMA GroupType ==
    ASSUME layout \in Layouts, NEW i \in 0..Terminal
    PROVE  GroupOf[i] \in Nat /\ GroupOf[i] \in 0..G - 1 /\ i \in Nat
<1>1. GroupOf \in [0..Terminal -> 0..G - 1] /\ G \in Nat
  BY LayoutIs
<1>2. GroupOf[i] \in 0..G - 1
  BY <1>1
<1> QED
  BY <1>1, <1>2, TerminalIs

LEMMA GroupSteps ==
    ASSUME layout \in Layouts, NEW i \in 0..Terminal, i # 0
    PROVE  /\ i - 1 \in 0..Terminal
           /\ GroupOf[i] = GroupOf[i - 1] \/ GroupOf[i] = GroupOf[i - 1] + 1
<1>1. i \in 1..Terminal
  BY TerminalIs
<1> QED
  BY <1>1, LayoutIs, TerminalIs

LEMMA InOrder ==
    ASSUME layout \in Layouts, NEW i \in 0..Terminal, NEW j \in 0..Terminal, i <= j
    PROVE  GroupOf[i] <= GroupOf[j]
<1> DEFINE T == {m \in 0..Terminal : i <= m /\ GroupOf[m] < GroupOf[i]}
<1>1. SUFFICES ASSUME T # {} PROVE FALSE
  BY GroupType
<1>2. T \in SUBSET Nat
  BY TerminalIs
<1>3. PICK m \in T : \A y \in T : m <= y
  BY <1>1, <1>2, Least
<1>4. m \in 0..Terminal /\ i <= m /\ GroupOf[m] < GroupOf[i]
  BY <1>3
<1>5. m # i
  BY <1>4, GroupType
<1>6. m # 0 /\ i <= m - 1 /\ m - 1 < m
  BY <1>4, <1>5, TerminalIs
<1>7. m - 1 \in 0..Terminal /\ (GroupOf[m] = GroupOf[m - 1] \/ GroupOf[m] = GroupOf[m - 1] + 1)
  BY <1>4, <1>6, GroupSteps
<1>8. m - 1 \notin T
  BY <1>3, <1>4, <1>6, TerminalIs
<1>9. ~(GroupOf[m - 1] < GroupOf[i])
  BY <1>6, <1>7, <1>8
<1>10. GroupOf[m - 1] \in Nat /\ GroupOf[i] \in Nat /\ GroupOf[m] \in Nat
  BY <1>4, <1>7, GroupType
<1> QED
  BY <1>4, <1>7, <1>9, <1>10

LEMMA Between ==
    ASSUME layout \in Layouts, NEW i \in 0..Terminal, NEW j \in 0..Terminal, NEW m \in 0..Terminal,
           i <= m, m <= j, GroupOf[i] = GroupOf[j]
    PROVE  GroupOf[m] = GroupOf[i]
<1>1. GroupOf[i] <= GroupOf[m] /\ GroupOf[m] <= GroupOf[j]
  BY InOrder
<1> QED
  BY <1>1, GroupType

LEMMA RootIsFirst ==
    ASSUME layout \in Layouts, NEW k \in 0..Terminal, IsRoot(k), NEW j \in 0..Terminal,
           GroupOf[j] = GroupOf[k]
    PROVE  k <= j
<1> SUFFICES ASSUME j < k PROVE FALSE
  BY TerminalIs
<1>1. k # 0 /\ j <= k - 1 /\ k - 1 <= k
  BY TerminalIs
<1>2. k - 1 \in 0..Terminal
  BY <1>1, GroupSteps
<1>3. GroupOf[k - 1] = GroupOf[j]
  BY <1>1, <1>2, Between
<1> QED
  BY <1>1, <1>3 DEF IsRoot

LEMMA RootIs ==
    ASSUME layout \in Layouts, NEW g \in 0..G - 1
    PROVE  RootOf(g) \in 0..Terminal /\ IsRoot(RootOf(g)) /\ GroupOf[RootOf(g)] = g
<1> DEFINE T == {m \in 0..Terminal : GroupOf[m] >= g}
<1>1. g \in Nat /\ G \in Nat /\ g <= G - 1
  BY LayoutIs
<1>2. T \in SUBSET Nat /\ Terminal \in T
  BY <1>1, LayoutIs, TerminalIs
<1>3. PICK k \in T : \A y \in T : k <= y
  BY <1>2, Least
<1>4. k \in 0..Terminal /\ GroupOf[k] >= g /\ GroupOf[k] \in Nat /\ k \in Nat
  BY <1>3, GroupType
<1>5. IsRoot(k) /\ GroupOf[k] = g
  <2>1. CASE k = 0
    BY <1>1, <1>4, <2>1, LayoutIs DEF IsRoot
  <2>2. CASE k # 0
    <3>1. k - 1 \in 0..Terminal /\ (GroupOf[k] = GroupOf[k - 1] \/ GroupOf[k] = GroupOf[k - 1] + 1)
      BY <1>4, <2>2, GroupSteps
    <3>2. ~(k <= k - 1)
      BY <1>4
    <3>3. k - 1 \notin T
      BY <1>3, <3>2
    <3>4. ~(GroupOf[k - 1] >= g) /\ GroupOf[k - 1] \in Nat
      BY <3>1, <3>3, GroupType
    <3> QED
      BY <1>1, <1>4, <3>1, <3>4 DEF IsRoot
  <2> QED
    BY <2>1, <2>2
<1>6. \E m \in 0..Terminal : IsRoot(m) /\ GroupOf[m] = g
  BY <1>4, <1>5
<1> QED
  BY <1>6 DEF RootOf

LEMMA TheRoot ==
    ASSUME layout \in Layouts, NEW k \in 0..Terminal, IsRoot(k)
    PROVE  RootOf(GroupOf[k]) = k
<1>1. GroupOf[k] \in 0..G - 1
  BY GroupType
<1>2. /\ RootOf(GroupOf[k]) \in 0..Terminal /\ IsRoot(RootOf(GroupOf[k]))
      /\ GroupOf[RootOf(GroupOf[k])] = GroupOf[k]
  BY <1>1, RootIs
<1>3. k <= RootOf(GroupOf[k]) /\ RootOf(GroupOf[k]) <= k
  BY <1>2, RootIsFirst
<1> QED
  BY <1>2, <1>3, TerminalIs

\* The chunks of the group a root begins.
LEMMA GroupIs ==
    ASSUME layout \in Layouts, NEW k \in 0..Terminal, IsRoot(k)
    PROVE  \E e \in k..Terminal :
              /\ Size(GroupOf[k]) = e - k + 1
              /\ \A j \in 0..Terminal : GroupOf[j] = GroupOf[k] <=> k <= j /\ j <= e
              /\ \A j \in k..e : IsTail(j) <=> j = e
<1> DEFINE Group == {j \in 0..Terminal : GroupOf[j] = GroupOf[k]}
           T == {m \in 0..Terminal : GroupOf[Terminal - m] = GroupOf[k]}
<1>1. Terminal - k \in T /\ T \in SUBSET Nat
  <2>1. Terminal - k \in 0..Terminal /\ Terminal - (Terminal - k) = k
    BY TerminalIs
  <2> QED
    BY <2>1, TerminalIs
<1>2. PICK m \in T : \A y \in T : m <= y
  BY <1>1, Least
<1> DEFINE e == Terminal - m
<1>3. e \in 0..Terminal /\ GroupOf[e] = GroupOf[k] /\ m \in 0..Terminal
  BY <1>2, TerminalIs
<1>4. ASSUME NEW j \in 0..Terminal, GroupOf[j] = GroupOf[k] PROVE k <= j /\ j <= e
  <2>1. Terminal - j \in 0..Terminal /\ Terminal - (Terminal - j) = j
    BY TerminalIs
  <2>2. Terminal - j \in T
    BY <1>4, <2>1
  <2>3. m <= Terminal - j
    BY <1>2, <2>2
  <2>4. j <= e
    BY <1>3, <2>1, <2>3, TerminalIs
  <2> QED
    BY <1>4, <2>4, RootIsFirst
<1>5. ASSUME NEW j \in 0..Terminal, k <= j, j <= e PROVE GroupOf[j] = GroupOf[k]
  BY <1>3, <1>5, Between
<1>6. k <= e
  BY <1>4
<1>7. Size(GroupOf[k]) = e - k + 1
  <2>1. Group = k..e
    <3> HIDE DEF e
    <3>1. \A j \in k..e : j \in 0..Terminal /\ k <= j /\ j <= e
      BY <1>3, TerminalIs
    <3>2. \A j \in 0..Terminal : k <= j /\ j <= e => j \in k..e
      BY <1>3, TerminalIs
    <3> QED
      BY <1>4, <1>5, <3>1, <3>2
  <2>2. k \in Int /\ e \in Int /\ ~(k > e)
    BY <1>3, <1>6, TerminalIs
  <2>3. Cardinality(k..e) = e - k + 1
    <3> HIDE DEF e
    <3> QED
      BY <2>2, FS_Interval
  <2> QED
    BY <2>1, <2>3 DEF Size
<1>8. ASSUME NEW j \in k..e PROVE IsTail(j) <=> j = e
  <2> HIDE DEF e
  <2>1. CASE j = e
    <3>1. ASSUME e # Terminal PROVE GroupOf[e + 1] # GroupOf[e]
      <4>1. e + 1 \in 0..Terminal /\ ~(e + 1 <= e)
        BY <1>3, <3>1, TerminalIs
      <4> QED
        BY <1>3, <1>4, <4>1
    <3> QED
      BY <2>1, <3>1 DEF IsTail
  <2>2. CASE j # e
    <3>1. /\ j \in 0..Terminal /\ k <= j /\ j <= e
          /\ j + 1 \in 0..Terminal /\ k <= j + 1 /\ j + 1 <= e /\ j # Terminal
      BY <1>3, <2>2, TerminalIs
    <3>2. GroupOf[j] = GroupOf[k] /\ GroupOf[j + 1] = GroupOf[k]
      BY <1>5, <3>1
    <3> QED
      BY <2>2, <3>1, <3>2 DEF IsTail
  <2> QED
    BY <2>1, <2>2
<1>9. e \in k..Terminal
  <2> HIDE DEF e
  <2> QED
    BY <1>3, <1>6, TerminalIs
<1> QED
  BY <1>4, <1>5, <1>7, <1>8, <1>9

(***************************************************************************)
(* What the ledger keeps: every input of every transaction is an output    *)
(* made before, and the scripts of all of them accepted it.                *)
(***************************************************************************)
Tx == [ins : Seq(Nat \X Nat), arg : Seq(Arg), outs : Seq(Output)]

Accepted(s, arg, outs) ==
    /\ \A i \in Chunked(s) :
          /\ Position(s[i].lock, i, s)
          /\ Takes(s[i].lock, i, s, arg)
          /\ Hands(s[i].lock, i, s, arg, outs[1])
    /\ s # <<>> => Tokens(s, outs)

Logged(t) ==
    \E tx \in Tx, s \in Seq(Output) :
        /\ txs[t] = tx
        /\ \A i \in DOMAIN tx.ins : tx.ins[i] \in Made /\ tx.ins[i][1] < t
        /\ s = Spent(tx.ins)
        /\ Accepted(s, tx.arg, tx.outs)

LedgerOK ==
    /\ layout \in Layouts
    /\ txs \in Seq(Tx) /\ Len(txs) > 0 /\ utxo \subseteq Made
    /\ txs[1].ins = <<>>
    /\ \A t \in DOMAIN txs : Logged(t)

Published(ins, arg, outs) ==
    /\ ins \in Seq(utxo) /\ ins # <<>>
    /\ arg \in Seq(Arg) /\ outs \in Seq(Output)
    /\ Accepted(Spent(ins), arg, outs)
    /\ txs' = Append(txs, [ins |-> ins, arg |-> arg, outs |-> outs])
    /\ utxo' = (utxo \ Range(ins)) \cup {<<Len(txs) + 1, j>> : j \in DOMAIN outs}
    /\ layout' = layout

LEMMA SameLayout ==
    ASSUME layout' = layout, NEW s, NEW arg, NEW outs
    PROVE  Accepted(s, arg, outs)' <=> Accepted(s, arg, outs)
<1>1. \A i : Position(s[i].lock, i, s)' <=> Position(s[i].lock, i, s)
  BY DEF Position, Counts, Stands, PinsNext, OneThread, Size, RootOf, IsRoot, IsTail,
         GroupOf, G, Indexed
<1>2. \A i : Takes(s[i].lock, i, s, arg)' <=> Takes(s[i].lock, i, s, arg)
  BY DEF Takes, Runs, Sees, CarrierInput, Opens, Forwards, Borrows, Carrier, RootOf,
         IsRoot, IsTail, GroupOf
<1>3. \A i : Hands(s[i].lock, i, s, arg, outs[1])' <=> Hands(s[i].lock, i, s, arg, outs[1])
  BY DEF Hands, IsTail, GroupOf
<1> QED
  BY <1>1, <1>2, <1>3 DEF Accepted

LEMMA MadeIs ==
    ASSUME txs \in Seq(Tx), NEW p \in Made
    PROVE  /\ p = <<p[1], p[2]>> /\ p[1] \in DOMAIN txs /\ p[2] \in DOMAIN txs[p[1]].outs
           /\ Out(p) \in Output /\ p \in Nat \X Nat
<1>1. p = <<p[1], p[2]>> /\ p[1] \in DOMAIN txs /\ p[2] \in DOMAIN txs[p[1]].outs
  BY DEF Made
<1>2. txs[p[1]] \in Tx
  BY <1>1
<1>3. txs[p[1]].outs \in Seq(Output)
  BY <1>2 DEF Tx
<1> QED
  BY <1>1, <1>3 DEF Out

LEMMA ShortSeqs ==
    ASSUME NEW S, NEW a \in S, NEW b \in S
    PROVE  <<a>> \in Seq(S) /\ <<a, b>> \in Seq(S)
OBVIOUS

\* Every step appends one transaction whose inputs' scripts accepted it.
LEMMA NextPublishes ==
    ASSUME LedgerOK, Next
    PROVE  \E ins, arg, outs : Published(ins, arg, outs)
<1>1. PICK ins \in Ins : Publish(ins) /\ UNCHANGED layout
  BY DEF Next
<1> DEFINE s == Spent(ins)
<1>2. PICK arg \in Args(s) :
        /\ arg \in Seq(Arg)
        /\ \A i \in Chunked(s) : Takes(s[i].lock, i, s, arg)
        /\ \E outs \in Outs(s, arg) :
              /\ Tokens(s, outs)
              /\ txs' = Append(txs, [ins |-> ins, arg |-> arg, outs |-> outs])
              /\ utxo' = (utxo \ Range(ins)) \cup {<<Len(txs) + 1, j>> : j \in DOMAIN outs}
  BY <1>1, Zenon DEF Publish
<1>3. PICK outs \in Outs(s, arg) :
        /\ Tokens(s, outs)
        /\ txs' = Append(txs, [ins |-> ins, arg |-> arg, outs |-> outs])
        /\ utxo' = (utxo \ Range(ins)) \cup {<<Len(txs) + 1, j>> : j \in DOMAIN outs}
  BY <1>2
<1>4. \A i \in Chunked(s) : Position(s[i].lock, i, s)
  BY <1>1, Zenon DEF Publish
<1>5. ins \in Seq(utxo) /\ ins # <<>>
  <2>1. layout.maxIn \in Nat
    BY LinkedAssumption DEF LedgerOK, IsLayout
  <2>2. PICK n \in 1..layout.maxIn : ins \in [1..n -> utxo]
    BY <1>1 DEF Ins
  <2>3. n \in Nat /\ n >= 1 /\ ins \in Seq(utxo)
    BY <2>1, <2>2
  <2> QED
    BY <2>2, <2>3
<1> DEFINE out0 == {o \in layout.offered : \A i \in Chunked(s) : Hands(s[i].lock, i, s, arg, o)}
<1>6. outs \in {<<o>> : o \in out0} \cup {<<o, q>> : o \in out0, q \in layout.offered}
  <2>1. Outs(s, arg)
          \subseteq {<<o>> : o \in out0} \cup {<<o, q>> : o \in out0, q \in layout.offered}
    <3> HIDE DEF s
    <3>1. CASE layout.maxOuts < 2
      BY <3>1 DEF Outs
    <3>2. CASE ~(layout.maxOuts < 2)
      BY <3>2 DEF Outs
    <3> QED
      BY <3>1, <3>2
  <2> QED
    BY <1>3, <2>1
<1>7. layout.offered \subseteq Output
  BY LinkedAssumption DEF LedgerOK, IsLayout
<1>8. outs \in Seq(Output) /\ outs[1] \in out0
  <2> HIDE DEF s, out0
  <2>1. out0 \subseteq Output
    BY <1>7 DEF out0
  <2>2. CASE \E o \in out0 : outs = <<o>>
    BY <2>1, <2>2, ShortSeqs
  <2>3. CASE \E o \in out0, q \in layout.offered : outs = <<o, q>>
    <3>1. PICK o \in out0, q \in layout.offered : outs = <<o, q>>
      BY <2>3
    <3>2. o \in Output /\ q \in Output
      BY <2>1, <1>7
    <3> QED
      BY <3>1, <3>2, ShortSeqs
  <2> QED
    BY <1>6, <2>2, <2>3
<1>9. Accepted(s, arg, outs)
  <2> HIDE DEF s
  <2> QED
    BY <1>2, <1>3, <1>4, <1>8 DEF Accepted
<1> QED
  BY <1>1, <1>2, <1>3, <1>5, <1>8, <1>9 DEF Published

LEMMA SpentIs ==
    ASSUME txs \in Seq(Tx), NEW ins \in Seq(Made)
    PROVE  /\ Spent(ins) \in Seq(Output) /\ DOMAIN Spent(ins) = DOMAIN ins
           /\ Len(Spent(ins)) = Len(ins)
           /\ \A i \in DOMAIN ins : Spent(ins)[i] = Out(ins[i])
<1>1. \A i \in DOMAIN ins : Out(ins[i]) \in Output
  BY MadeIs
<1>2. DOMAIN ins = 1..Len(ins) /\ Len(ins) \in Nat
  OBVIOUS
<1>3. Spent(ins) \in [1..Len(ins) -> Output]
  BY <1>1, <1>2 DEF Spent
<1> QED
  BY <1>2, <1>3 DEF Spent

\* The log only grows: what was made stays as it was.
LEMMA LogGrows ==
    ASSUME LedgerOK, NEW ins, NEW arg, NEW outs, Published(ins, arg, outs)
    PROVE  /\ ins \in Seq(Made)
           /\ [ins |-> ins, arg |-> arg, outs |-> outs] \in Tx
           /\ txs' \in Seq(Tx) /\ Len(txs') = Len(txs) + 1
           /\ DOMAIN txs \subseteq DOMAIN txs' /\ Len(txs) + 1 \in DOMAIN txs'
           /\ \A t \in DOMAIN txs : txs'[t] = txs[t]
           /\ txs'[Len(txs) + 1] = [ins |-> ins, arg |-> arg, outs |-> outs]
           /\ \A p \in Made : p \in Made' /\ Out(p)' = Out(p)
<1> DEFINE tx == [ins |-> ins, arg |-> arg, outs |-> outs]
<1>1. utxo \subseteq Made /\ txs \in Seq(Tx) /\ Made \subseteq Nat \X Nat
  BY MadeIs DEF LedgerOK
<1>2. ins \in Seq(Made) /\ ins \in Seq(Nat \X Nat)
  BY <1>1 DEF Published
<1>3. tx \in Tx
  BY <1>2 DEF Published, Tx
<1>4. txs' = Append(txs, tx)
  BY DEF Published
<1> HIDE DEF tx
<1>5. /\ txs' \in Seq(Tx) /\ Len(txs') = Len(txs) + 1
      /\ \A t \in DOMAIN txs : txs'[t] = txs[t]
      /\ txs'[Len(txs) + 1] = tx
  BY <1>1, <1>3, <1>4, AppendProperties
<1>6. DOMAIN txs \subseteq DOMAIN txs' /\ Len(txs) + 1 \in DOMAIN txs'
  BY <1>1, <1>5
<1>7. ASSUME NEW p \in Made
      PROVE  p \in Made' /\ Out(p)' = Out(p)
  <2>1. p = <<p[1], p[2]>> /\ p[1] \in DOMAIN txs /\ p[2] \in DOMAIN txs[p[1]].outs
    BY <1>1, MadeIs
  <2>2. txs'[p[1]] = txs[p[1]] /\ p[1] \in DOMAIN txs'
    BY <2>1, <1>5, <1>6
  <2> QED
    BY <2>1, <2>2 DEF Made, Out
<1> QED
  BY <1>2, <1>3, <1>5, <1>6, <1>7 DEF tx

LEMMA LedgerInit == Init => LedgerOK
<1> SUFFICES ASSUME Init PROVE LedgerOK
  OBVIOUS
<1>1. PICK outs \in layout.issue :
        txs = <<[ins |-> <<>>, arg |-> <<>>, outs |-> outs]>>
  BY DEF Init
<1>2. layout \in Layouts /\ outs \in Seq(Output)
  <2>1. layout \in Layouts
    BY DEF Init
  <2>2. layout.issue \subseteq Seq(Output)
    BY <2>1, LinkedAssumption DEF IsLayout
  <2> QED
    BY <1>1, <2>1, <2>2
<1> DEFINE tx == [ins |-> <<>>, arg |-> <<>>, outs |-> outs]
<1>3. tx \in Tx
  BY <1>2 DEF Tx
<1>4. txs \in Seq(Tx) /\ Len(txs) = 1 /\ DOMAIN txs = {1} /\ txs[1] = tx
  BY <1>1, <1>3
<1>5. utxo = {<<1, j>> : j \in DOMAIN txs[1].outs}
  BY DEF Init
<1>6. utxo \subseteq Made
  BY <1>4, <1>5 DEF Made
<1>7. Spent(<<>>) = <<>> /\ <<>> \in Seq(Output) /\ Chunked(<<>>) = {}
  BY DEF Spent, Chunked
<1>8. \A a, o : Accepted(<<>>, a, o)
  BY <1>7 DEF Accepted
<1>9. Logged(1)
  <2>1. tx.ins = <<>> /\ DOMAIN tx.ins = {}
    OBVIOUS
  <2> HIDE DEF tx
  <2>2. Spent(tx.ins) = <<>> /\ \A i \in DOMAIN tx.ins : tx.ins[i] \in Made /\ tx.ins[i][1] < 1
    BY <2>1, <1>7
  <2> QED
    BY <1>3, <1>4, <1>7, <1>8, <2>2 DEF Logged
<1>10. txs[1].ins = <<>>
  BY <1>4
<1> QED
  BY <1>2, <1>4, <1>6, <1>9, <1>10 DEF LedgerOK

LEMMA LedgerNext == LedgerOK /\ [Next]_vars => LedgerOK'
<1> SUFFICES ASSUME LedgerOK, [Next]_vars PROVE LedgerOK'
  OBVIOUS
<1>1. CASE UNCHANGED vars
  <2>1. txs' = txs /\ utxo' = utxo /\ layout' = layout /\ Made' = Made /\ \A p : Out(p)' = Out(p)
    BY <1>1 DEF vars, Made, Out
  <2>2. \A t : Logged(t)' <=> Logged(t)
    BY <2>1, SameLayout DEF Logged, Spent
  <2> QED
    BY <2>1, <2>2 DEF LedgerOK
<1>2. CASE Next
  <2>1. PICK ins, arg, outs : Published(ins, arg, outs)
    BY <1>2, NextPublishes
  <2>0. PICK n \in Nat : n = Len(txs) + 1
    BY DEF LedgerOK
  <2> DEFINE new == [ins |-> ins, arg |-> arg, outs |-> outs]
  <2>2. /\ ins \in Seq(Made) /\ new \in Tx
        /\ txs' \in Seq(Tx) /\ Len(txs') = n
        /\ DOMAIN txs \subseteq DOMAIN txs' /\ n \in DOMAIN txs'
        /\ \A t \in DOMAIN txs : txs'[t] = txs[t]
        /\ txs'[n] = new
        /\ \A p \in Made : p \in Made' /\ Out(p)' = Out(p)
    BY <2>0, <2>1, LogGrows
  <2>3. Len(txs) \in Nat /\ Len(txs) > 0 /\ DOMAIN txs = 1..Len(txs) /\ DOMAIN txs' = 1..n
        /\ txs \in Seq(Tx) /\ layout' = layout
    BY <2>0, <2>1, <2>2 DEF LedgerOK, Published
  <2>4. utxo' \subseteq Made'
    <3>1. utxo \subseteq Made'
      BY <2>2 DEF LedgerOK
    <3>2. \A j \in DOMAIN outs : <<n, j>> \in Made'
      BY <2>2 DEF Made
    <3> QED
      BY <3>1, <3>2, <2>0, <2>1 DEF Published
  <2>5. txs'[1].ins = <<>>
    BY <2>2, <2>3 DEF LedgerOK
  <2>6. ASSUME NEW t \in DOMAIN txs
        PROVE  Logged(t)'
    <3>1. PICK tx \in Tx, s \in Seq(Output) :
            /\ txs[t] = tx
            /\ \A i \in DOMAIN tx.ins : tx.ins[i] \in Made /\ tx.ins[i][1] < t
            /\ s = Spent(tx.ins)
            /\ Accepted(s, tx.arg, tx.outs)
      BY DEF LedgerOK, Logged
    <3>2. txs'[t] = tx
      BY <3>1, <2>2
    <3>3. \A i \in DOMAIN tx.ins : tx.ins[i] \in Made' /\ tx.ins[i][1] < t
      BY <3>1, <2>2
    <3>4. s = Spent(tx.ins)'
      BY <3>1, <2>2 DEF Spent
    <3>5. Accepted(s, tx.arg, tx.outs)'
      BY <3>1, <2>3, SameLayout
    <3> QED
      BY <3>2, <3>3, <3>4, <3>5 DEF Logged
  <2>7. Logged(n)'
    <3>1. PICK s \in Seq(Output) : s = Spent(ins)
      BY <2>2, <2>3, SpentIs
    <3>2. \A i \in DOMAIN ins : ins[i] \in Made' /\ ins[i][1] < n
      <4> TAKE i \in DOMAIN ins
      <4>1. ins[i] \in Made
        BY <2>2
      <4>2. ins[i][1] \in DOMAIN txs
        BY <4>1, <2>3, MadeIs
      <4> QED
        BY <4>1, <4>2, <2>0, <2>2, <2>3
    <3>3. s = Spent(ins)'
      BY <3>1, <2>2 DEF Spent
    <3>4. Accepted(s, arg, outs)'
      BY <3>1, <2>1, <2>3, SameLayout DEF Published
    <3>5. new.ins = ins /\ new.arg = arg /\ new.outs = outs
      OBVIOUS
    <3> HIDE DEF new
    <3> QED
      BY <3>2, <3>3, <3>4, <3>5, <2>2 DEF Logged
  <2>8. \A t \in DOMAIN txs' : Logged(t)'
    <3>1. \A t \in DOMAIN txs' : t \in DOMAIN txs \/ t = n
      BY <2>0, <2>3
    <3> QED
      BY <3>1, <2>6, <2>7
  <2>9. layout' \in Layouts
    BY <2>3 DEF LedgerOK
  <2> QED
    BY <2>0, <2>2, <2>3, <2>4, <2>5, <2>8, <2>9 DEF LedgerOK
<1> QED
  BY <1>1, <1>2

\* Type correctness, and every transaction on the ledger was accepted by the
\* scripts of the outputs it spends and by the token rules (Linked.Spec).
THEOREM LedgerCorrect == Spec => []LedgerOK
BY LedgerInit, LedgerNext, PTL DEF Spec

(***************************************************************************)
(* A transaction that spends the root of a group runs that group.          *)
(***************************************************************************)
LEMMA TxIs ==
    ASSUME LedgerOK, NEW t \in DOMAIN txs
    PROVE  /\ txs[t] \in Tx
           /\ Spent(txs[t].ins) \in Seq(Output)
           /\ DOMAIN Spent(txs[t].ins) = DOMAIN txs[t].ins
           /\ Len(Spent(txs[t].ins)) = Len(txs[t].ins)
           /\ \A i \in DOMAIN txs[t].ins :
                 /\ Spent(txs[t].ins)[i] = Out(txs[t].ins[i])
                 /\ txs[t].ins[i] \in Made /\ txs[t].ins[i][1] < t
           /\ Accepted(Spent(txs[t].ins), txs[t].arg, txs[t].outs)
<1>1. PICK tx \in Tx, s \in Seq(Output) :
        /\ txs[t] = tx
        /\ \A i \in DOMAIN tx.ins : tx.ins[i] \in Made /\ tx.ins[i][1] < t
        /\ s = Spent(tx.ins)
        /\ Accepted(s, tx.arg, tx.outs)
  BY DEF LedgerOK, Logged
<1>2. tx.ins \in Seq(Nat \X Nat)
  BY DEF Tx
<1>3. tx.ins \in Seq(Made)
  <2> DEFINE ins == tx.ins
  <2>1. ins \in Seq(Nat \X Nat) /\ \A i \in DOMAIN ins : ins[i] \in Made
    BY <1>1, <1>2
  <2> HIDE DEF ins
  <2>2. Len(ins) \in Nat /\ DOMAIN ins = 1..Len(ins) /\ ins = [i \in 1..Len(ins) |-> ins[i]]
    BY <2>1
  <2>3. ins \in [1..Len(ins) -> Made]
    BY <2>1, <2>2
  <2>4. ins \in Seq(Made)
    BY <2>2, <2>3
  <2> QED
    BY <2>4 DEF ins
<1>4. txs \in Seq(Tx)
  BY DEF LedgerOK
<1> QED
  BY <1>1, <1>3, <1>4, SpentIs

LEMMA LockType ==
    ASSUME NEW o \in Output, o.lock # FREE
    PROVE  o.lock \in 0..Terminal
BY TerminalIs DEF Output, Lock, FREE

\* From the root on, each input is at the lock after the one before.
LEMMA Chain ==
    ASSUME layout \in Layouts, NEW s \in Seq(Output), NEW arg, NEW outs, Accepted(s, arg, outs),
           NEW i \in DOMAIN s, NEW k \in 0..Terminal, s[i].lock = k, IsRoot(k),
           NEW e \in k..Terminal, \A j \in k..e : IsTail(j) <=> j = e
    PROVE  \A m \in 0..e - k : i + m \in DOMAIN s /\ s[i + m].lock = k + m
<1> DEFINE T == {m \in 0..e - k : ~(i + m \in DOMAIN s /\ s[i + m].lock = k + m)}
<1>a. Terminal \in Nat /\ FREE = Terminal + 1
  BY TerminalIs
<1>b. Len(s) \in Nat /\ DOMAIN s = 1..Len(s)
  OBVIOUS
<1>0. k \in Nat /\ e \in Nat /\ k <= e /\ e <= Terminal /\ Terminal \in Nat /\ FREE = Terminal + 1
      /\ i \in Nat /\ Len(s) \in Nat /\ DOMAIN s = 1..Len(s) /\ i >= 1
  BY <1>a, <1>b
<1>1. SUFFICES ASSUME T # {} PROVE FALSE
  OBVIOUS
<1>2. T \in SUBSET Nat
  BY <1>0
<1>3. PICK m \in T : \A y \in T : m <= y
  BY <1>1, <1>2, Least
<1>4. m \in 0..e - k /\ m \in Nat /\ ~(i + m \in DOMAIN s /\ s[i + m].lock = k + m)
  BY <1>0, <1>3
<1>5. m # 0
  BY <1>0, <1>4
<1>6. PICK q \in Nat : m = q + 1
  <2>1. m - 1 \in Nat /\ m = (m - 1) + 1
    BY <1>4, <1>5
  <2> QED
    BY <2>1
<1>7. q \in 0..e - k /\ ~(m <= q)
  BY <1>0, <1>4, <1>6
<1>8. i + q \in DOMAIN s /\ s[i + q].lock = k + q
  BY <1>3, <1>7
<1>9. k + q \in k..e /\ k + q # e /\ k + q # FREE
  BY <1>0, <1>4, <1>6, <1>7
<1>10. ~IsTail(k + q)
  BY <1>9
<1>11. i + q \in Chunked(s)
  BY <1>8, <1>9 DEF Chunked
<1>12. Position(k + q, i + q, s)
  BY <1>8, <1>11 DEF Accepted
<1>13. i + q < Len(s) /\ s[i + q + 1].lock = k + q + 1
  BY <1>10, <1>12 DEF Position, PinsNext
<1>14. i + q + 1 = i + m /\ k + q + 1 = k + m /\ i + q + 1 \in 1..Len(s)
  BY <1>0, <1>6, <1>13
<1> QED
  BY <1>0, <1>4, <1>13, <1>14

LEMMA WholeGroup ==
    ASSUME layout \in Layouts, NEW s \in Seq(Output), NEW arg, NEW outs, Accepted(s, arg, outs),
           NEW i \in DOMAIN s, NEW k \in 0..Terminal, s[i].lock = k, IsRoot(k)
    PROVE  /\ i = 1 /\ Len(s) = Size(GroupOf[k])
           /\ \A j \in DOMAIN s : s[j].lock = k + j - 1
<1>0. k \in Nat /\ Terminal \in Nat /\ FREE = Terminal + 1 /\ k # FREE
      /\ i \in Nat /\ Len(s) \in Nat /\ DOMAIN s = 1..Len(s) /\ i >= 1 /\ i <= Len(s)
  BY TerminalIs
<1>1. PICK e \in k..Terminal :
        /\ Size(GroupOf[k]) = e - k + 1
        /\ \A j \in 0..Terminal : GroupOf[j] = GroupOf[k] <=> k <= j /\ j <= e
        /\ \A j \in k..e : IsTail(j) <=> j = e
  BY GroupIs
<1>2. \A m \in 0..e - k : i + m \in DOMAIN s /\ s[i + m].lock = k + m
  BY <1>1, Chain
<1>3. i \in Chunked(s)
  BY <1>0 DEF Chunked
<1>4. Position(k, i, s)
  BY <1>3 DEF Accepted
<1>5. Len(s) = e - k + 1
  BY <1>1, <1>4 DEF Position, Counts
<1>6. i = 1
  <2>1. e \in Nat /\ k <= e /\ e - k \in 0..e - k
    BY <1>0
  <2>2. i + (e - k) \in DOMAIN s
    BY <1>2, <2>1
  <2>3. i + (e - k) <= Len(s)
    BY <1>0, <2>2
  <2> QED
    BY <1>0, <1>5, <2>1, <2>3
<1>7. ASSUME NEW j \in DOMAIN s PROVE s[j].lock = k + j - 1
  <2>1. j \in Nat /\ 1 <= j /\ j <= Len(s) /\ e \in Nat
    BY <1>0
  <2>2. j - 1 \in 0..e - k /\ 1 + (j - 1) = j /\ k + (j - 1) = k + j - 1
    BY <1>0, <1>5, <2>1
  <2> QED
    BY <1>2, <1>6, <2>2
<1> QED
  BY <1>1, <1>5, <1>6, <1>7

\* No transaction of chunks from several places, or of a part of a group, ever
\* spends a root, for any number of chunks and any layout (Linked.RunsWhole).
THEOREM GroupsRunWhole == Spec => []RunsWhole
<1>1. LedgerOK => RunsWhole
  <2> SUFFICES ASSUME LedgerOK, NEW t \in DOMAIN txs, NEW i \in DOMAIN txs[t].ins,
                      NEW k, k = Out(txs[t].ins[i]).lock, k # FREE, IsRoot(k)
               PROVE  /\ i = 1 /\ Len(txs[t].ins) = Size(GroupOf[k])
                      /\ \A j \in DOMAIN txs[t].ins : Out(txs[t].ins[j]).lock = k + j - 1
    BY DEF RunsWhole
  <2> DEFINE s == Spent(txs[t].ins)
  <2>1. /\ s \in Seq(Output) /\ DOMAIN s = DOMAIN txs[t].ins /\ Len(s) = Len(txs[t].ins)
        /\ \A j \in DOMAIN txs[t].ins : s[j] = Out(txs[t].ins[j])
        /\ Accepted(s, txs[t].arg, txs[t].outs)
    BY TxIs
  <2>2. layout \in Layouts
    BY DEF LedgerOK
  <2> HIDE DEF s
  <2>3. i \in DOMAIN s /\ s[i].lock = k /\ s[i] \in Output
    BY <2>1
  <2>4. k \in 0..Terminal
    BY <2>3, LockType
  <2>5. /\ i = 1 /\ Len(s) = Size(GroupOf[k])
        /\ \A j \in DOMAIN s : s[j].lock = k + j - 1
    BY <2>1, <2>2, <2>3, <2>4, WholeGroup
  <2> QED
    BY <2>1, <2>5
<1> QED
  BY <1>1, LedgerCorrect, PTL

(***************************************************************************)
(* A walk.  Chunk k stands at Place(k) of the transaction of its group.    *)
(* Seen is the state it works on, and Got the state it computes.           *)
(***************************************************************************)
Place(k) == k - RootOf(GroupOf[k]) + 1
SpentAt(c, k) == Spent(txs[c[GroupOf[k]]].ins)
ArgOf(c, k) == txs[c[GroupOf[k]]].arg
Out0(c, k) == txs[c[GroupOf[k]]].outs[1]
Seen(c, k) == Sees(k, Place(k), ArgOf(c, k))
Got(c, k) == ArgOf(c, k)[Place(k)].out

LEMMA WalkTx ==
    ASSUME LedgerOK, NEW c \in Walks, NEW g \in 0..G - 1
    PROVE  /\ c[g] \in DOMAIN txs
           /\ 1 \in DOMAIN txs[c[g]].ins
           /\ Spent(txs[c[g]].ins)[1] = Input0(c[g])
           /\ Len(Spent(txs[c[g]].ins)) = Size(g)
           /\ \A j \in DOMAIN Spent(txs[c[g]].ins) :
                 Spent(txs[c[g]].ins)[j].lock = RootOf(g) + j - 1
<1> DEFINE s == Spent(txs[c[g]].ins)
           r == RootOf(g)
<1>1. c[g] \in DOMAIN txs /\ txs[c[g]].ins # <<>> /\ Input0(c[g]).lock = r
  BY DEF Walks, Walk
<1>2. layout \in Layouts
  BY DEF LedgerOK
<1>3. r \in 0..Terminal /\ IsRoot(r) /\ GroupOf[r] = g
  BY <1>2, RootIs
<1>4. /\ txs[c[g]] \in Tx /\ s \in Seq(Output) /\ DOMAIN s = DOMAIN txs[c[g]].ins
      /\ \A i \in DOMAIN txs[c[g]].ins : s[i] = Out(txs[c[g]].ins[i])
      /\ Accepted(s, txs[c[g]].arg, txs[c[g]].outs)
  BY <1>1, TxIs
<1>5. txs[c[g]].ins \in Seq(Nat \X Nat)
  BY <1>4 DEF Tx
<1>6. 1 \in DOMAIN txs[c[g]].ins
  BY <1>1, <1>5
<1>7. s[1] = Input0(c[g]) /\ 1 \in DOMAIN s
  BY <1>4, <1>6 DEF Input0
<1> HIDE DEF s, r
<1>8. Len(s) = Size(GroupOf[r]) /\ \A j \in DOMAIN s : s[j].lock = r + j - 1
  <2>1. s[1].lock = r
    BY <1>1, <1>7
  <2> QED
    BY <1>2, <1>3, <1>4, <1>7, <2>1, WholeGroup
<1> QED
  BY <1>1, <1>3, <1>6, <1>7, <1>8 DEF s, r

LEMMA OnWalk ==
    ASSUME LedgerOK, NEW c \in Walks, NEW k \in 0..Terminal
    PROVE  /\ Place(k) \in DOMAIN SpentAt(c, k) /\ SpentAt(c, k)[Place(k)].lock = k
           /\ Position(k, Place(k), SpentAt(c, k))
           /\ Takes(k, Place(k), SpentAt(c, k), ArgOf(c, k))
           /\ Hands(k, Place(k), SpentAt(c, k), ArgOf(c, k), Out0(c, k))
<1> DEFINE g == GroupOf[k]
           r == RootOf(g)
           s == SpentAt(c, k)
<1>1. layout \in Layouts
  BY DEF LedgerOK
<1>2. g \in 0..G - 1
  BY <1>1, GroupType
<1>3. r \in 0..Terminal /\ IsRoot(r) /\ GroupOf[r] = g
  BY <1>1, <1>2, RootIs
<1>4. PICK e \in r..Terminal :
        /\ Size(GroupOf[r]) = e - r + 1
        /\ \A j \in 0..Terminal : GroupOf[j] = GroupOf[r] <=> r <= j /\ j <= e
  BY <1>1, <1>3, GroupIs
<1>5. r <= k /\ k <= e
  BY <1>3, <1>4
<1>6. /\ c[g] \in DOMAIN txs /\ Len(s) = Size(g)
      /\ \A j \in DOMAIN s : s[j].lock = r + j - 1
  BY <1>2, WalkTx DEF SpentAt
<1>7. /\ s \in Seq(Output) /\ Accepted(s, ArgOf(c, k), txs[c[g]].outs)
  BY <1>6, TxIs DEF SpentAt, ArgOf
<1>8. Place(k) = k - r + 1
  BY DEF Place
<1>9. Out0(c, k) = txs[c[g]].outs[1]
  BY DEF Out0
<1> HIDE DEF s, r, g
<1>10. Place(k) \in DOMAIN s /\ s[Place(k)].lock = k
  <2>1. Terminal \in Nat
    BY TerminalIs
  <2>2. r \in Nat /\ k \in Nat /\ e \in Nat
    BY <1>3, <2>1
  <2>3. Len(s) = e - r + 1
    BY <1>3, <1>4, <1>6
  <2>4. Place(k) \in 1..Len(s) /\ r + Place(k) - 1 = k
    BY <1>5, <1>8, <2>2, <2>3
  <2>5. DOMAIN s = 1..Len(s)
    BY <1>7
  <2> QED
    BY <1>6, <2>4, <2>5
<1>11. Place(k) \in Chunked(s)
  <2>1. k # FREE
    BY TerminalIs
  <2> QED
    BY <1>10, <2>1 DEF Chunked
<1>12. /\ Position(k, Place(k), s)
       /\ Takes(k, Place(k), s, ArgOf(c, k))
       /\ Hands(k, Place(k), s, ArgOf(c, k), Out0(c, k))
  BY <1>7, <1>9, <1>10, <1>11 DEF Accepted
<1> QED
  BY <1>10, <1>12 DEF s

LEMMA ChunkRuns ==
    ASSUME LedgerOK, NEW c \in Walks, NEW k \in 0..Terminal
    PROVE  /\ k = 0 => Seen(c, k) \in Statement /\ Got(c, k) \in Start[Seen(c, k)]
           /\ k \in 1..N - 2 => <<Seen(c, k), Got(c, k)>> \in Step[k]
           /\ k = Terminal => Seen(c, k) \in Accept
           /\ k # 0 => Seen(c, k) \in State
           /\ k # Terminal => Got(c, k) \in State
<1>1. Takes(k, Place(k), SpentAt(c, k), ArgOf(c, k))
  BY OnWalk
<1>2. Runs(k, Seen(c, k), Got(c, k))
  BY <1>1 DEF Takes, Seen, Got
<1>3. /\ k = 0 => Seen(c, k) \in Statement /\ Got(c, k) \in Start[Seen(c, k)]
      /\ k \in 1..N - 2 => <<Seen(c, k), Got(c, k)>> \in Step[k]
      /\ k = Terminal => Seen(c, k) \in Accept
  BY <1>2 DEF Runs, Genesis
<1> DEFINE x == Seen(c, k)
           y == Got(c, k)
<1> HIDE DEF x, y
<1>4. CASE k = 0
  <2>1. x \in Statement /\ y \in Start[x] /\ Start[x] \subseteq State /\ k # Terminal
    BY <1>3, <1>4, ChunksAssumption, TerminalIs DEF x, y
  <2>2. y \in State
    BY <2>1
  <2> QED
    BY <1>3, <1>4, <2>1, <2>2 DEF x, y
<1>5. CASE k = Terminal
  <2>1. x \in State
    BY <1>3, <1>5, ChunksAssumption DEF x
  <2> QED
    BY <1>3, <1>5, <2>1 DEF x
<1>6. CASE k # 0 /\ k # Terminal
  <2>1. k \in 1..N - 2
    BY <1>6, TerminalIs
  <2>2. <<x, y>> \in Step[k] /\ Step[k] \subseteq State \X State
    BY <1>3, <2>1, ChunksAssumption DEF x, y
  <2>3. x \in State /\ y \in State
    BY <2>2
  <2> QED
    BY <1>3, <1>6, <2>3 DEF x, y
<1> QED
  BY <1>4, <1>5, <1>6

(***************************************************************************)
(* Inside a group a chunk sees what the chunk before computed: it pushes   *)
(* it, or it pushes the dynamic part and the static part has not changed   *)
(* since the carrier.                                                      *)
(***************************************************************************)
LEMMA SameGroup ==
    ASSUME layout \in Layouts, NEW k \in 0..Terminal, k # 0, ~IsRoot(k)
    PROVE  /\ k - 1 \in 0..Terminal /\ GroupOf[k - 1] = GroupOf[k] /\ k - 1 + 1 = k
           /\ ~IsTail(k - 1) /\ k - 1 # Terminal
           /\ Place(k) = Place(k - 1) + 1
<1>1. k - 1 \in 0..Terminal /\ k - 1 + 1 = k /\ k - 1 # Terminal
  BY TerminalIs
<1>2. GroupOf[k - 1] = GroupOf[k]
  BY DEF IsRoot
<1>3. ~IsTail(k - 1)
  BY <1>1, <1>2 DEF IsTail
<1>4. RootOf(GroupOf[k]) \in Nat
  BY GroupType, RootIs, TerminalIs
<1>5. Place(k) = Place(k - 1) + 1
  BY <1>1, <1>2, <1>4, TerminalIs DEF Place
<1> QED
  BY <1>1, <1>2, <1>3, <1>5

LEMMA Forwarded ==
    ASSUME LedgerOK, NEW c \in Walks, NEW k \in 0..Terminal, k # 0, ~IsRoot(k)
    PROVE  ArgOf(c, k)[Place(k)].blob =
               IF k \in Borrows THEN Got(c, k - 1).dyn ELSE Got(c, k - 1)
<1>1. /\ k - 1 \in 0..Terminal /\ GroupOf[k - 1] = GroupOf[k] /\ k - 1 + 1 = k
      /\ ~IsTail(k - 1) /\ Place(k) = Place(k - 1) + 1
  BY SameGroup DEF LedgerOK
<1>2. Takes(k - 1, Place(k - 1), SpentAt(c, k - 1), ArgOf(c, k - 1))
  BY <1>1, OnWalk
<1>3. Forwards(k - 1, Place(k - 1), ArgOf(c, k - 1))
  BY <1>2 DEF Takes
<1>4. ArgOf(c, k - 1) = ArgOf(c, k)
  BY <1>1 DEF ArgOf
<1> QED
  BY <1>1, <1>3, <1>4 DEF Forwards, Got

LEMMA StaticKept ==
    ASSUME LedgerOK, NEW c \in Walks, NEW k \in 0..Terminal, k \in Borrows
    PROVE  \A m \in Carrier..k - 1 : Got(c, m).stat = ArgOf(c, k)[CarrierInput].blob.stat
<1> DEFINE S == ArgOf(c, k)[CarrierInput].blob.stat
           T == {m \in Carrier..k - 1 : Got(c, m).stat # S}
<1>1. layout \in Layouts
  BY DEF LedgerOK
<1>2. /\ Carrier \in 1..Terminal /\ Carrier \in 0..Terminal /\ Carrier < k
      /\ GroupOf[k] = GroupOf[Carrier] /\ Carrier \notin Borrows
  <2>1. Carrier \in 1..Terminal /\ Borrows \subseteq (Carrier + 1)..Terminal
    BY <1>1, LayoutIs
  <2>2. k \in (Carrier + 1)..Terminal /\ Terminal \in Nat
    BY <2>1, TerminalIs
  <2>3. Carrier \notin (Carrier + 1)..Terminal
    BY <2>1, <2>2
  <2>4. GroupOf[k] = GroupOf[Carrier]
    BY <1>1, LayoutIs
  <2> QED
    BY <2>1, <2>2, <2>3, <2>4
<1>3. ASSUME NEW m \in Carrier..k - 1
      PROVE  /\ m \in 0..Terminal /\ m \in 1..N - 2 /\ m \in Nat
             /\ GroupOf[m] = GroupOf[k] /\ ArgOf(c, m) = ArgOf(c, k)
             /\ Got(c, m).stat = Seen(c, m).stat
  <2>1. m \in 0..Terminal /\ m \in 1..N - 2 /\ m \in Nat /\ Carrier <= m /\ m <= k
    BY <1>2, TerminalIs
  <2>2. GroupOf[m] = GroupOf[k]
    BY <1>1, <1>2, <2>1, Between
  <2>3. ArgOf(c, m) = ArgOf(c, k)
    BY <2>2 DEF ArgOf
  <2>4. <<Seen(c, m), Got(c, m)>> \in Step[m]
    BY <2>1, ChunkRuns
  <2>5. \A e \in Step[m] : e[1].stat = e[2].stat
    <3>1. m \in layout.carrier..N - 2
      BY <1>2, <2>1, TerminalIs DEF Carrier
    <3> QED
      BY <1>1, <3>1, LinkedAssumption
  <2>6. Seen(c, m).stat = Got(c, m).stat
    BY <2>4, <2>5
  <2> QED
    BY <2>1, <2>2, <2>3, <2>6
<1>4. SUFFICES ASSUME T # {} PROVE FALSE
  OBVIOUS
<1>5. T \in SUBSET Nat
  BY <1>2, TerminalIs
<1>6. PICK m \in T : \A y \in T : m <= y
  BY <1>4, <1>5, Least
<1>7. m \in Carrier..k - 1 /\ Got(c, m).stat # S
  BY <1>6
<1>8. CASE m = Carrier
  <2>1. Place(Carrier) = CarrierInput
    BY DEF Place, CarrierInput
  <2>2. Seen(c, m) = ArgOf(c, m)[Place(m)].blob
    BY <1>2, <1>8 DEF Seen, Sees
  <2>3. Seen(c, m).stat = S
    BY <1>3, <1>7, <1>8, <2>1, <2>2
  <2> QED
    BY <1>3, <1>7, <2>3
<1>9. CASE m # Carrier
  <2>1. m - 1 \in Carrier..k - 1 /\ ~(m <= m - 1) /\ m # 0
    BY <1>2, <1>7, <1>9, TerminalIs
  <2>2. Got(c, m - 1).stat = S
    BY <1>6, <2>1
  <2>3. m \in 0..Terminal /\ GroupOf[m] = GroupOf[m - 1]
    BY <1>3, <1>7, <2>1
  <2>4. ~IsRoot(m)
    BY <2>1, <2>3 DEF IsRoot
  <2>5. Seen(c, m).stat = S
    <3>1. CASE m \in Borrows
      BY <3>1, <1>3, <1>7 DEF Seen, Sees
    <3>2. CASE m \notin Borrows
      <4>1. ArgOf(c, m)[Place(m)].blob = Got(c, m - 1)
        BY <3>2, <2>1, <2>3, <2>4, Forwarded
      <4> QED
        BY <3>2, <4>1, <2>2 DEF Seen, Sees
    <3> QED
      BY <3>1, <3>2
  <2> QED
    BY <1>3, <1>7, <2>5
<1> QED
  BY <1>8, <1>9

LEMMA Inside ==
    ASSUME LedgerOK, NEW c \in Walks, NEW k \in 0..Terminal, k # 0, ~IsRoot(k)
    PROVE  Seen(c, k) = Got(c, k - 1)
<1>1. /\ k - 1 \in 0..Terminal /\ k - 1 # Terminal
  BY SameGroup DEF LedgerOK
<1>2. ArgOf(c, k)[Place(k)].blob = IF k \in Borrows THEN Got(c, k - 1).dyn ELSE Got(c, k - 1)
  BY Forwarded
<1>3. CASE k \notin Borrows
  BY <1>2, <1>3 DEF Seen, Sees
<1>4. CASE k \in Borrows
  <2> DEFINE S == ArgOf(c, k)[CarrierInput].blob.stat
             y == Got(c, k - 1)
  <2>1. Seen(c, k) = [dyn |-> y.dyn, stat |-> S]
    BY <1>2, <1>4 DEF Seen, Sees
  <2>2. y.stat = S
    <3>1. Carrier \in 1..Terminal /\ k \in (Carrier + 1)..Terminal
      BY <1>4, LayoutIs DEF LedgerOK
    <3>2. k - 1 \in Carrier..k - 1
      BY <3>1, TerminalIs
    <3> QED
      BY <1>4, <3>2, StaticKept
  <2>3. y \in State
    BY <1>1, ChunkRuns
  <2> HIDE DEF y, S
  <2>4. y \in [dyn : Dyn, stat : Stat]
    BY <2>3, LinkedAssumption
  <2>5. y = [dyn |-> y.dyn, stat |-> y.stat]
    BY <2>4
  <2> QED
    BY <2>1, <2>2, <2>5 DEF y
<1> QED
  BY <1>3, <1>4

(***************************************************************************)
(* Between groups: the token of the next root is output 1, because the     *)
(* root before lets no sibling bring a token of its category in.           *)
(***************************************************************************)
LEMMA ThreadIsOutput1 ==
    ASSUME NEW s \in Seq(Output), NEW outs \in Seq(Output), Tokens(s, outs),
           1 \in DOMAIN s, s[1].nft = "mutable",
           \A j \in DOMAIN s : j # 1 => s[j].cat # s[1].cat,
           outs[1].nft = "mutable", outs[1].cat = s[1].cat,
           NEW j \in DOMAIN outs, outs[j].nft = "mutable", outs[j].cat = s[1].cat
    PROVE  j = 1
<1> DEFINE minted(q) == \E i \in DOMAIN s : s[i].nft = "minting" /\ s[i].cat = q.cat
           kept == {l \in DOMAIN outs : outs[l].nft # "none" /\ ~minted(outs[l])}
<1>1. 1 \in DOMAIN outs
  <2>1. DOMAIN outs = 1..Len(outs) /\ Len(outs) \in Nat
    OBVIOUS
  <2> QED
    BY <2>1
<1>2. ASSUME NEW l \in DOMAIN outs, outs[l].nft = "mutable", outs[l].cat = s[1].cat
      PROVE  l \in kept
  BY <1>2
<1>3. 1 \in kept /\ j \in kept
  BY <1>1, <1>2
<1>4. PICK f \in [kept -> DOMAIN s] :
        /\ \A l, m \in kept : f[l] = f[m] => l = m
        /\ \A l \in kept : MayBecome(s[f[l]], outs[l])
  BY DEF Tokens
<1> HIDE DEF kept
<1>5. f[1] = 1 /\ f[j] = 1
  <2>1. s[f[1]].cat = s[1].cat /\ f[1] \in DOMAIN s
    BY <1>3, <1>4 DEF MayBecome
  <2>2. s[f[j]].cat = s[1].cat /\ f[j] \in DOMAIN s
    BY <1>3, <1>4 DEF MayBecome
  <2> QED
    BY <2>1, <2>2
<1> QED
  BY <1>3, <1>4, <1>5

\* On a walk with several groups, no sibling of a root has its category.
LEMMA AloneInCategory ==
    ASSUME LedgerOK, NEW c \in Walks, NEW g \in 0..G - 1, G > 1
    PROVE  \A j \in DOMAIN Spent(txs[c[g]].ins) :
              j # 1 => Spent(txs[c[g]].ins)[j].cat # Spent(txs[c[g]].ins)[1].cat
<1> DEFINE s == Spent(txs[c[g]].ins)
           r == RootOf(g)
<1>1. layout \in Layouts
  BY DEF LedgerOK
<1>2. r \in 0..Terminal /\ IsRoot(r) /\ GroupOf[r] = g
  BY <1>1, RootIs
<1>3. PICK e \in r..Terminal :
        Size(GroupOf[r]) = e - r + 1 /\ \A j \in r..e : IsTail(j) <=> j = e
  BY <1>1, <1>2, GroupIs
<1>4. /\ c[g] \in DOMAIN txs /\ s \in Seq(Output) /\ Len(s) = Size(g)
  BY WalkTx, TxIs
<1>5. Place(r) = 1 /\ SpentAt(c, r) = s
  <2>1. r \in Nat
    BY <1>2, TerminalIs
  <2>2. r - r + 1 = 1
    BY <2>1
  <2> QED
    BY <1>2, <2>2 DEF Place, SpentAt
<1> HIDE DEF s, r
<1>6. Position(r, 1, s)
  <2>1. Position(r, Place(r), SpentAt(c, r))
    BY <1>2, OnWalk
  <2> QED
    BY <1>5, <2>1
<1>7. DOMAIN s = 1..Len(s) /\ Len(s) \in Nat
  BY <1>4
<1>8. CASE IsTail(r)
  <2>1. r = e
    BY <1>2, <1>3, <1>8, TerminalIs
  <2>2. Len(s) = 1
    BY <1>2, <1>3, <1>4, <2>1, TerminalIs
  <2>3. \A j \in DOMAIN s : j = 1
    BY <1>7, <2>2
  <2> QED
    BY <2>3 DEF s
<1>9. CASE ~IsTail(r)
  <2>1. \A j \in 2..Len(s) : s[j].cat # s[1].cat
    BY <1>2, <1>6, <1>9 DEF Position, OneThread
  <2>2. \A j \in DOMAIN s : j # 1 => j \in 2..Len(s)
    BY <1>7
  <2>3. \A j \in DOMAIN s : j # 1 => s[j].cat # s[1].cat
    BY <2>1, <2>2
  <2> QED
    BY <2>3 DEF s
<1> QED
  BY <1>8, <1>9

LEMMA NewGroup ==
    ASSUME layout \in Layouts, NEW k \in 0..Terminal, k # 0, IsRoot(k)
    PROVE  /\ k - 1 \in 0..Terminal /\ k - 1 + 1 = k /\ k - 1 # Terminal
           /\ IsTail(k - 1) /\ Place(k) = 1 /\ RootOf(GroupOf[k]) = k
           /\ GroupOf[k] \in 1..G - 1 /\ GroupOf[k - 1] = GroupOf[k] - 1 /\ G > 1
           /\ k \notin Borrows
<1>1. k - 1 \in 0..Terminal /\ k - 1 + 1 = k /\ k - 1 # Terminal /\ k \in Nat
  BY TerminalIs
<1>2. GroupOf[k] = GroupOf[k - 1] + 1
  BY GroupSteps DEF IsRoot
<1>3. GroupOf[k] \in 0..G - 1 /\ GroupOf[k - 1] \in 0..G - 1 /\ G \in Nat
  BY <1>1, GroupType, LayoutIs
<1>4. GroupOf[k] \in 1..G - 1 /\ GroupOf[k - 1] = GroupOf[k] - 1 /\ G > 1
  BY <1>2, <1>3
<1>5. IsTail(k - 1)
  BY <1>1, <1>2, <1>3 DEF IsTail
<1>6. RootOf(GroupOf[k]) = k
  BY TheRoot
<1>7. Place(k) = 1
  <2>1. k - k + 1 = 1
    BY <1>1
  <2> QED
    BY <1>6, <2>1 DEF Place
<1>8. k \notin Borrows
  <2> SUFFICES ASSUME k \in Borrows PROVE FALSE
    OBVIOUS
  <2>1. Carrier \in 0..Terminal /\ Carrier < k /\ GroupOf[Carrier] = GroupOf[k]
    <3>1. Carrier \in 1..Terminal /\ k \in (Carrier + 1)..Terminal /\ GroupOf[k] = GroupOf[Carrier]
      BY LayoutIs
    <3> QED
      BY <3>1, TerminalIs
  <2>2. k <= Carrier
    BY <2>1, RootIsFirst
  <2> QED
    BY <2>1, <2>2, TerminalIs
<1> QED
  BY <1>1, <1>4, <1>5, <1>6, <1>7, <1>8

LEMMA Across ==
    ASSUME LedgerOK, NEW c \in Walks, NEW k \in 0..Terminal, k # 0, IsRoot(k)
    PROVE  Seen(c, k) = Got(c, k - 1)
<1> DEFINE g == GroupOf[k]
           s == Spent(txs[c[g - 1]].ins)
           outs == txs[c[g - 1]].outs
           q == txs[c[g]].ins[1]
<1>1. /\ k - 1 \in 0..Terminal /\ k - 1 # Terminal /\ k - 1 + 1 = k
      /\ IsTail(k - 1) /\ Place(k) = 1 /\ RootOf(g) = k
      /\ g \in 1..G - 1 /\ GroupOf[k - 1] = g - 1 /\ G > 1 /\ k \notin Borrows
  BY NewGroup DEF LedgerOK
<1>2. G \in Nat /\ g \in 0..G - 1 /\ g - 1 \in 0..G - 1
  <2>1. G \in Nat
    BY LayoutIs DEF LedgerOK
  <2> QED
    BY <1>1, <2>1
<1>3. /\ q[1] = c[g - 1] /\ Input0(c[g]).cat = Input0(c[g - 1]).cat
      /\ Input0(c[g]).nft = "mutable" /\ Input0(c[g - 1]).nft = "mutable"
  BY <1>1, <1>2 DEF Walks, Walk
<1>4. /\ c[g - 1] \in DOMAIN txs /\ 1 \in DOMAIN txs[c[g - 1]].ins /\ s[1] = Input0(c[g - 1])
  BY <1>2, WalkTx
<1>5. /\ c[g] \in DOMAIN txs /\ 1 \in DOMAIN txs[c[g]].ins
      /\ Spent(txs[c[g]].ins)[1] = Input0(c[g])
  BY <1>2, WalkTx
<1>6. q \in Made /\ Input0(c[g]) = Out(q)
  BY <1>5, TxIs DEF Input0
<1>7. q[2] \in DOMAIN outs /\ Out(q) = outs[q[2]]
  <2> HIDE DEF q
  <2>1. txs \in Seq(Tx)
    BY DEF LedgerOK
  <2>2. q[2] \in DOMAIN txs[q[1]].outs
    BY <1>6, <2>1, MadeIs
  <2>3. Out(q) = txs[q[1]].outs[q[2]]
    BY DEF Out
  <2> QED
    BY <1>3, <2>2, <2>3
<1>8. /\ txs[c[g - 1]] \in Tx /\ s \in Seq(Output) /\ 1 \in DOMAIN s
      /\ Accepted(s, txs[c[g - 1]].arg, outs)
  BY <1>4, TxIs
<1>9. outs \in Seq(Output)
  BY <1>8 DEF Tx
<1>10. Hands(k - 1, Place(k - 1), s, ArgOf(c, k - 1), outs[1])
  <2>1. SpentAt(c, k - 1) = s /\ Out0(c, k - 1) = outs[1]
    BY <1>1 DEF SpentAt, Out0
  <2> QED
    BY <1>1, <2>1, OnWalk
<1>11. \A j \in DOMAIN s : j # 1 => s[j].cat # s[1].cat
  BY <1>1, <1>2, AloneInCategory
<1>12. Opens(k, 1, Spent(txs[c[g]].ins), ArgOf(c, k))
  <2>1. SpentAt(c, k) = Spent(txs[c[g]].ins)
    BY DEF SpentAt
  <2> QED
    BY <1>1, <2>1, OnWalk DEF Takes
<1>13. Input0(c[g]).commit = Hash[ArgOf(c, k)[1].blob]
  BY <1>5, <1>12 DEF Opens
<1> HIDE DEF g, s, outs, q
<1>14. /\ outs[1].commit = Hash[Got(c, k - 1)]
       /\ outs[1].cat = s[1].cat /\ outs[1].nft = s[1].nft
  BY <1>1, <1>10 DEF Hands, Got
<1>15. Tokens(s, outs)
  <2>1. s # <<>>
    BY <1>8
  <2> QED
    BY <1>8, <2>1 DEF Accepted
<1>16. q[2] = 1
  <2>1. outs[q[2]].nft = "mutable" /\ outs[q[2]].cat = s[1].cat
    BY <1>3, <1>4, <1>6, <1>7
  <2>2. s[1].nft = "mutable" /\ outs[1].nft = "mutable" /\ outs[1].cat = s[1].cat
    BY <1>3, <1>4, <1>14
  <2> QED
    BY <1>7, <1>8, <1>9, <1>11, <1>15, <2>1, <2>2, ThreadIsOutput1
<1>17. Hash[ArgOf(c, k)[1].blob] = Hash[Got(c, k - 1)]
  BY <1>6, <1>7, <1>13, <1>14, <1>16
<1>18. Seen(c, k) = ArgOf(c, k)[1].blob
  BY <1>1 DEF Seen, Sees
<1>19. Seen(c, k) \in State /\ Got(c, k - 1) \in State
  BY <1>1, ChunkRuns
<1> QED
  BY <1>17, <1>18, <1>19, LinkedAssumption

LEMMA WalkVerifies ==
    ASSUME LedgerOK, NEW c \in Walks
    PROVE  StatementOf(c) \in Statement /\ Verified(StatementOf(c))
<1> DEFINE tr == [k \in 0..N - 2 |-> Got(c, k)]
<1>0. /\ N \in Nat /\ N >= 3
      /\ Terminal = N - 1 /\ N - 2 = Terminal - 1 /\ Terminal \in Nat /\ Terminal >= 2
  BY ChunksAssumption DEF Terminal
<1>1. StatementOf(c) = Seen(c, 0)
  <2>1. layout \in Layouts /\ 0 \in 0..Terminal
    BY <1>0 DEF LedgerOK
  <2>2. IsRoot(0) /\ GroupOf[0] = 0
    BY <2>1, LayoutIs DEF IsRoot
  <2>3. RootOf(0) = 0
    BY <2>1, <2>2, TheRoot
  <2>4. Place(0) = 1
    BY <2>2, <2>3 DEF Place
  <2>5. 0 \notin Borrows
    <3>1. Carrier \in 1..Terminal /\ Borrows \subseteq (Carrier + 1)..Terminal
      BY <2>1, LayoutIs
    <3> QED
      BY <3>1, <1>0
  <2> QED
    BY <2>2, <2>4, <2>5 DEF StatementOf, Seen, Sees, ArgOf
<1>2. \A k \in 1..Terminal : Seen(c, k) = Got(c, k - 1)
  <2> TAKE k \in 1..Terminal
  <2>1. k \in 0..Terminal /\ k # 0
    BY <1>0
  <2> QED
    BY <2>1, Inside, Across
<1>3. Seen(c, 0) \in Statement /\ Got(c, 0) \in Start[Seen(c, 0)]
  <2>1. 0 \in 0..Terminal
    BY <1>0
  <2> QED
    BY <2>1, ChunkRuns
<1>4. \A k \in 1..N - 2 : <<Got(c, k - 1), Got(c, k)>> \in Step[k]
  <2> TAKE k \in 1..N - 2
  <2>1. k \in 0..Terminal /\ k \in 1..Terminal
    BY <1>0
  <2> QED
    BY <2>1, <1>2, ChunkRuns
<1>5. Got(c, N - 2) \in Accept
  <2>1. Terminal \in 0..Terminal /\ Terminal \in 1..Terminal /\ N - 2 = Terminal - 1
    BY <1>0
  <2>2. Seen(c, Terminal) \in Accept
    BY <2>1, ChunkRuns
  <2>3. Seen(c, Terminal) = Got(c, Terminal - 1)
    BY <1>2, <2>1
  <2> QED
    BY <2>1, <2>2, <2>3
<1>6. tr \in [0..N - 2 -> State]
  <2>1. \A k \in 0..N - 2 : k \in 0..Terminal /\ k # Terminal
    BY <1>0
  <2> QED
    BY <2>1, ChunkRuns
<1>7. /\ tr[0] \in Start[Seen(c, 0)]
      /\ \A k \in 1..N - 2 : <<tr[k - 1], tr[k]>> \in Step[k]
      /\ tr[N - 2] \in Accept
  <2>1. \A k \in 1..N - 2 : tr[k - 1] = Got(c, k - 1) /\ tr[k] = Got(c, k)
    BY <1>0
  <2>2. tr[0] = Got(c, 0) /\ tr[N - 2] = Got(c, N - 2)
    BY <1>0
  <2> HIDE DEF tr
  <2> QED
    BY <2>1, <2>2, <1>3, <1>4, <1>5
<1> HIDE DEF tr
<1>8. Verified(Seen(c, 0))
  <2>1. Computes(Seen(c, 0), tr)
    BY <1>7 DEF Computes, Genesis
  <2> QED
    BY <1>6, <2>1 DEF Verified
<1> QED
  BY <1>1, <1>3, <1>8

\* What was read from the ledger once can be read for ever.
LEMMA WalksStay ==
    ASSUME LedgerOK, NEW ins, NEW arg, NEW outs, Published(ins, arg, outs), NEW c \in Walks
    PROVE  c \in Walks' /\ StatementOf(c)' = StatementOf(c)
<1>1. /\ DOMAIN txs \subseteq DOMAIN txs'
      /\ \A t \in DOMAIN txs : txs'[t] = txs[t]
      /\ \A p \in Made : Out(p)' = Out(p)
  BY LogGrows
<1>2. layout' = layout /\ G \in Nat /\ G >= 1
  BY LayoutIs DEF Published, LedgerOK
<1>3. /\ G' = G
      /\ \A g : RootOf(g)' = RootOf(g)
  BY <1>2 DEF G, RootOf, IsRoot, GroupOf
<1>4. /\ c \in [0..G - 1 -> DOMAIN txs]
      /\ \A g \in 0..G - 1 : txs[c[g]].ins # <<>> /\ Input0(c[g]).lock = RootOf(g)
      /\ \A g \in 1..G - 1 :
            txs[c[g]].ins[1][1] = c[g - 1] /\ Input0(c[g]).cat = Input0(c[g - 1]).cat
      /\ G > 1 => \A g \in 0..G - 1 : Input0(c[g]).nft = "mutable"
  BY DEF Walks, Walk
<1>5. \A g \in 0..G - 1 :
        c[g] \in DOMAIN txs /\ txs'[c[g]] = txs[c[g]] /\ Input0(c[g])' = Input0(c[g])
  <2> TAKE g \in 0..G - 1
  <2>1. c[g] \in DOMAIN txs /\ txs'[c[g]] = txs[c[g]]
    BY <1>1, <1>4
  <2>2. txs[c[g]].ins[1] \in Made
    BY <2>1, WalkTx, TxIs
  <2>3. Out(txs[c[g]].ins[1])' = Out(txs[c[g]].ins[1])
    BY <1>1, <2>1, <2>2 DEF Out
  <2> QED
    BY <2>1, <2>3 DEF Input0
<1>6. \A g \in 1..G - 1 : g \in 0..G - 1 /\ g - 1 \in 0..G - 1
  BY <1>2
<1>7. c \in [0..G - 1 -> DOMAIN txs]'
  BY <1>1, <1>3, <1>4
<1>8. Walk(c)'
  <2>1. \A g \in 0..G - 1 : (txs[c[g]].ins # <<>> /\ Input0(c[g]).lock = RootOf(g))'
    BY <1>3, <1>4, <1>5
  <2>2. \A g \in 1..G - 1 :
          (txs[c[g]].ins[1][1] = c[g - 1] /\ Input0(c[g]).cat = Input0(c[g - 1]).cat)'
    BY <1>4, <1>5, <1>6
  <2>3. G > 1 => \A g \in 0..G - 1 : (Input0(c[g]).nft = "mutable")'
    BY <1>4, <1>5
  <2> QED
    BY <1>3, <2>1, <2>2, <2>3 DEF Walk
<1>9. StatementOf(c)' = StatementOf(c)
  <2>1. 0 \in 0..G - 1
    BY <1>2
  <2> QED
    BY <1>5, <2>1 DEF StatementOf
<1> QED
  BY <1>7, <1>8, <1>9 DEF Walks

JudgedOK == Judged \subseteq {st \in Statement : Verified(st)}

\* The linked verifiers implement the abstract one: whatever outputs and tokens
\* others put at the lockings, whoever reads a verdict reads a statement that
\* was verified, for every number of chunks and every layout
\* (Linked.GroupsImplementVerifier).
THEOREM LinkedImplementsVerifier == Spec => GroupsImplementVerifier
<1>1. LedgerOK => JudgedOK
  BY WalkVerifies DEF Judged, JudgedOK
<1>2. Init => V!Init
  <2> SUFFICES ASSUME Init, NEW c \in Walks PROVE FALSE
    BY DEF V!Init, Judged
  <2>1. LedgerOK /\ Len(txs) = 1
    <3>1. Len(txs) = 1
      BY DEF Init
    <3> QED
      BY <3>1, LedgerInit
  <2>2. 0 \in 0..G - 1
    BY <2>1, LayoutIs DEF LedgerOK
  <2>3. c[0] \in DOMAIN txs /\ txs[c[0]].ins # <<>>
    BY <2>2 DEF Walks, Walk
  <2>4. txs \in Seq(Tx) /\ txs[1].ins = <<>>
    BY <2>1 DEF LedgerOK
  <2>5. c[0] = 1
    BY <2>1, <2>3, <2>4
  <2> QED
    BY <2>3, <2>4, <2>5
<1>3. LedgerOK /\ JudgedOK' /\ [Next]_vars => [V!Next]_Judged
  <2> SUFFICES ASSUME LedgerOK, JudgedOK', [Next]_vars PROVE [V!Next]_Judged
    OBVIOUS
  <2>1. CASE UNCHANGED vars
    <3>1. txs' = txs /\ layout' = layout
      BY <2>1 DEF vars
    <3>2. G' = G /\ \A g : RootOf(g)' = RootOf(g)
      BY <3>1 DEF G, RootOf, IsRoot, GroupOf
    <3>3. Walks' = Walks
      <4>1. \A t : Input0(t)' = Input0(t)
        BY <3>1 DEF Input0, Out
      <4>2. \A c : Walk(c)' <=> Walk(c)
        BY <3>1, <3>2, <4>1 DEF Walk
      <4>3. (0..G - 1)' = 0..G - 1
        BY <3>2
      <4> QED
        BY <3>1, <4>2, <4>3 DEF Walks
    <3> QED
      BY <3>1, <3>3 DEF Judged, StatementOf
  <2>2. CASE Next
    <3>1. PICK ins, arg, outs : Published(ins, arg, outs)
      BY <2>2, NextPublishes
    <3>2. Judged \subseteq Judged'
      <4> SUFFICES ASSUME NEW c \in Walks PROVE StatementOf(c) \in Judged'
        BY DEF Judged
      <4>1. c \in Walks' /\ StatementOf(c)' = StatementOf(c)
        BY <3>1, WalksStay
      <4> QED
        BY <4>1 DEF Judged
    <3>3. Judged' \subseteq {st \in Statement : V!Verified(st)}
      <4>1. \A st : V!Verified(st) <=> Verified(st)
        BY DEF Verified, Computes, V!Verified, V!Computes, Genesis, V!Genesis
      <4> QED
        BY <4>1 DEF JudgedOK
    <3>4. V!Judge(Judged')
      BY <3>2, <3>3 DEF V!Judge
    <3> QED
      BY <3>3, <3>4 DEF V!Next
  <2> QED
    BY <2>1, <2>2
<1> QED
  BY <1>1, <1>2, <1>3, LedgerCorrect, PTL DEF Spec, GroupsImplementVerifier, V!Spec

(***************************************************************************)
(* How the chunks are planned and packed in transactions.  Running totals. *)
(***************************************************************************)
Added(h, w, m) == h[0] = 0 /\ \A l \in 1..m : h[l] = h[l - 1] + w[l]

LEMMA TotalsIs ==
    ASSUME NEW n \in Nat, NEW w
    PROVE  Added(Totals(n, w), w, n)
<1> DEFINE T == {m \in 0..n : \E h : Added(h, w, m)}
           Eqn(f) == f = [l \in 0..n |-> IF l = 0 THEN 0 ELSE f[l - 1] + w[l]]
<1>1. n \in Nat
  OBVIOUS
<1>2. 0 \in T
  <2>1. Added([l \in 0..0 |-> 0], w, 0)
    BY <1>1 DEF Added
  <2> QED
    BY <1>1, <2>1
<1>3. \A k \in 0..n : k \in T /\ k < n => k + 1 \in T
  <2> SUFFICES ASSUME NEW k \in 0..n, k \in T, k < n PROVE k + 1 \in T
    OBVIOUS
  <2>1. PICK h : Added(h, w, k)
    OBVIOUS
  <2>2. PICK g : g = Extend(h, 0, k, h[k] + w[k + 1])
    OBVIOUS
  <2>3. /\ k \in 0..k /\ 0 \in 0..k /\ k + 1 \in 0..n /\ (k + 1) - 1 = k
        /\ \A l \in 1..k + 1 : l - 1 \in 0..k /\ (l = k + 1 \/ (l \in 1..k /\ l \in 0..k))
    BY <1>1
  <2>4. (\A l \in 0..k : g[l] = h[l]) /\ g[k + 1] = h[k] + w[k + 1]
    BY <1>1, <2>2, Extended
  <2>5. Added(g, w, k + 1)
    BY <2>1, <2>3, <2>4 DEF Added
  <2> QED
    BY <2>3, <2>5
<1> HIDE DEF T
<1>4. PICK h : Added(h, w, n)
  <2>1. n \in 0..n
    BY <1>1
  <2>2. n \in T
    BY <1>1, <1>2, <1>3, <2>1, FromTo
  <2> QED
    BY <2>2 DEF T
<1>5. Eqn([l \in 0..n |-> h[l]])
  <2>1. PICK f : f = [l \in 0..n |-> h[l]]
    OBVIOUS
  <2>2. \A l \in 0..n : f[l] = h[l] /\ (l # 0 => l - 1 \in 0..n /\ l \in 1..n)
    BY <1>1, <2>1
  <2>3. f = [l \in 0..n |-> IF l = 0 THEN 0 ELSE f[l - 1] + w[l]]
    BY <1>4, <2>1, <2>2 DEF Added
  <2>4. Eqn(f)
    BY <2>3
  <2> HIDE DEF Eqn
  <2> QED
    BY <2>1, <2>4
<1>6. Eqn(Totals(n, w))
  <2>1. Totals(n, w) = CHOOSE f : Eqn(f)
    BY DEF Totals
  <2> HIDE DEF Eqn
  <2> QED
    BY <1>5, <2>1
<1>7. \A l \in 0..n :
         Totals(n, w)[l] =
           IF l = 0 THEN 0 ELSE Totals(n, w)[l - 1] + w[l]
  BY <1>6
<1>8. 0 \in 0..n /\ \A l \in 1..n : l \in 0..n /\ l # 0
  BY <1>1
<1> QED
  BY <1>7, <1>8 DEF Added

LEMMA TotalsGrow ==
    ASSUME NEW n \in Nat, NEW w, \A l \in 1..n : w[l] \in Nat
    PROVE  /\ \A l \in 0..n : Totals(n, w)[l] \in Nat
           /\ \A l \in 1..n : Totals(n, w)[l] = Totals(n, w)[l - 1] + w[l]
           /\ \A l, m \in 0..n : l <= m => Totals(n, w)[l] <= Totals(n, w)[m]
<1>1. PICK h : h = Totals(n, w)
  OBVIOUS
<1>2. h[0] = 0 /\ \A l \in 1..n : h[l] = h[l - 1] + w[l]
  BY <1>1, TotalsIs DEF Added
<1>3. \A l \in 0..n : h[l] \in Nat
  <2> DEFINE T == {m \in 0..n : h[m] \in Nat}
  <2>1. 0 \in T
    BY <1>2
  <2>2. ASSUME NEW k \in 0..n, k \in T, k < n PROVE k + 1 \in T
    <3>1. k + 1 \in 1..n /\ (k + 1) - 1 = k /\ k + 1 \in 0..n
      BY <2>2
    <3>2. h[k + 1] = h[k] + w[k + 1] /\ w[k + 1] \in Nat
      BY <1>2, <3>1
    <3> QED
      BY <2>2, <3>1, <3>2
  <2> HIDE DEF T
  <2>3. \A k \in 0..n : k \in T
    BY <2>1, <2>2, UpTo
  <2> QED
    BY <2>3 DEF T
<1>4. ASSUME NEW l \in 0..n, NEW m \in 0..n, l <= m PROVE h[l] <= h[m]
  <2> DEFINE T == {k \in l..n : h[l] <= h[k]}
  <2>1. l \in T /\ l \in Nat
    BY <1>3
  <2>2. ASSUME NEW k \in l..n, k \in T, k < n PROVE k + 1 \in T
    <3>1. k + 1 \in 1..n /\ (k + 1) - 1 = k /\ k + 1 \in l..n /\ k \in 0..n /\ k + 1 \in 0..n
      BY <2>2
    <3>2. h[k + 1] = h[k] + w[k + 1] /\ w[k + 1] \in Nat /\ h[k] \in Nat /\ h[l] \in Nat
      BY <1>2, <1>3, <3>1
    <3> QED
      BY <2>2, <3>1, <3>2
  <2> HIDE DEF T
  <2>3. \A k \in l..n : k \in T
    BY <2>1, <2>2, FromTo
  <2>4. m \in l..n
    BY <1>4
  <2>5. m \in T
    BY <2>3, <2>4
  <2> QED
    BY <2>5 DEF T
<1> QED
  BY <1>1, <1>2, <1>3, <1>4

(***************************************************************************)
(* The fewest parts.                                                       *)
(***************************************************************************)
LEMMA MinIs ==
    ASSUME NEW S \in SUBSET Nat, S # {}
    PROVE  Min(S) \in S /\ \A x \in S : Min(S) <= x
<1>1. \E x \in S : \A y \in S : x <= y
  BY Least
<1> QED
  BY <1>1 DEF Min

Ways(f, i, n, good) ==
    {1 + f[j] : j \in {k \in 0..i - 1 : <<k, i>> \in good}} \cup {n + 1}
Cuts(h, n, good, m) == h[0] = 0 /\ \A l \in 1..m : h[l] = Min(Ways(h, l, n, good))

LEMMA SameWays ==
    ASSUME NEW n \in Nat, NEW good, NEW h, NEW g, NEW l \in 1..n,
           \A j \in 0..l - 1 : g[j] = h[j]
    PROVE  Ways(g, l, n, good) = Ways(h, l, n, good)
BY DEF Ways

LEMMA WaysAreNat ==
    ASSUME NEW n \in Nat, NEW good, NEW f, NEW i \in 1..n, \A j \in 0..i - 1 : f[j] \in Nat
    PROVE  Ways(f, i, n, good) \in SUBSET Nat /\ Ways(f, i, n, good) # {}
<1>1. n + 1 \in Ways(f, i, n, good)
  BY DEF Ways
<1>2. ASSUME NEW x \in Ways(f, i, n, good) PROVE x \in Nat
  <2>1. x = n + 1 \/ \E j \in 0..i - 1 : x = 1 + f[j]
    BY <1>2 DEF Ways
  <2> QED
    BY <2>1
<1> QED
  BY <1>1, <1>2

LEMMA FewestIs ==
    ASSUME NEW n \in Nat, NEW good
    PROVE  Cuts(Fewest(n, good), n, good, n)
<1> DEFINE T == {m \in 0..n : \E h : Cuts(h, n, good, m)}
           Eqn(f) == f = [i \in 0..n |->
             IF i = 0 THEN 0
             ELSE Min({1 + f[j] : j \in {k \in 0..i - 1 : <<k, i>> \in good}} \cup {n + 1})]
<1>2. 0 \in T
  <2>1. Cuts([l \in 0..0 |-> 0], n, good, 0)
    BY DEF Cuts
  <2> QED
    BY <2>1
<1>3. \A k \in 0..n : k \in T /\ k < n => k + 1 \in T
  <2> SUFFICES ASSUME NEW k \in 0..n, k \in T, k < n PROVE k + 1 \in T
    OBVIOUS
  <2>1. PICK h : Cuts(h, n, good, k)
    OBVIOUS
  <2>2. PICK g : g = Extend(h, 0, k, Min(Ways(h, k + 1, n, good)))
    OBVIOUS
  <2>3. (\A l \in 0..k : g[l] = h[l]) /\ g[k + 1] = Min(Ways(h, k + 1, n, good))
    BY <2>2, Extended
  <2>4. ASSUME NEW l \in 1..k + 1 PROVE g[l] = Min(Ways(g, l, n, good))
    <3>1. l \in 1..n /\ \A j \in 0..l - 1 : j \in 0..k
      OBVIOUS
    <3>2. \A j \in 0..l - 1 : g[j] = h[j]
      BY <2>3, <3>1
    <3>3. Ways(g, l, n, good) = Ways(h, l, n, good)
      BY <3>1, <3>2, SameWays
    <3>4. l = k + 1 \/ (l \in 1..k /\ l \in 0..k)
      OBVIOUS
    <3>5. g[l] = Min(Ways(h, l, n, good))
      BY <2>1, <2>3, <3>4 DEF Cuts
    <3> QED
      BY <3>3, <3>5
  <2>5. g[0] = 0
    BY <2>1, <2>3 DEF Cuts
  <2>6. Cuts(g, n, good, k + 1)
    BY <2>4, <2>5 DEF Cuts
  <2> QED
    BY <2>6
<1> HIDE DEF T
<1>4. PICK h : Cuts(h, n, good, n)
  <2>1. n \in T
    BY <1>2, <1>3, UpTo
  <2> QED
    BY <2>1 DEF T
<1>5. Eqn([l \in 0..n |-> h[l]])
  <2>1. PICK f : f = [l \in 0..n |-> h[l]]
    OBVIOUS
  <2>2. \A l \in 0..n : f[l] = h[l]
    BY <2>1
  <2>3. ASSUME NEW l \in 0..n
        PROVE  f[l] = IF l = 0 THEN 0 ELSE Min(Ways(f, l, n, good))
    <3>1. CASE l = 0
      BY <1>4, <2>2, <3>1 DEF Cuts
    <3>2. CASE l # 0
      <4>1. l \in 1..n /\ \A j \in 0..l - 1 : j \in 0..n
        BY <3>2
      <4>2. \A j \in 0..l - 1 : f[j] = h[j]
        BY <2>2, <4>1
      <4>3. Ways(f, l, n, good) = Ways(h, l, n, good)
        BY <4>1, <4>2, SameWays
      <4>4. h[l] = Min(Ways(h, l, n, good))
        BY <1>4, <4>1 DEF Cuts
      <4> QED
        BY <2>2, <3>2, <4>3, <4>4
    <3> QED
      BY <3>1, <3>2
  <2>4. f = [l \in 0..n |-> IF l = 0 THEN 0 ELSE Min(Ways(f, l, n, good))]
    BY <2>1, <2>3
  <2>5. Eqn(f)
    BY <2>4 DEF Ways
  <2> HIDE DEF Eqn
  <2> QED
    BY <2>1, <2>5
<1>6. Eqn(Fewest(n, good))
  <2>1. Fewest(n, good) = CHOOSE f : Eqn(f)
    BY DEF Fewest
  <2> HIDE DEF Eqn
  <2> QED
    BY <1>5, <2>1
<1>7. \A l \in 0..n :
         Fewest(n, good)[l] = IF l = 0 THEN 0 ELSE Min(Ways(Fewest(n, good), l, n, good))
  BY <1>6 DEF Ways
<1>8. 0 \in 0..n /\ \A l \in 1..n : l \in 0..n /\ l # 0
  OBVIOUS
<1> QED
  BY <1>7, <1>8 DEF Cuts

LEMMA FewestIsNat ==
    ASSUME NEW n \in Nat, NEW good
    PROVE  \A l \in 0..n : Fewest(n, good)[l] \in Nat
<1>1. PICK f : f = Fewest(n, good)
  OBVIOUS
<1>2. Cuts(f, n, good, n)
  BY <1>1, FewestIs
<1> DEFINE T == {m \in 0..n : \A l \in 0..m : f[l] \in Nat}
<1>3. 0 \in T
  BY <1>2 DEF Cuts
<1>4. ASSUME NEW k \in 0..n, k \in T, k < n PROVE k + 1 \in T
  <2>1. \A l \in 0..k : f[l] \in Nat
    BY <1>4
  <2>2. k + 1 \in 1..n /\ (k + 1) - 1 = k
    BY <1>4
  <2>3. Ways(f, k + 1, n, good) \in SUBSET Nat /\ Ways(f, k + 1, n, good) # {}
    BY <2>1, <2>2, WaysAreNat
  <2>4. Min(Ways(f, k + 1, n, good)) \in Nat
    BY <2>3, MinIs
  <2>5. f[k + 1] \in Nat
    BY <1>2, <2>2, <2>4 DEF Cuts
  <2>6. \A l \in 0..k + 1 : l = k + 1 \/ l \in 0..k
    OBVIOUS
  <2> QED
    BY <2>1, <2>2, <2>5, <2>6
<1> HIDE DEF T
<1>5. n \in T /\ n \in 0..n
  BY <1>3, <1>4, UpTo
<1> QED
  BY <1>1, <1>5 DEF T

LEMMA FewestBounds ==
    ASSUME NEW n \in Nat, NEW good, NEW i \in 1..n
    PROVE  /\ Fewest(n, good)[i] <= n + 1
           /\ \A j \in 0..i - 1 : <<j, i>> \in good => Fewest(n, good)[i] <= 1 + Fewest(n, good)[j]
           /\ \/ Fewest(n, good)[i] = n + 1
              \/ \E j \in 0..i - 1 :
                    <<j, i>> \in good /\ Fewest(n, good)[i] = 1 + Fewest(n, good)[j]
<1>1. PICK f : f = Fewest(n, good)
  OBVIOUS
<1>2. f[i] = Min(Ways(f, i, n, good))
  BY <1>1, FewestIs DEF Cuts
<1>3. \A j \in 0..i - 1 : f[j] \in Nat
  <2>1. \A j \in 0..i - 1 : j \in 0..n
    OBVIOUS
  <2> QED
    BY <1>1, <2>1, FewestIsNat
<1>4. Ways(f, i, n, good) \in SUBSET Nat /\ Ways(f, i, n, good) # {}
  BY <1>3, WaysAreNat
<1>5. f[i] \in Ways(f, i, n, good) /\ \A x \in Ways(f, i, n, good) : f[i] <= x
  BY <1>2, <1>4, MinIs
<1>6. /\ f[i] <= n + 1
      /\ \A j \in 0..i - 1 : <<j, i>> \in good => f[i] <= 1 + f[j]
      /\ f[i] = n + 1 \/ \E j \in 0..i - 1 : <<j, i>> \in good /\ f[i] = 1 + f[j]
  BY <1>5 DEF Ways
<1> QED
  BY <1>1, <1>6

(***************************************************************************)
(* Cutting greedily: up to e there are k parts, no way to reach e has      *)
(* fewer, and no way to reach a later end has as few.                      *)
(***************************************************************************)
BestSoFar(f, ends, e, k) ==
    /\ k <= e /\ f[e] = k
    /\ \A i \in ends : i > e => f[i] >= k + 1

LEMMA BestAtFirst ==
    ASSUME NEW n \in Nat, NEW good, NEW ends \in SUBSET (1..n)
    PROVE  BestSoFar(Fewest(n, good), ends, 0, 0)
<1>1. PICK f : f = Fewest(n, good)
  OBVIOUS
<1>2. f[0] = 0 /\ \A l \in 0..n : f[l] \in Nat
  BY <1>1, FewestIs, FewestIsNat DEF Cuts
<1>3. ASSUME NEW i \in ends PROVE f[i] >= 1
  <2>1. i \in 1..n /\ \A j \in 0..i - 1 : j \in 0..n
    OBVIOUS
  <2>2. f[i] = n + 1 \/ \E j \in 0..i - 1 : f[i] = 1 + f[j]
    BY <1>1, <2>1, FewestBounds
  <2> QED
    BY <1>2, <2>1, <2>2
<1> QED
  BY <1>1, <1>2, <1>3 DEF BestSoFar

LEMMA BestNext ==
    ASSUME NEW n \in Nat, NEW good, NEW ends \in SUBSET (1..n), NEW e \in 0..n, NEW k \in Nat,
           BestSoFar(Fewest(n, good), ends, e, k),
           NEW h \in ends, h > e, <<e, h>> \in good,
           \A j \in 0..n, i \in ends : <<j, i>> \in good /\ i > h => j > e /\ j \in ends
    PROVE  BestSoFar(Fewest(n, good), ends, h, k + 1)
<1>1. PICK f : f = Fewest(n, good)
  OBVIOUS
<1>2. /\ k <= e /\ f[e] = k
      /\ \A i \in ends : i > e => f[i] >= k + 1
  BY <1>1 DEF BestSoFar
<1>3. \A l \in 0..n : f[l] \in Nat
  BY <1>1, FewestIsNat
<1>4. h \in 1..n /\ e \in 0..h - 1 /\ h \in 0..n
  OBVIOUS
<1>5. f[h] <= 1 + f[e]
  BY <1>1, <1>4, FewestBounds
<1>6. f[h] >= k + 1
  BY <1>2
<1>7. f[h] = k + 1 /\ k + 1 <= h
  BY <1>2, <1>3, <1>4, <1>5, <1>6
<1>8. ASSUME NEW i \in ends, i > h PROVE f[i] >= k + 2
  <2>1. i \in 1..n /\ \A j \in 0..i - 1 : j \in 0..n
    OBVIOUS
  <2>2. CASE f[i] = n + 1
    BY <1>4, <1>7, <1>8, <2>1, <2>2
  <2>3. CASE \E j \in 0..i - 1 : <<j, i>> \in good /\ f[i] = 1 + f[j]
    <3>1. PICK j \in 0..i - 1 : <<j, i>> \in good /\ f[i] = 1 + f[j]
      BY <2>3
    <3>2. j \in 0..n
      BY <2>1
    <3>3. j > e /\ j \in ends
      BY <1>8, <3>1, <3>2
    <3>4. f[j] >= k + 1 /\ f[j] \in Nat
      BY <1>2, <1>3, <3>2, <3>3
    <3> QED
      BY <3>1, <3>4
  <2> QED
    BY <1>1, <2>1, <2>2, <2>3, FewestBounds
<1>9. k + 2 = (k + 1) + 1
  OBVIOUS
<1> QED
  BY <1>1, <1>7, <1>8, <1>9 DEF BestSoFar

(***************************************************************************)
(* Windows.  A window that grows, or starts earlier, costs more.           *)
(***************************************************************************)
LEMMA PlanConstants ==
    OPS \in Nat /\ OPS >= 1 /\ FIXED \in Nat /\ DISCOUNT \in Nat /\ OP_TARGET \in Nat
BY WindowsAssumption

LEMMA TotalIs ==
    ASSUME cost \in [1..OPS -> COSTS]
    PROVE  /\ \A l \in 0..OPS : total[l] \in Nat
           /\ \A l \in 1..OPS : total[l - 1] + DISCOUNT <= total[l]
                                /\ FIXED + total[l] - total[l - 1] <= OP_TARGET
           /\ \A l, m \in 0..OPS : l <= m => total[l] <= total[m]
<1>1. \A l \in 1..OPS : cost[l] \in Nat /\ FIXED + cost[l] <= OP_TARGET /\ DISCOUNT <= cost[l]
  BY WindowsAssumption
<1>2. /\ \A l \in 0..OPS : total[l] \in Nat
      /\ \A l \in 1..OPS : total[l] = total[l - 1] + cost[l]
      /\ \A l, m \in 0..OPS : l <= m => total[l] <= total[m]
  BY <1>1, PlanConstants, TotalsGrow DEF total
<1>3. \A l \in 1..OPS : l \in 0..OPS /\ l - 1 \in 0..OPS
  BY PlanConstants
<1> QED
  BY <1>1, <1>2, <1>3, PlanConstants

\* What the terminal chunk saves, and other chunks do not.
Saved(i) == IF i = OPS THEN DISCOUNT ELSE 0

LEMMA CostIs ==
    ASSUME NEW j, NEW i
    PROVE  /\ operationCost(j, i) = FIXED + total[i] - total[j] - Saved(i)
           /\ Saved(i) \in Nat /\ Saved(i) <= DISCOUNT /\ (i # OPS => Saved(i) = 0)
BY PlanConstants DEF operationCost, Saved

LEMMA CostGrows ==
    ASSUME cost \in [1..OPS -> COSTS],
           NEW j \in 0..OPS, NEW k \in 0..OPS, j <= k, NEW a \in 0..OPS, NEW b \in 0..OPS, a <= b
    PROVE  operationCost(k, a) <= operationCost(j, b)
<1>1. PICK r, q, u, v, x, y : /\ r = Saved(a) /\ q = Saved(b) /\ u = total[a] /\ v = total[b]
                              /\ x = total[j] /\ y = total[k]
  OBVIOUS
<1>2. x \in Nat /\ y \in Nat /\ u \in Nat /\ v \in Nat /\ x <= y /\ u <= v
  BY <1>1, TotalIs
<1>3. /\ operationCost(k, a) = FIXED + u - y - r /\ r \in Nat
      /\ operationCost(j, b) = FIXED + v - x - q /\ q \in Nat
      /\ q <= DISCOUNT /\ (a # OPS => r = 0)
  BY <1>1, CostIs
<1>4. CASE a = b
  <2>1. u = v /\ r = q
    BY <1>1, <1>4
  <2> QED
    BY <1>2, <1>3, <2>1, PlanConstants
<1>5. CASE a # b
  <2>1. b \in 1..OPS /\ b - 1 \in 0..OPS /\ a <= b - 1 /\ a # OPS
    BY <1>5, PlanConstants
  <2>2. PICK w : w = total[b - 1]
    OBVIOUS
  <2>3. u <= w /\ w + DISCOUNT <= v /\ w \in Nat
    BY <1>1, <2>1, <2>2, TotalIs
  <2>4. r = 0 /\ u + DISCOUNT <= v
    BY <1>2, <1>3, <2>1, <2>3, PlanConstants
  <2> QED
    BY <1>2, <1>3, <2>4, PlanConstants
<1> QED
  BY <1>4, <1>5

LEMMA CostIsNat ==
    ASSUME cost \in [1..OPS -> COSTS], NEW j \in 0..OPS, NEW i \in 0..OPS, j < i
    PROVE  operationCost(j, i) \in Nat
<1>1. i \in 1..OPS /\ i - 1 \in 0..OPS /\ j <= i - 1
  BY PlanConstants
<1>2. /\ total[j] \in Nat /\ total[i] \in Nat /\ total[i - 1] \in Nat
      /\ total[j] <= total[i - 1] /\ total[i - 1] + DISCOUNT <= total[i]
  BY <1>1, TotalIs
<1>3. PICK r : r = Saved(i)
  OBVIOUS
<1>4. operationCost(j, i) = FIXED + total[i] - total[j] - r /\ r \in Nat /\ r <= DISCOUNT
  BY <1>3, CostIs
<1> QED
  BY <1>2, <1>4, PlanConstants

LEMMA CostIsInt ==
    ASSUME cost \in [1..OPS -> COSTS], NEW j \in 0..OPS, NEW i \in 0..OPS
    PROVE  operationCost(j, i) \in Int
<1>1. total[j] \in Nat /\ total[i] \in Nat
  BY TotalIs
<1> QED
  BY <1>1, PlanConstants DEF operationCost

LEMMA ShorterFits ==
    ASSUME cost \in [1..OPS -> COSTS],
           NEW j \in 0..OPS, NEW k \in 0..OPS, j <= k, NEW a \in 0..OPS, NEW b \in 0..OPS, a <= b,
           fits(j, b)
    PROVE  fits(k, a)
<1>1. operationCost(k, a) <= operationCost(j, b) /\ operationCost(j, b) <= OP_TARGET
  BY CostGrows DEF fits
<1>2. operationCost(k, a) \in Int /\ operationCost(j, b) \in Int
  BY CostIsInt
<1> QED
  BY <1>1, <1>2, PlanConstants DEF fits

LEMMA OneFits ==
    ASSUME cost \in [1..OPS -> COSTS], NEW l \in 0..OPS - 1
    PROVE  fits(l, l + 1)
<1>1. l + 1 \in 1..OPS /\ (l + 1) - 1 = l /\ l \in 0..OPS /\ l + 1 \in 0..OPS
  BY PlanConstants
<1>2. total[l] \in Nat /\ total[l + 1] \in Nat /\ FIXED + total[l + 1] - total[l] <= OP_TARGET
  BY <1>1, TotalIs
<1> QED
  BY <1>2, PlanConstants DEF fits, operationCost

(***************************************************************************)
(* The planner's search.                                                   *)
(***************************************************************************)
LEMMA UpFromIs ==
    ASSUME lo \in 0..OPS, NEW hi \in lo + 1..OPS + 1
    PROVE  /\ upFrom(hi) \in hi - 1..OPS /\ \A i \in hi..upFrom(hi) : fits(lo, i)
           /\ upFrom(hi) = OPS \/ ~fits(lo, upFrom(hi) + 1)
<1> DEFINE T == {h \in hi - 1..OPS : h = OPS \/ ~fits(lo, h + 1)}
<1>1. T \in SUBSET Nat /\ OPS \in T
  BY PlanConstants
<1> HIDE DEF T
<1>2. PICK h \in T : \A y \in T : h <= y
  BY <1>1, Least
<1>3. h \in hi - 1..OPS /\ (h = OPS \/ ~fits(lo, h + 1))
  BY <1>2 DEF T
<1>4. ASSUME NEW i \in hi..h PROVE fits(lo, i)
  <2>1. i - 1 \in hi - 1..OPS /\ ~(h <= i - 1) /\ i - 1 # OPS /\ (i - 1) + 1 = i
    BY <1>3, PlanConstants
  <2>2. i - 1 \notin T
    BY <1>2, <2>1
  <2> QED
    BY <2>1, <2>2 DEF T
<1> QED
  BY <1>3, <1>4 DEF upFrom

LEMMA DownFromIs ==
    ASSUME lo \in 0..OPS, NEW hi \in lo..OPS
    PROVE  /\ downFrom(hi) \in lo..hi /\ (downFrom(hi) = lo \/ fits(lo, downFrom(hi)))
           /\ \A i \in downFrom(hi) + 1..hi : ~fits(lo, i)
<1> DEFINE T == {m \in 0..hi - lo : hi - m = lo \/ fits(lo, hi - m)}
<1>1. T \in SUBSET Nat /\ hi - lo \in T
  BY PlanConstants
<1> HIDE DEF T
<1>2. PICK m \in T : \A y \in T : m <= y
  BY <1>1, Least
<1>3. m \in 0..hi - lo /\ (hi - m = lo \/ fits(lo, hi - m))
  BY <1>2 DEF T
<1>4. hi - m \in lo..hi
  BY <1>3, PlanConstants
<1>5. ASSUME NEW i \in (hi - m) + 1..hi PROVE ~fits(lo, i)
  <2>1. hi - i \in 0..hi - lo /\ ~(m <= hi - i) /\ hi - (hi - i) = i
    BY <1>3, PlanConstants
  <2>2. hi - i \notin T
    BY <1>2, <2>1
  <2> QED
    BY <2>1, <2>2 DEF T
<1> QED
  BY <1>3, <1>4, <1>5 DEF downFrom

\* Whatever the prediction, the longest window that fits.
LEMMA PlanChunkIs ==
    ASSUME cost \in [1..OPS -> COSTS], lo \in 0..OPS - 1, NEW guess \in lo + 1..OPS
    PROVE  /\ planChunk(guess) \in lo + 1..OPS
           /\ fits(lo, planChunk(guess))
           /\ planChunk(guess) = OPS \/ ~fits(lo, planChunk(guess) + 1)
<1>1. lo \in 0..OPS /\ lo # OPS /\ OPS \in Nat /\ fits(lo, lo + 1)
  BY PlanConstants, OneFits
<1>2. CASE ~seeded
  <2>1. PICK h : h = upFrom(lo + 1)
    OBVIOUS
  <2>2. lo + 1 \in lo + 1..OPS + 1 /\ (lo + 1) - 1 = lo
    BY <1>1
  <2>3. h \in lo..OPS /\ (\A i \in lo + 1..h : fits(lo, i)) /\ (h = OPS \/ ~fits(lo, h + 1))
    BY <1>1, <2>1, <2>2, UpFromIs
  <2>4. h # lo
    BY <1>1, <2>3
  <2>5. h \in lo + 1..h /\ h \in lo + 1..OPS
    BY <1>1, <2>3, <2>4
  <2> QED
    BY <1>2, <2>1, <2>3, <2>5 DEF planChunk
<1>3. CASE seeded /\ fits(lo, guess)
  <2>1. PICK h : h = upFrom(guess + 1)
    OBVIOUS
  <2>2. guess + 1 \in lo + 1..OPS + 1 /\ (guess + 1) - 1 = guess
    BY <1>1
  <2>3. h \in guess..OPS /\ (\A i \in guess + 1..h : fits(lo, i)) /\ (h = OPS \/ ~fits(lo, h + 1))
    BY <1>1, <2>1, <2>2, UpFromIs
  <2>4. h = guess \/ h \in guess + 1..h
    BY <1>1, <2>3
  <2>5. fits(lo, h) /\ h \in lo + 1..OPS
    BY <1>1, <1>3, <2>3, <2>4
  <2> QED
    BY <1>3, <2>1, <2>3, <2>5 DEF planChunk
<1>4. CASE seeded /\ ~fits(lo, guess)
  <2>1. PICK h : h = downFrom(guess - 1)
    OBVIOUS
  <2>2. guess - 1 \in lo..OPS /\ guess # lo + 1
    BY <1>1, <1>4
  <2>3. h \in lo..guess - 1 /\ (h = lo \/ fits(lo, h)) /\ \A i \in h + 1..guess - 1 : ~fits(lo, i)
    BY <1>1, <2>1, <2>2, DownFromIs
  <2>4. h # lo
    <3>1. lo + 1 \in lo + 1..guess - 1
      BY <1>1, <2>2
    <3> QED
      BY <1>1, <2>3, <3>1
  <2>5. h \in lo + 1..OPS /\ fits(lo, h)
    BY <1>1, <2>3, <2>4
  <2>6. h + 1 = guess \/ h + 1 \in h + 1..guess - 1
    BY <1>1, <2>3
  <2>7. ~fits(lo, h + 1)
    BY <1>4, <2>3, <2>6
  <2> QED
    BY <1>4, <2>1, <2>5, <2>7 DEF planChunk
<1> QED
  BY <1>2, <1>3, <1>4

LEMMA MergedIs ==
    ASSUME lo \in 0..OPS - 1, NEW h \in lo + 1..OPS, h = OPS \/ ~fits(lo, h + 1)
    PROVE  merged(h) = h
<1>1. h = OPS - 1 => h + 1 = OPS /\ h # OPS
  BY PlanConstants
<1> QED
  BY <1>1 DEF merged

(***************************************************************************)
(* The invariant of planning and packing: what is cut so far can be kept,  *)
(* and is as few parts as can be.                                          *)
(***************************************************************************)
Ends == {i \in 1..CHUNKS : allowed(i) \/ i = CHUNKS}

WindowsOK ==
    /\ cost \in [1..OPS -> COSTS]
    /\ los \in Seq(0..OPS) /\ Len(los) >= 1
    /\ \A i \in 2..Len(los) : los[i - 1] < los[i] /\ fits(los[i - 1], los[i])
    /\ BestSoFar(Fewest(OPS, fittingWindows), 1..OPS, lo, Len(los) - 1)

Packed ==
    /\ lo = OPS /\ groups \in Seq(Ends)
    /\ \A g \in DOMAIN groups : firstOf(g) <= groups[g] /\ Reasonable(firstOf(g), groups[g])
    /\ BestSoFar(Fewest(CHUNKS, reasonableGroups), Ends, start - 1, Len(groups))

GroupsOK == (specs = <<>> => groups = <<>>) /\ (specs # <<>> => Packed)

PlanInv == WindowsOK /\ GroupsOK

LEMMA LoIs ==
    ASSUME WindowsOK
    PROVE  /\ lo \in 0..OPS /\ Len(los) \in Nat /\ Len(los) >= 1 /\ CHUNKS \in Nat
           /\ \A i \in 1..Len(los) : los[i] \in 0..OPS
<1>1. los \in Seq(0..OPS) /\ Len(los) >= 1 /\ Len(los) \in Nat
  BY DEF WindowsOK
<1>2. \A i \in 1..Len(los) : los[i] \in 0..OPS
  BY <1>1, ElementOfSeq
<1>3. Len(los) \in 1..Len(los) /\ CHUNKS \in Nat
  BY <1>1 DEF CHUNKS
<1> QED
  BY <1>1, <1>2, <1>3 DEF lo

LEMMA PlanStarts ==
    ASSUME PlanInit
    PROVE  PlanInv
<1>1. cost \in [1..OPS -> COSTS] /\ los = <<0>> /\ specs = <<>> /\ groups = <<>>
  BY DEF PlanInit, WindowsInit
<1>2. los \in Seq(0..OPS) /\ Len(los) = 1 /\ lo = 0
  BY <1>1, PlanConstants DEF lo
<1>3. BestSoFar(Fewest(OPS, fittingWindows), 1..OPS, 0, 0)
  BY PlanConstants, BestAtFirst
<1>4. Len(los) - 1 = 0 /\ 2..Len(los) = {}
  BY <1>2
<1>5. WindowsOK
  BY <1>1, <1>2, <1>3, <1>4 DEF WindowsOK
<1> QED
  BY <1>1, <1>5 DEF PlanInv, GroupsOK

LEMMA SameWindows ==
    ASSUME UNCHANGED cost
    PROVE  /\ total' = total
           /\ \A j, i : fits(j, i)' <=> fits(j, i)
           /\ fittingWindows' = fittingWindows
<1>1. total' = total
  BY DEF total
<1>2. \A j, i : operationCost(j, i)' = operationCost(j, i)
  BY <1>1 DEF operationCost
<1>3. \A j, i : fits(j, i)' <=> fits(j, i)
  BY <1>2 DEF fits
<1> QED
  BY <1>1, <1>3 DEF fittingWindows

\* A longest window keeps the windows the fewest.
LEMMA LongestIsBest ==
    ASSUME WindowsOK, lo < OPS, NEW h \in lo + 1..OPS, fits(lo, h), h = OPS \/ ~fits(lo, h + 1)
    PROVE  BestSoFar(Fewest(OPS, fittingWindows), 1..OPS, h, Len(los))
<1>1. /\ lo \in 0..OPS /\ OPS \in Nat /\ Len(los) \in Nat /\ Len(los) >= 1
      /\ cost \in [1..OPS -> COSTS]
  BY LoIs, PlanConstants DEF WindowsOK
<1>2. PICK good, e, k : good = fittingWindows /\ e = lo /\ k = Len(los) - 1
  OBVIOUS
<1>3. BestSoFar(Fewest(OPS, good), 1..OPS, e, k)
  BY <1>2 DEF WindowsOK
<1>4. h \in 1..OPS /\ h > e /\ <<e, h>> \in good /\ e \in 0..OPS /\ k \in Nat
  BY <1>1, <1>2 DEF fittingWindows
<1>5. ASSUME NEW j \in 0..OPS, NEW i \in 1..OPS, <<j, i>> \in good, i > h
      PROVE  j > e /\ j \in 1..OPS
  <2>1. fits(j, i)
    BY <1>2, <1>5 DEF fittingWindows
  <2>2. ASSUME j <= lo PROVE FALSE
    <3>1. h + 1 \in 0..OPS /\ h + 1 <= i /\ h # OPS /\ i \in 0..OPS
      BY <1>1, <1>5
    <3>2. fits(lo, h + 1)
      BY <1>1, <2>1, <2>2, <3>1, ShorterFits
    <3> QED
      BY <3>1, <3>2
  <2> QED
    BY <1>1, <1>2, <2>2
<1>6. BestSoFar(Fewest(OPS, good), 1..OPS, h, k + 1)
  BY <1>1, <1>3, <1>4, <1>5, BestNext
<1>7. k + 1 = Len(los)
  BY <1>1, <1>2
<1> QED
  BY <1>2, <1>6, <1>7

LEMMA WindowPlanned ==
    ASSUME PlanInv, PlanWindow, UNCHANGED <<specs, groups>>
    PROVE  PlanInv'
<1>1. WindowsOK /\ GroupsOK /\ lo < OPS /\ UNCHANGED cost
  BY DEF PlanInv, PlanWindow
<1>2. lo \in 0..OPS - 1 /\ lo \in 0..OPS /\ OPS \in Nat /\ Len(los) \in Nat /\ Len(los) >= 1
  BY <1>1, LoIs, PlanConstants
<1>3. PICK guess \in lo + 1..OPS : los' = Append(los, merged(planChunk(guess)))
  BY DEF PlanWindow
<1>4. PICK h : h = planChunk(guess)
  OBVIOUS
<1>5. h \in lo + 1..OPS /\ fits(lo, h) /\ (h = OPS \/ ~fits(lo, h + 1))
  BY <1>1, <1>2, <1>4, PlanChunkIs DEF WindowsOK
<1>6. los' = Append(los, h)
  BY <1>2, <1>3, <1>4, <1>5, MergedIs
<1>7. h \in 0..OPS /\ los \in Seq(0..OPS)
  BY <1>1, <1>2, <1>5 DEF WindowsOK
<1>8. /\ los' \in Seq(0..OPS) /\ Len(los') = Len(los) + 1 /\ lo' = h
      /\ \A i \in 1..Len(los) : los'[i] = los[i]
      /\ los'[Len(los) + 1] = h
  BY <1>2, <1>6, <1>7 DEF lo
<1>9. ASSUME NEW i \in 2..Len(los')
      PROVE  los'[i - 1] < los'[i] /\ fits(los[i - 1], los[i])'
  <2>1. CASE i = Len(los) + 1
    <3>1. los'[i - 1] = lo /\ los'[i] = h
      BY <1>2, <1>8, <2>1 DEF lo
    <3> QED
      BY <1>1, <1>2, <1>5, <3>1, SameWindows
  <2>2. CASE i # Len(los) + 1
    <3>1. i \in 2..Len(los) /\ i \in 1..Len(los) /\ i - 1 \in 1..Len(los)
      BY <1>2, <1>8, <2>2
    <3>2. los'[i - 1] = los[i - 1] /\ los'[i] = los[i]
      BY <1>8, <3>1
    <3> QED
      BY <1>1, <3>1, <3>2, SameWindows DEF WindowsOK
  <2> QED
    BY <2>1, <2>2
<1>10. BestSoFar(Fewest(OPS, fittingWindows), 1..OPS, h, Len(los))
  BY <1>1, <1>5, LongestIsBest
<1>11. BestSoFar(Fewest(OPS, fittingWindows), 1..OPS, lo, Len(los) - 1)'
  <2>1. Len(los') - 1 = Len(los) /\ fittingWindows' = fittingWindows
    BY <1>1, <1>2, <1>8, SameWindows
  <2> QED
    BY <1>8, <1>10, <2>1
<1>12. WindowsOK'
  BY <1>1, <1>2, <1>8, <1>9, <1>11 DEF WindowsOK
<1>13. specs = <<>> /\ groups = <<>>
  BY <1>1, <1>2 DEF GroupsOK, Packed
<1> QED
  BY <1>12, <1>13 DEF PlanInv, GroupsOK

(***************************************************************************)
(* Packing.  A group that grows, or starts earlier, is longer.             *)
(***************************************************************************)
LEMMA SizeIs ==
    ASSUME WindowsOK, NEW i \in 1..CHUNKS
    PROVE  size(i) + PER_INPUT_OV \in Nat
<1>1. i \in 1..Len(los) /\ i + 1 \in 1..Len(los) /\ i + 1 \in 2..Len(los) /\ (i + 1) - 1 = i
  BY LoIs DEF CHUNKS
<1>2. los[i] \in 0..OPS /\ los[i + 1] \in 0..OPS /\ los[i] < los[i + 1]
  BY <1>1, LoIs DEF WindowsOK
<1>3. operationCost(los[i], los[i + 1]) \in Nat
  BY <1>2, CostIsNat DEF WindowsOK
<1> QED
  BY <1>3, GroupsAssumption DEF size

LEMMA FilledIs ==
    ASSUME WindowsOK
    PROVE  /\ \A l \in 0..CHUNKS : filled[l] \in Nat
           /\ \A l, m \in 0..CHUNKS : l <= m => filled[l] <= filled[m]
<1>1. PICK w : w = [i \in 1..CHUNKS |-> size(i) + PER_INPUT_OV]
  OBVIOUS
<1>2. CHUNKS \in Nat /\ \A i \in 1..CHUNKS : w[i] \in Nat
  BY <1>1, SizeIs, LoIs
<1>3. /\ \A l \in 0..CHUNKS : Totals(CHUNKS, w)[l] \in Nat
      /\ \A l, m \in 0..CHUNKS : l <= m => Totals(CHUNKS, w)[l] <= Totals(CHUNKS, w)[m]
  BY <1>2, TotalsGrow
<1>4. filled = Totals(CHUNKS, w)
  BY <1>1 DEF filled
<1> QED
  BY <1>3, <1>4

LEMMA BytesGrow ==
    ASSUME WindowsOK, NEW a \in 1..CHUNKS, NEW b \in 1..CHUNKS, NEW c \in 1..CHUNKS,
           NEW d \in 1..CHUNKS, c <= a, b <= d
    PROVE  bytes(a, b) <= bytes(c, d) /\ bytes(a, b) \in Int /\ bytes(c, d) \in Int
<1>1. /\ a - 1 \in 0..CHUNKS /\ c - 1 \in 0..CHUNKS /\ b \in 0..CHUNKS /\ d \in 0..CHUNKS
      /\ c - 1 <= a - 1
  BY LoIs
<1>2. PICK u, v, x, y : u = filled[a - 1] /\ v = filled[b] /\ x = filled[c - 1] /\ y = filled[d]
  OBVIOUS
<1>3. u \in Nat /\ v \in Nat /\ x \in Nat /\ y \in Nat /\ x <= u /\ v <= y
  BY <1>1, <1>2, FilledIs
<1>4. bytes(a, b) = v - u /\ bytes(c, d) = y - x
  BY <1>2 DEF bytes
<1> QED
  BY <1>3, <1>4

LEMMA LastAllowedIs ==
    ASSUME WindowsOK, start \in 1..CHUNKS, NEW i \in start..CHUNKS, overflows(i)
    PROVE  /\ lastAllowed(i) \in start..i - 1 /\ allowed(lastAllowed(i))
           /\ \A l \in lastAllowed(i) + 1..i - 1 : ~allowed(l)
<1> DEFINE T == {m \in 0..i - 1 - start : allowed(i - 1 - m)}
<1>1. PICK j \in start..i - 1 : allowed(j)
  BY DEF overflows
<1>2. (i - 1) - j \in 0..i - 1 - start /\ i - 1 - ((i - 1) - j) = j
  BY LoIs
<1>3. T \in SUBSET Nat /\ (i - 1) - j \in T
  BY <1>1, <1>2, LoIs
<1> HIDE DEF T
<1>4. PICK m \in T : \A y \in T : m <= y
  BY <1>3, Least
<1>5. m \in 0..i - 1 - start /\ allowed(i - 1 - m)
  BY <1>4 DEF T
<1>6. PICK h : h = i - 1 - m
  OBVIOUS
<1>7. h \in start..i - 1 /\ allowed(h)
  BY <1>5, <1>6, LoIs
<1>8. ASSUME NEW l \in h + 1..i - 1 PROVE ~allowed(l)
  <2>1. (i - 1) - l \in 0..i - 1 - start /\ ~(m <= (i - 1) - l) /\ i - 1 - ((i - 1) - l) = l
    BY <1>5, <1>6, LoIs
  <2>2. (i - 1) - l \notin T
    BY <1>4, <2>1
  <2> QED
    BY <2>1, <2>2 DEF T
<1> QED
  BY <1>7, <1>8 DEF lastAllowed

\* The group a full transaction ends with: no longer one is reasonable, not
\* even one that begins earlier.
LEMMA FullGroup ==
    ASSUME WindowsOK, start \in 1..CHUNKS, NEW i \in start..CHUNKS, overflows(i),
           \A j \in start..i - 1 : ~overflows(j), NEW h, h = lastAllowed(i)
    PROVE  /\ h \in Ends /\ h >= start /\ Reasonable(start, h)
           /\ \A j \in 0..CHUNKS, l \in Ends :
                 <<j, l>> \in reasonableGroups /\ l > h => j > start - 1 /\ j \in Ends
<1>1. CHUNKS \in Nat /\ TARGET \in Int
  BY LoIs, GroupsAssumption
<1>2. h \in start..i - 1 /\ allowed(h) /\ \A l \in h + 1..i - 1 : ~allowed(l)
  BY LastAllowedIs
<1>3. h \in 1..CHUNKS /\ h >= start /\ h \in Ends
  BY <1>1, <1>2 DEF Ends
<1>4. Reasonable(start, h)
  <2>1. SUFFICES ASSUME NEW j \in start..h - 1, allowed(j) PROVE bytes(start, h) <= TARGET
    BY DEF Reasonable
  <2>2. ~(bytes(start, h) > TARGET)
    BY <1>2, <2>1 DEF overflows
  <2>3. bytes(start, h) \in Int
    BY <1>1, <1>3, BytesGrow
  <2> QED
    BY <1>1, <2>2, <2>3
<1>5. ASSUME NEW j \in 0..CHUNKS, NEW l \in Ends, <<j, l>> \in reasonableGroups, l > h
      PROVE  j > start - 1 /\ j \in Ends
  <2>1. l \in 1..CHUNKS /\ (allowed(l) \/ l = CHUNKS)
    BY DEF Ends
  <2>2. l >= i
    <3> SUFFICES ASSUME l < i PROVE FALSE
      BY <1>1, <2>1
    <3>1. l \in h + 1..i - 1 /\ l # CHUNKS
      BY <1>1, <1>2, <1>5, <2>1
    <3> QED
      BY <1>2, <2>1, <3>1
  <2>3. (j = 0 \/ allowed(j)) /\ Reasonable(j + 1, l)
    BY <1>5 DEF reasonableGroups
  <2>4. ASSUME j <= start - 1 PROVE FALSE
    <3>1. /\ j + 1 \in 1..CHUNKS /\ j + 1 <= start /\ i \in 1..CHUNKS /\ i <= l
          /\ h \in j + 1..l - 1
      BY <1>1, <1>2, <2>1, <2>2, <2>4
    <3>2. bytes(start, i) <= bytes(j + 1, l) /\ bytes(start, i) \in Int /\ bytes(j + 1, l) \in Int
      BY <2>1, <3>1, BytesGrow
    <3>3. bytes(start, i) > TARGET
      BY DEF overflows
    <3>4. ~(bytes(j + 1, l) <= TARGET)
      BY <1>1, <3>2, <3>3
    <3> QED
      BY <1>2, <2>3, <3>1, <3>4 DEF Reasonable
  <2>5. j > start - 1 /\ j # 0 /\ j \in 1..CHUNKS
    BY <1>1, <2>4
  <2> QED
    BY <2>3, <2>5 DEF Ends
<1> QED
  BY <1>3, <1>4, <1>5

LEMMA RestOfChunks ==
    ASSUME WindowsOK, start \in 1..CHUNKS, \A i \in start..CHUNKS : ~overflows(i)
    PROVE  /\ CHUNKS \in Ends /\ Reasonable(start, CHUNKS)
           /\ \A l \in Ends : ~(l > CHUNKS)
<1>1. CHUNKS \in Nat /\ TARGET \in Int /\ CHUNKS \in 1..CHUNKS /\ CHUNKS \in start..CHUNKS
  BY LoIs, GroupsAssumption
<1>2. Reasonable(start, CHUNKS)
  <2>1. SUFFICES ASSUME NEW j \in start..CHUNKS - 1, allowed(j) PROVE bytes(start, CHUNKS) <= TARGET
    BY DEF Reasonable
  <2>2. ~(bytes(start, CHUNKS) > TARGET)
    BY <1>1, <2>1 DEF overflows
  <2>3. bytes(start, CHUNKS) \in Int
    BY <1>1, BytesGrow
  <2> QED
    BY <1>1, <2>2, <2>3
<1> QED
  BY <1>1, <1>2 DEF Ends

LEMMA StartIs ==
    ASSUME CHUNKS \in Nat, groups \in Seq(Ends)
    PROVE  start \in 1..CHUNKS + 1 /\ (start > CHUNKS => start - 1 = CHUNKS)
<1>1. CASE groups = <<>>
  BY <1>1 DEF start
<1>2. CASE groups # <<>>
  <2>1. Len(groups) \in 1..Len(groups)
    BY <1>2
  <2>2. groups[Len(groups)] \in Ends
    BY <2>1, ElementOfSeq
  <2>3. groups[Len(groups)] \in 1..CHUNKS
    BY <2>2 DEF Ends
  <2> QED
    BY <1>2, <2>3 DEF start
<1> QED
  BY <1>1, <1>2

LEMMA SameChunks ==
    ASSUME UNCHANGED <<cost, los>>
    PROVE  /\ CHUNKS' = CHUNKS /\ lo' = lo
           /\ \A j, i : bytes(j, i)' = bytes(j, i)
<1>1. CHUNKS' = CHUNKS /\ lo' = lo
  BY DEF CHUNKS, lo
<1>2. \A i : size(i)' = size(i)
  BY SameWindows DEF size, operationCost
<1>3. filled' = filled
  BY <1>1, <1>2 DEF filled
<1> QED
  BY <1>1, <1>3 DEF bytes

LEMMA SameSpecs ==
    ASSUME UNCHANGED <<cost, los, specs>>
    PROVE  /\ \A i : allowed(i)' <=> allowed(i)
           /\ \A j, i : Reasonable(j, i)' <=> Reasonable(j, i)
           /\ Ends' = Ends /\ reasonableGroups' = reasonableGroups
<1>1. CHUNKS' = CHUNKS /\ \A j, i : bytes(j, i)' = bytes(j, i)
  BY SameChunks
<1>2. \A i : allowed(i)' <=> allowed(i)
  BY <1>1 DEF allowed, blocked, span, links
<1>3. \A j, i : Reasonable(j, i)' <=> Reasonable(j, i)
  BY <1>1, <1>2 DEF Reasonable
<1>4. Ends' = Ends
  BY <1>1, <1>2 DEF Ends
<1>5. reasonableGroups' = reasonableGroups
  BY <1>1, <1>2, <1>3 DEF reasonableGroups
<1> QED
  BY <1>2, <1>3, <1>4, <1>5

LEMMA SameWindowsOK ==
    ASSUME WindowsOK, UNCHANGED planVars
    PROVE  WindowsOK'
<1>1. UNCHANGED cost /\ UNCHANGED los
  BY DEF planVars
<1>2. fittingWindows' = fittingWindows /\ lo' = lo /\ \A j, i : fits(j, i)' <=> fits(j, i)
  BY <1>1, SameWindows DEF lo
<1> QED
  BY <1>1, <1>2 DEF WindowsOK

LEMMA SpecsBuilt ==
    ASSUME PlanInv, BuildSpecs
    PROVE  PlanInv'
<1>1. WindowsOK /\ GroupsOK /\ lo = OPS /\ specs = <<>> /\ UNCHANGED planVars /\ UNCHANGED groups
  BY DEF PlanInv, BuildSpecs
<1>2. groups = <<>> /\ groups' = <<>> /\ WindowsOK'
  BY <1>1, SameWindowsOK DEF GroupsOK
<1>3. lo' = lo /\ CHUNKS' = CHUNKS /\ CHUNKS \in Nat
  BY <1>1, LoIs, SameChunks DEF planVars
<1>4. PICK n, good, ends : n = CHUNKS' /\ good = reasonableGroups' /\ ends = Ends'
  OBVIOUS
<1>5. n \in Nat /\ ends \in SUBSET (1..n)
  BY <1>3, <1>4 DEF Ends
<1>6. BestSoFar(Fewest(n, good), ends, 0, 0)
  BY <1>5, BestAtFirst
<1>7. start' - 1 = 0 /\ Len(groups') = 0 /\ groups' \in Seq(Ends') /\ DOMAIN groups' = {}
  BY <1>2 DEF start
<1>8. BestSoFar(Fewest(CHUNKS, reasonableGroups), Ends, start - 1, Len(groups))'
  BY <1>4, <1>6, <1>7
<1>9. Packed'
  BY <1>1, <1>3, <1>7, <1>8 DEF Packed
<1> QED
  BY <1>2, <1>9 DEF PlanInv, GroupsOK

\* A group after which no longer one is reasonable keeps the groups the fewest.
LEMMA Grouped ==
    ASSUME WindowsOK, Packed, start <= CHUNKS, NEW h \in Ends, h >= start, Reasonable(start, h),
           \A j \in 0..CHUNKS, l \in Ends :
              <<j, l>> \in reasonableGroups /\ l > h => j > start - 1 /\ j \in Ends,
           Cut(h)
    PROVE  WindowsOK' /\ Packed'
<1>1. /\ UNCHANGED planVars /\ UNCHANGED specs /\ groups' = Append(groups, h)
      /\ groups \in Seq(Ends) /\ lo = OPS /\ CHUNKS \in Nat
  BY LoIs DEF Cut, Packed
<1>2. UNCHANGED cost /\ UNCHANGED los /\ WindowsOK'
  BY <1>1, SameWindowsOK DEF planVars
<1>3. /\ CHUNKS' = CHUNKS /\ lo' = lo /\ Ends' = Ends /\ reasonableGroups' = reasonableGroups
      /\ \A j, i : Reasonable(j, i)' <=> Reasonable(j, i)
  BY <1>1, <1>2, SameChunks, SameSpecs
<1>4. start \in 1..CHUNKS /\ h \in 1..CHUNKS
  BY <1>1, StartIs DEF Ends
<1>5. /\ groups' \in Seq(Ends) /\ Len(groups') = Len(groups) + 1 /\ Len(groups) \in Nat
      /\ \A g \in 1..Len(groups) : groups'[g] = groups[g]
      /\ groups'[Len(groups) + 1] = h
  BY <1>1
<1>6. start' = h + 1
  BY <1>5 DEF start
<1>7. ASSUME NEW g \in 1..Len(groups')
      PROVE  (firstOf(g) <= groups[g])' /\ Reasonable(firstOf(g), groups[g])'
  <2>1. CASE g = Len(groups) + 1
    <3>1. firstOf(g)' = start
      <4>1. CASE Len(groups) = 0
        BY <1>1, <2>1, <4>1 DEF firstOf, start
      <4>2. CASE Len(groups) # 0
        <5>1. g # 1 /\ g - 1 = Len(groups) /\ g - 1 \in 1..Len(groups) /\ groups # <<>>
          BY <1>1, <1>5, <2>1, <4>2
        <5> QED
          BY <1>5, <5>1 DEF firstOf, start
      <4> QED
        BY <4>1, <4>2
    <3>2. groups'[g] = h
      BY <1>5, <2>1
    <3> QED
      BY <1>3, <1>4, <3>1, <3>2
  <2>2. CASE g # Len(groups) + 1
    <3>1. g \in 1..Len(groups) /\ g \in DOMAIN groups /\ (g # 1 => g - 1 \in 1..Len(groups))
      BY <1>1, <1>5, <2>2
    <3>2. firstOf(g)' = firstOf(g) /\ groups'[g] = groups[g]
      BY <1>5, <3>1 DEF firstOf
    <3>3. firstOf(g) <= groups[g] /\ Reasonable(firstOf(g), groups[g])
      BY <3>1 DEF Packed
    <3> QED
      BY <1>3, <3>2, <3>3
  <2> QED
    BY <2>1, <2>2
<1>8. BestSoFar(Fewest(CHUNKS, reasonableGroups), Ends, h, Len(groups) + 1)
  <2>1. PICK n, good, ends, e, k : /\ n = CHUNKS /\ good = reasonableGroups /\ ends = Ends
                                   /\ e = start - 1 /\ k = Len(groups)
    OBVIOUS
  <2>2. BestSoFar(Fewest(n, good), ends, e, k)
    BY <2>1 DEF Packed
  <2>3. n \in Nat /\ ends \in SUBSET (1..n) /\ e \in 0..n /\ k \in Nat /\ h \in ends /\ h > e
    BY <1>1, <1>4, <1>5, <2>1 DEF Ends
  <2>4. <<e, h>> \in good
    <3>1. e = 0 \/ allowed(e)
      <4>1. CASE groups = <<>>
        BY <2>1, <4>1 DEF start
      <4>2. CASE groups # <<>>
        <5>1. Len(groups) \in 1..Len(groups) /\ e = groups[Len(groups)]
          <6>1. Len(groups) \in 1..Len(groups)
            BY <1>1, <4>2
          <6>2. groups[Len(groups)] \in 1..CHUNKS
            BY <1>1, <6>1, ElementOfSeq DEF Ends
          <6> QED
            BY <2>1, <4>2, <6>1, <6>2 DEF start
        <5>2. e \in Ends /\ e # CHUNKS
          BY <1>1, <1>4, <2>1, <5>1, ElementOfSeq
        <5> QED
          BY <5>2 DEF Ends
      <4> QED
        BY <4>1, <4>2
    <3>2. Reasonable(e + 1, h) /\ e \in 0..CHUNKS
      <4>1. e + 1 = start
        BY <1>4, <2>1
      <4> QED
        BY <2>1, <2>3, <4>1
    <3> QED
      BY <1>4, <2>1, <3>1, <3>2 DEF reasonableGroups
  <2>5. \A j \in 0..n, i \in ends : <<j, i>> \in good /\ i > h => j > e /\ j \in ends
    BY <2>1
  <2>6. BestSoFar(Fewest(n, good), ends, h, k + 1)
    BY <2>2, <2>3, <2>4, <2>5, BestNext
  <2> QED
    BY <2>1, <2>6
<1>9. BestSoFar(Fewest(CHUNKS, reasonableGroups), Ends, start - 1, Len(groups))'
  <2>1. start' - 1 = h
    BY <1>4, <1>6
  <2> QED
    BY <1>3, <1>5, <1>8, <2>1
<1>10. DOMAIN groups' = 1..Len(groups')
  BY <1>5
<1>11. Packed'
  BY <1>1, <1>3, <1>5, <1>7, <1>9, <1>10 DEF Packed
<1> QED
  BY <1>2, <1>11

LEMMA GroupClosed ==
    ASSUME PlanInv, CloseGroup
    PROVE  PlanInv'
<1>1. WindowsOK /\ Packed /\ specs # <<>>
  BY DEF PlanInv, GroupsOK, CloseGroup
<1>2. PICK i \in start..CHUNKS :
         overflows(i) /\ (\A j \in start..i - 1 : ~overflows(j)) /\ Cut(lastAllowed(i))
  BY DEF CloseGroup
<1>3. CHUNKS \in Nat /\ start \in 1..CHUNKS + 1
  BY <1>1, LoIs, StartIs DEF Packed
<1>4. start \in 1..CHUNKS /\ start <= CHUNKS
  BY <1>2, <1>3
<1>5. PICK h : h = lastAllowed(i)
  OBVIOUS
<1>6. /\ h \in Ends /\ h >= start /\ Reasonable(start, h)
      /\ \A j \in 0..CHUNKS, l \in Ends :
            <<j, l>> \in reasonableGroups /\ l > h => j > start - 1 /\ j \in Ends
  BY <1>1, <1>2, <1>4, <1>5, FullGroup
<1>7. Cut(h)
  BY <1>2, <1>5
<1>8. WindowsOK' /\ Packed'
  BY <1>1, <1>4, <1>6, <1>7, Grouped
<1>9. specs' # <<>>
  BY <1>1, <1>7 DEF Cut
<1> QED
  BY <1>8, <1>9 DEF PlanInv, GroupsOK

LEMMA GroupsEnded ==
    ASSUME PlanInv, LastGroup
    PROVE  PlanInv'
<1>1. /\ WindowsOK /\ Packed /\ specs # <<>> /\ start <= CHUNKS /\ Cut(CHUNKS)
      /\ \A i \in start..CHUNKS : ~overflows(i)
  BY DEF PlanInv, GroupsOK, LastGroup
<1>2. CHUNKS \in Nat /\ start \in 1..CHUNKS + 1
  BY <1>1, LoIs, StartIs DEF Packed
<1>3. start \in 1..CHUNKS /\ CHUNKS >= start
  BY <1>1, <1>2
<1>4. CHUNKS \in Ends /\ Reasonable(start, CHUNKS) /\ \A l \in Ends : ~(l > CHUNKS)
  BY <1>1, <1>3, RestOfChunks
<1>5. PICK h : h = CHUNKS
  OBVIOUS
<1>6. /\ h \in Ends /\ h >= start /\ Reasonable(start, h) /\ Cut(h)
      /\ \A j \in 0..CHUNKS, l \in Ends :
            <<j, l>> \in reasonableGroups /\ l > h => j > start - 1 /\ j \in Ends
  BY <1>1, <1>3, <1>4, <1>5
<1>7. WindowsOK' /\ Packed'
  BY <1>1, <1>6, Grouped
<1>8. specs' # <<>>
  BY <1>1 DEF Cut
<1> QED
  BY <1>7, <1>8 DEF PlanInv, GroupsOK

\* What is planned and packed so far is the fewest parts, always.
THEOREM PlanInvariant == PlanSpec => []PlanInv
<1>1. ASSUME PlanInv, [PlanNext]_<<planVars, specs, groups>> PROVE PlanInv'
  <2>1. CASE PlanWindow /\ UNCHANGED <<specs, groups>>
    BY <1>1, <2>1, WindowPlanned
  <2>2. CASE BuildSpecs
    BY <1>1, <2>2, SpecsBuilt
  <2>3. CASE CloseGroup
    BY <1>1, <2>3, GroupClosed
  <2>4. CASE LastGroup
    BY <1>1, <2>4, GroupsEnded
  <2>5. CASE UNCHANGED <<planVars, specs, groups>>
    <3>1. UNCHANGED cost /\ UNCHANGED los /\ UNCHANGED specs /\ UNCHANGED groups /\ WindowsOK'
      BY <1>1, <2>5, SameWindowsOK DEF planVars, PlanInv
    <3>2. /\ CHUNKS' = CHUNKS /\ lo' = lo /\ Ends' = Ends /\ reasonableGroups' = reasonableGroups
          /\ \A j, i : Reasonable(j, i)' <=> Reasonable(j, i)
      BY <3>1, SameChunks, SameSpecs
    <3>3. start' = start /\ \A g : firstOf(g)' = firstOf(g)
      BY <3>1 DEF start, firstOf
    <3>4. Packed => Packed'
      BY <3>1, <3>2, <3>3 DEF Packed
    <3> QED
      BY <1>1, <3>1, <3>4 DEF PlanInv, GroupsOK
  <2> QED
    BY <1>1, <2>1, <2>2, <2>3, <2>4, <2>5 DEF PlanNext
<1> QED
  BY <1>1, PlanStarts, PTL DEF PlanSpec

\* Whatever the costs, the predictions, the seams and the binding, the windows
\* and the transactions are as few as any way to cut makes them.
THEOREM FewestTransactionsAlways == PlanSpec => []FewestTransactions
<1>1. ASSUME PlanInv PROVE FewestTransactions
  <2>1. WindowsOK /\ GroupsOK /\ cost \in [1..OPS -> COSTS] /\ lo \in 0..OPS /\ CHUNKS \in Nat
    BY <1>1, LoIs DEF PlanInv, WindowsOK
  <2>2. ASSUME lo < OPS, NEW guess \in lo + 1..OPS PROVE planChunk(guess) > lo
    <3>1. lo \in 0..OPS - 1
      BY <2>1, <2>2, PlanConstants
    <3>2. planChunk(guess) \in lo + 1..OPS
      BY <2>1, <2>2, <3>1, PlanChunkIs
    <3> QED
      BY <2>1, <3>2
  <2>3. FewestWindows
    BY <2>1, <2>2 DEF FewestWindows, WindowsOK, BestSoFar
  <2>4. ASSUME specs # <<>>, start > CHUNKS
        PROVE  Len(groups) = Fewest(CHUNKS, reasonableGroups)[CHUNKS]
    <3>1. Packed
      BY <2>1, <2>4 DEF GroupsOK
    <3>2. start - 1 = CHUNKS
      BY <2>1, <2>4, <3>1, StartIs DEF Packed
    <3> QED
      BY <3>1, <3>2 DEF Packed, BestSoFar
  <2>5. ASSUME NEW g \in DOMAIN groups PROVE Reasonable(firstOf(g), groups[g])
    <3>1. CASE specs = <<>>
      BY <2>1, <2>5, <3>1 DEF GroupsOK
    <3>2. CASE specs # <<>>
      BY <2>1, <3>2 DEF GroupsOK, Packed
    <3> QED
      BY <3>1, <3>2
  <2> QED
    BY <2>3, <2>4, <2>5 DEF FewestTransactions
<1> QED
  BY <1>1, PlanInvariant, PTL

\* No transaction ends within the span of a binding, or at a seam.
THEOREM BoundSpansTogetherAlways == PlanSpec => []BoundSpansTogether
<1>1. ASSUME PlanInv PROVE BoundSpansTogether
  <2>1. SUFFICES ASSUME NEW g \in DOMAIN groups
                 PROVE  /\ firstOf(g) <= groups[g]
                        /\ groups[g] < CHUNKS =>
                              /\ groups[g] \in links
                              /\ span # <<>> => ~(span[1] <= groups[g] /\ groups[g] < span[2])
    BY DEF BoundSpansTogether
  <2>2. Packed
    BY <1>1, <2>1 DEF PlanInv, GroupsOK
  <2>3. firstOf(g) <= groups[g] /\ groups[g] \in Ends /\ CHUNKS \in Nat
    BY <1>1, <2>1, <2>2, LoIs DEF PlanInv, Packed
  <2>4. ASSUME groups[g] < CHUNKS PROVE allowed(groups[g])
    BY <2>3, <2>4 DEF Ends
  <2> QED
    BY <2>3, <2>4 DEF allowed, blocked
<1> QED
  BY <1>1, PlanInvariant, PTL

=============================================================================
