----------------------------- MODULE NodeProofs -----------------------------
(***************************************************************************)
(* Theorems about the wallets and keepers of Node, for every set of them,  *)
(* every batch and ring size, and every bound on what is built or undone.  *)
(***************************************************************************)
EXTENDS Node, Covenant, Induction, SequenceTheorems, FiniteSetTheorems

(***************************************************************************)
(* The inductive invariant.  A list of transactions is good when each of   *)
(* them is valid at its place: then it spends every output once, and one   *)
(* output of D and one of W are left.  Every transaction names outputs     *)
(* there are, a copy holds the states of the outputs it names, and so does *)
(* every deposit and every flush that was built from one.                  *)
(***************************************************************************)
Kinds == {"deposit", "flush", "withdraw", "take"}
TxType == [kind : Kinds, note : Note \cup {NoNote},
           ins : SUBSET ({"D", "W", "worker"} \X Nat),
           d : DState, w : WState, root : Root]
CopyType == [d : DState, w : WState, dOp : {"D"} \X Nat, wOp : {"W"} \X Nat]

TypeOK ==
    /\ txs \in Seq(TxType)
    /\ chain \in Seq(DOMAIN txs) /\ mempool \in Seq(DOMAIN txs)
    /\ tipLen \in 0 .. Len(chain)
    /\ copy \in [Client -> CopyType]
    /\ job \in [Client -> [id : 0 .. Len(txs), sent : BOOLEAN]]
    /\ proof \in [Note -> Root]
    /\ takes \in Nat /\ reorgs \in Nat

\* op is an output of D (of W) that the genesis or a transaction made.
IsD(op) ==
    \/ op = Out("D", 0)
    \/ \E i \in DOMAIN txs : op = Out("D", i) /\ "D" \in Makes(txs[i])
IsW(op) ==
    \/ op = Out("W", 0)
    \/ \E i \in DOMAIN txs : op = Out("W", i) /\ "W" \in Makes(txs[i])

Spends(t) ==
    CASE t.kind = "deposit"  -> \E x : IsD(x) /\ t.ins = {x}
      [] t.kind = "flush"    -> \E x, y, i : /\ IsD(x) /\ IsW(y) /\ i \in Nat
                                             /\ t.ins = {x, y, Out("worker", i)}
      [] t.kind = "withdraw" -> \E y : IsW(y) /\ t.ins = {y}
      [] t.kind = "take"     -> \E i \in Nat : t.ins = {Out("worker", i)}

Built ==
    \A i \in DOMAIN txs :
        /\ Spends(txs[i])
        /\ txs[i].kind \in {"deposit", "withdraw"} => txs[i].note \in Note
        /\ txs[i].kind \in {"deposit", "flush"} => ScriptsPass(txs[i])

Good(s) == \A j \in DOMAIN s : Valid(txs[s[j]], SubSeq(s, 1, j - 1))

Holds(my) == /\ IsD(my.dOp) /\ my.d = DAt(my.dOp)
             /\ IsW(my.wOp) /\ my.w = WAt(my.wOp)
CopiesHold == \A c \in Client : Holds(copy[c])
JobsAreBuilt == \A c \in Client : job[c] = Idle \/ job[c].id \in DOMAIN txs

IInv == TypeOK /\ Built /\ Good(View) /\ CopiesHold /\ JobsAreBuilt

(***************************************************************************)
(* Outputs.                                                                *)
(***************************************************************************)
LEMMA TxIs ==
    ASSUME TypeOK, NEW i \in DOMAIN txs
    PROVE  /\ i \in Nat /\ i >= 1 /\ i \in 1..Len(txs) /\ Len(txs) \in Nat
           /\ txs[i] \in TxType /\ txs[i].kind \in Kinds
           /\ txs[i].d \in DState /\ txs[i].w \in WState
<1>1. txs \in Seq(TxType)
  BY DEF TypeOK
<1>2. txs[i] \in TxType /\ DOMAIN txs = 1..Len(txs) /\ Len(txs) \in Nat
  BY <1>1
<1> QED
  BY <1>2 DEF TxType

LEMMA Outs ==
    ASSUME NEW a, NEW b, NEW i, NEW j
    PROVE  Out(a, i)[1] = a /\ Out(a, i)[2] = i /\ (Out(a, i) = Out(b, j) <=> a = b /\ i = j)
BY DEF Out

LEMMA OutOfD ==
    ASSUME TypeOK, NEW x, IsD(x)
    PROVE  /\ x[1] = "D" /\ x \in {"D"} \X Nat /\ x[2] \in 0..Len(txs)
           /\ DAt(x) \in DState
<1>1. CASE x = Out("D", 0)
  <2>1. x[1] = "D" /\ x[2] = 0 /\ x = <<"D", 0>>
    BY <1>1, Outs DEF Out
  <2>2. DAt(x) = EmptyD
    BY <2>1 DEF DAt
  <2>3. EmptyD \in DState
    BY DEF EmptyD, DState
  <2>4. Len(txs) \in Nat
    BY DEF TypeOK
  <2> QED
    BY <2>1, <2>2, <2>3, <2>4
<1>2. ASSUME NEW i \in DOMAIN txs, x = Out("D", i)
      PROVE  x[1] = "D" /\ x \in {"D"} \X Nat /\ x[2] \in 0..Len(txs) /\ DAt(x) \in DState
  <2>1. x[1] = "D" /\ x[2] = i /\ x = <<"D", i>> /\ i \in Nat /\ i >= 1 /\ i \in 1..Len(txs)
    BY <1>2, Outs, TxIs DEF Out
  <2>2. DAt(x) = txs[i].d
    BY <2>1 DEF DAt
  <2> QED
    BY <2>1, <2>2, TxIs
<1> QED
  BY <1>1, <1>2 DEF IsD

LEMMA OutOfW ==
    ASSUME TypeOK, NEW x, IsW(x)
    PROVE  /\ x[1] = "W" /\ x \in {"W"} \X Nat /\ x[2] \in 0..Len(txs)
           /\ WAt(x) \in WState
<1>1. CASE x = Out("W", 0)
  <2>1. x[1] = "W" /\ x[2] = 0 /\ x = <<"W", 0>>
    BY <1>1, Outs DEF Out
  <2>2. WAt(x) = EmptyW
    BY <2>1 DEF WAt
  <2>3. EmptyW \in WState
    BY DEF EmptyW, WState, Root, Z
  <2>4. Len(txs) \in Nat
    BY DEF TypeOK
  <2> QED
    BY <2>1, <2>2, <2>3, <2>4
<1>2. ASSUME NEW i \in DOMAIN txs, x = Out("W", i)
      PROVE  x[1] = "W" /\ x \in {"W"} \X Nat /\ x[2] \in 0..Len(txs) /\ WAt(x) \in WState
  <2>1. x[1] = "W" /\ x[2] = i /\ x = <<"W", i>> /\ i \in Nat /\ i >= 1 /\ i \in 1..Len(txs)
    BY <1>2, Outs, TxIs DEF Out
  <2>2. WAt(x) = txs[i].w
    BY <2>1 DEF WAt
  <2> QED
    BY <2>1, <2>2, TxIs
<1> QED
  BY <1>1, <1>2 DEF IsW

\* Which outputs a transaction spends, by its kind.
LEMMA DepositIns ==
    ASSUME TypeOK, NEW t, Spends(t), t.kind = "deposit"
    PROVE  \E x : IsD(x) /\ t.ins = {x} /\ Input(t, "D") = x
<1>1. PICK x : IsD(x) /\ t.ins = {x}
  BY DEF Spends
<1>2. x[1] = "D"
  BY <1>1, OutOfD
<1>3. \A op \in t.ins : op = x
  BY <1>1
<1>4. Input(t, "D") = x
  BY <1>1, <1>2, <1>3 DEF Input
<1> QED
  BY <1>1, <1>4

LEMMA WithdrawIns ==
    ASSUME TypeOK, NEW t, Spends(t), t.kind = "withdraw"
    PROVE  \E y : IsW(y) /\ t.ins = {y} /\ Input(t, "W") = y
<1>1. PICK y : IsW(y) /\ t.ins = {y}
  BY DEF Spends
<1>2. y[1] = "W"
  BY <1>1, OutOfW
<1>3. Input(t, "W") = y
  BY <1>1, <1>2 DEF Input
<1> QED
  BY <1>1, <1>3

LEMMA FlushIns ==
    ASSUME TypeOK, NEW t, Spends(t), t.kind = "flush"
    PROVE  \E x, y : /\ IsD(x) /\ IsW(y)
                     /\ \E i \in Nat : t.ins = {x, y, Out("worker", i)}
                     /\ Input(t, "D") = x /\ Input(t, "W") = y
<1>1. PICK x, y, i : IsD(x) /\ IsW(y) /\ i \in Nat /\ t.ins = {x, y, Out("worker", i)}
  BY DEF Spends
<1>2. x[1] = "D" /\ y[1] = "W" /\ Out("worker", i)[1] = "worker"
  BY <1>1, OutOfD, OutOfW, Outs
<1>3. \A op \in t.ins : op[1] = "D" <=> op = x
  BY <1>1, <1>2
<1>4. \A op \in t.ins : op[1] = "W" <=> op = y
  BY <1>1, <1>2
<1>5. Input(t, "D") = x
  BY <1>1, <1>3 DEF Input
<1>6. Input(t, "W") = y
  BY <1>1, <1>4 DEF Input
<1> QED
  BY <1>1, <1>5, <1>6

LEMMA TakeIns ==
    ASSUME TypeOK, NEW t, Spends(t), t.kind = "take"
    PROVE  \E i \in Nat : t.ins = {Out("worker", i)}
BY DEF Spends

(***************************************************************************)
(* Lists.  x is the output of D and y the one of W that list p leaves.     *)
(***************************************************************************)
Tips(p, x, y) ==
    /\ Spent(p) \subseteq Made(p)
    /\ x \in Unspent(p) /\ IsD(x) /\ \A op \in Unspent(p) : op[1] = "D" => op = x
    /\ y \in Unspent(p) /\ IsW(y) /\ \A op \in Unspent(p) : op[1] = "W" => op = y

LEMMA RangeAppend ==
    ASSUME NEW S, NEW p \in Seq(S), NEW i \in S
    PROVE  Range(Append(p, i)) = Range(p) \cup {i}
<1>1. /\ Len(Append(p, i)) = Len(p) + 1 /\ Append(p, i)[Len(p) + 1] = i
      /\ \A j \in 1..Len(p) : Append(p, i)[j] = p[j]
      /\ Append(p, i) \in Seq(S)
  BY AppendProperties
<1>2. DOMAIN p = 1..Len(p) /\ DOMAIN Append(p, i) = 1..Len(p) + 1 /\ Len(p) \in Nat
  BY <1>1
<1>3. ASSUME NEW v \in Range(Append(p, i)) PROVE v \in Range(p) \cup {i}
  <2>1. PICK j \in DOMAIN Append(p, i) : v = Append(p, i)[j]
    BY DEF Range
  <2>2. CASE j = Len(p) + 1
    BY <1>1, <2>1, <2>2
  <2>3. CASE j # Len(p) + 1
    <3>1. j \in 1..Len(p)
      BY <1>2, <2>1, <2>3
    <3> QED
      BY <1>1, <1>2, <2>1, <3>1 DEF Range
  <2> QED
    BY <2>2, <2>3
<1>4. ASSUME NEW v \in Range(p) PROVE v \in Range(Append(p, i))
  <2>1. PICK j \in DOMAIN p : v = p[j]
    BY DEF Range
  <2> QED
    BY <1>1, <1>2, <2>1 DEF Range
<1>5. i \in Range(Append(p, i))
  BY <1>1, <1>2 DEF Range
<1> QED
  BY <1>3, <1>4, <1>5

LEMMA InMade ==
    ASSUME NEW s, NEW op
    PROVE  op \in Made(s) <=>
             \/ op = Out("D", 0) \/ op = Out("W", 0)
             \/ \E i \in DOMAIN txs : op = Out("worker", i)
             \/ \E i \in Range(s) : \E name \in Makes(txs[i]) : op = Out(name, i)
<1> DEFINE O(i) == {Out(name, i) : name \in Makes(txs[i])}
           U == UNION {O(i) : i \in Range(s)}
<1>1. op \in U <=> \E i \in Range(s) : op \in O(i)
  <2> HIDE DEF O
  <2> QED
    BY Zenon
<1>2. \A i \in Range(s) : op \in O(i) <=> \E name \in Makes(txs[i]) : op = Out(name, i)
  OBVIOUS
<1>3. Made(s) = {Out("D", 0), Out("W", 0)} \cup {Out("worker", i) : i \in DOMAIN txs} \cup U
  BY DEF Made
<1> HIDE DEF U, O
<1> QED
  BY <1>1, <1>2, <1>3

LEMMA ListAppend ==
    ASSUME NEW p \in Seq(DOMAIN txs), NEW i \in DOMAIN txs
    PROVE  /\ Made(Append(p, i)) = Made(p) \cup {Out(name, i) : name \in Makes(txs[i])}
           /\ Spent(Append(p, i)) = Spent(p) \cup txs[i].ins
<1>1. Range(Append(p, i)) = Range(p) \cup {i}
  BY RangeAppend
<1>2. Spent(Append(p, i)) = Spent(p) \cup txs[i].ins
  BY <1>1 DEF Spent
<1>3. ASSUME NEW op
      PROVE  op \in Made(Append(p, i)) <=>
                op \in Made(p) \/ op \in {Out(name, i) : name \in Makes(txs[i])}
  BY <1>1, InMade
<1> QED
  BY <1>2, <1>3

\* The outputs a transaction spends: some, and one of D if it makes one, one of
\* W if it makes one.
LEMMA InsOf ==
    ASSUME TypeOK, Built, NEW i \in DOMAIN txs
    PROVE  /\ txs[i].ins # {}
           /\ Makes(txs[i]) \subseteq {"D", "W"}
           /\ IF "D" \in Makes(txs[i])
              THEN /\ IsD(Input(txs[i], "D")) /\ Input(txs[i], "D") \in txs[i].ins
                   /\ \A op \in txs[i].ins : op[1] = "D" => op = Input(txs[i], "D")
              ELSE \A op \in txs[i].ins : op[1] # "D"
           /\ IF "W" \in Makes(txs[i])
              THEN /\ IsW(Input(txs[i], "W")) /\ Input(txs[i], "W") \in txs[i].ins
                   /\ \A op \in txs[i].ins : op[1] = "W" => op = Input(txs[i], "W")
              ELSE \A op \in txs[i].ins : op[1] # "W"
<1>1. Spends(txs[i]) /\ txs[i].kind \in Kinds
  BY TxIs DEF Built
<1>2. CASE txs[i].kind = "deposit"
  <2>1. Makes(txs[i]) = {"D"}
    BY <1>2 DEF Makes
  <2>2. PICK x : IsD(x) /\ txs[i].ins = {x} /\ Input(txs[i], "D") = x
    BY <1>1, <1>2, DepositIns
  <2>3. x[1] = "D"
    BY <2>2, OutOfD
  <2> QED
    BY <2>1, <2>2, <2>3
<1>3. CASE txs[i].kind = "withdraw"
  <2>1. Makes(txs[i]) = {"W"}
    BY <1>3 DEF Makes
  <2>2. PICK x : IsW(x) /\ txs[i].ins = {x} /\ Input(txs[i], "W") = x
    BY <1>1, <1>3, WithdrawIns
  <2>3. x[1] = "W"
    BY <2>2, OutOfW
  <2> QED
    BY <2>1, <2>2, <2>3
<1>4. CASE txs[i].kind = "flush"
  <2>1. Makes(txs[i]) = {"D", "W"}
    BY <1>4 DEF Makes
  <2>2. PICK x, y : /\ IsD(x) /\ IsW(y)
                    /\ \E k \in Nat : txs[i].ins = {x, y, Out("worker", k)}
                    /\ Input(txs[i], "D") = x /\ Input(txs[i], "W") = y
    BY <1>1, <1>4, FlushIns
  <2>3. PICK k \in Nat : txs[i].ins = {x, y, Out("worker", k)}
    BY <2>2
  <2>4. x[1] = "D" /\ y[1] = "W" /\ Out("worker", k)[1] = "worker"
    BY <2>2, OutOfD, OutOfW, Outs
  <2> QED
    BY <2>1, <2>2, <2>3, <2>4
<1>5. CASE txs[i].kind = "take"
  <2>1. Makes(txs[i]) = {}
    BY <1>5 DEF Makes
  <2>2. PICK k \in Nat : txs[i].ins = {Out("worker", k)}
    BY <1>1, <1>5, TakeIns
  <2>3. Out("worker", k)[1] = "worker"
    BY Outs
  <2> QED
    BY <2>1, <2>2, <2>3
<1> QED
  BY <1>1, <1>2, <1>3, <1>4, <1>5 DEF Kinds

LEMMA TipsOfNone ==
    ASSUME TypeOK
    PROVE  Tips(<<>>, Out("D", 0), Out("W", 0))
<1>1. Spent(<<>>) = {}
  BY DEF Spent, Range
<1>r. Range(<<>>) = {}
  BY DEF Range
<1>2. \A op : op \in Made(<<>>) <=> \/ op = Out("D", 0) \/ op = Out("W", 0)
                                  \/ \E i \in DOMAIN txs : op = Out("worker", i)
  BY <1>r, InMade
<1>3. \A i \in DOMAIN txs : Out("worker", i)[1] = "worker"
  BY Outs
<1>4. Out("D", 0)[1] = "D" /\ Out("W", 0)[1] = "W"
  BY Outs
<1> QED
  BY <1>1, <1>2, <1>3, <1>4 DEF Tips, Unspent, IsD, IsW

\* No transaction is on a list it can be appended to, nor are its outputs.
LEMMA NotThereYet ==
    ASSUME TypeOK, Built, NEW p \in Seq(DOMAIN txs), NEW i \in DOMAIN txs, Valid(txs[i], p),
           NEW name \in {"D", "W"}
    PROVE  Out(name, i) \notin Made(p)
<1>1. SUFFICES ASSUME Out(name, i) \in Made(p) PROVE FALSE
  OBVIOUS
<1>2. i # 0 /\ name # "worker"
  BY TxIs
<1>3. Out(name, i) # Out("D", 0) /\ Out(name, i) # Out("W", 0)
  BY <1>2, Outs
<1>4. \A k \in DOMAIN txs : Out(name, i) # Out("worker", k)
  BY <1>2, Outs
<1>5. PICK k \in Range(p) : \E m \in Makes(txs[k]) : Out(name, i) = Out(m, k)
  BY <1>1, <1>3, <1>4, InMade
<1>6. k = i
  BY <1>5, Outs
<1>7. txs[i].ins \subseteq Spent(p)
  BY <1>5, <1>6 DEF Spent
<1>8. txs[i].ins \subseteq Unspent(p) /\ txs[i].ins # {}
  BY InsOf DEF Valid
<1> QED
  BY <1>7, <1>8 DEF Unspent

LEMMA TipsAppend ==
    ASSUME TypeOK, Built, NEW p \in Seq(DOMAIN txs), NEW i \in DOMAIN txs, Valid(txs[i], p),
           NEW x, NEW y, Tips(p, x, y)
    PROVE  /\ Tips(Append(p, i), IF "D" \in Makes(txs[i]) THEN Out("D", i) ELSE x,
                                 IF "W" \in Makes(txs[i]) THEN Out("W", i) ELSE y)
           /\ "D" \in Makes(txs[i]) => Input(txs[i], "D") = x
           /\ "W" \in Makes(txs[i]) => Input(txs[i], "W") = y
<1> DEFINE q == Append(p, i)
           new == {Out(name, i) : name \in Makes(txs[i])}
           ins == txs[i].ins
<1>1. Made(q) = Made(p) \cup new /\ Spent(q) = Spent(p) \cup ins
  BY ListAppend
<1>2. ins \subseteq Unspent(p)
  BY DEF Valid
<1>3. Makes(txs[i]) \subseteq {"D", "W"}
  BY InsOf
<1>4. \A op \in new : op \notin Made(p)
  BY <1>3, NotThereYet
<1>5. \A op \in new : op[1] \in Makes(txs[i]) /\ op = Out(op[1], i)
  BY Outs
<1> HIDE DEF new
<1>6. Spent(q) \subseteq Made(q)
  BY <1>1, <1>2 DEF Unspent, Tips
<1>7. Unspent(q) = (Unspent(p) \ ins) \cup new
  BY <1>1, <1>2, <1>4 DEF Unspent, Tips
<1>8. x[1] = "D" /\ y[1] = "W"
  BY OutOfD, OutOfW DEF Tips
<1>d. ASSUME "D" \in Makes(txs[i])
      PROVE  /\ Input(txs[i], "D") = x /\ Out("D", i) \in Unspent(q) /\ IsD(Out("D", i))
             /\ \A op \in Unspent(q) : op[1] = "D" => op = Out("D", i)
  <2>1. Input(txs[i], "D") \in ins /\ IsD(Input(txs[i], "D"))
    BY <1>d, InsOf
  <2>2. Input(txs[i], "D")[1] = "D"
    BY <2>1, OutOfD
  <2>3. Input(txs[i], "D") = x
    BY <1>2, <2>1, <2>2 DEF Tips
  <2>4. Out("D", i) \in new
    BY <1>d DEF new
  <2>5. IsD(Out("D", i))
    BY <1>d DEF IsD
  <2>6. ASSUME NEW op \in Unspent(q), op[1] = "D" PROVE op = Out("D", i)
    <3>1. CASE op \in new
      BY <1>5, <2>6, <3>1
    <3>2. CASE op \in Unspent(p) \ ins
      BY <2>1, <2>3, <2>6, <3>2 DEF Tips
    <3> QED
      BY <1>7, <3>1, <3>2
  <2> QED
    BY <1>7, <2>3, <2>4, <2>5, <2>6
<1>e. ASSUME "D" \notin Makes(txs[i])
       PROVE  x \in Unspent(q) /\ \A op \in Unspent(q) : op[1] = "D" => op = x
  <2>1. \A op \in ins : op[1] # "D"
    BY <1>e, InsOf
  <2>2. \A op \in new : op[1] # "D"
    BY <1>e, <1>5
  <2> QED
    BY <1>7, <1>8, <2>1, <2>2 DEF Tips
<1>w. ASSUME "W" \in Makes(txs[i])
      PROVE  /\ Input(txs[i], "W") = y /\ Out("W", i) \in Unspent(q) /\ IsW(Out("W", i))
             /\ \A op \in Unspent(q) : op[1] = "W" => op = Out("W", i)
  <2>1. Input(txs[i], "W") \in ins /\ IsW(Input(txs[i], "W"))
    BY <1>w, InsOf
  <2>2. Input(txs[i], "W")[1] = "W"
    BY <2>1, OutOfW
  <2>3. Input(txs[i], "W") = y
    BY <1>2, <2>1, <2>2 DEF Tips
  <2>4. Out("W", i) \in new
    BY <1>w DEF new
  <2>5. IsW(Out("W", i))
    BY <1>w DEF IsW
  <2>6. ASSUME NEW op \in Unspent(q), op[1] = "W" PROVE op = Out("W", i)
    <3>1. CASE op \in new
      BY <1>5, <2>6, <3>1
    <3>2. CASE op \in Unspent(p) \ ins
      BY <2>1, <2>3, <2>6, <3>2 DEF Tips
    <3> QED
      BY <1>7, <3>1, <3>2
  <2> QED
    BY <1>7, <2>3, <2>4, <2>5, <2>6
<1>v. ASSUME "W" \notin Makes(txs[i])
       PROVE  y \in Unspent(q) /\ \A op \in Unspent(q) : op[1] = "W" => op = y
  <2>1. \A op \in ins : op[1] # "W"
    BY <1>v, InsOf
  <2>2. \A op \in new : op[1] # "W"
    BY <1>v, <1>5
  <2> QED
    BY <1>7, <1>8, <2>1, <2>2 DEF Tips
<1> HIDE DEF q
<1>9. IsD(x) /\ IsW(y)
  BY DEF Tips
<1>10. CASE "D" \in Makes(txs[i]) /\ "W" \in Makes(txs[i])
  BY <1>6, <1>d, <1>w, <1>10 DEF Tips, q
<1>11. CASE "D" \in Makes(txs[i]) /\ "W" \notin Makes(txs[i])
  BY <1>6, <1>9, <1>d, <1>v, <1>11 DEF Tips, q
<1>12. CASE "D" \notin Makes(txs[i]) /\ "W" \in Makes(txs[i])
  BY <1>6, <1>9, <1>e, <1>w, <1>12 DEF Tips, q
<1>13. CASE "D" \notin Makes(txs[i]) /\ "W" \notin Makes(txs[i])
  BY <1>6, <1>9, <1>e, <1>v, <1>13 DEF Tips, q
<1> QED
  BY <1>10, <1>11, <1>12, <1>13

(***************************************************************************)
(* History.  fd, ff and fw are the notes of the deposits, the flushes and  *)
(* the withdrawals on list p.                                              *)
(***************************************************************************)
NoteOrNone == Note \cup {NoNote}
KeysOf(f) == {KeyOf[NfOf[n]] : n \in Range(f)}
OnceEach(f) ==
    \A a, b \in DOMAIN f : KeyOf[NfOf[f[a]]] = KeyOf[NfOf[f[b]]] => a = b

Told(x, y, fd, ff, fw) ==
    /\ DAt(x).leaves \o DAt(x).pending = fd
    /\ WAt(y).epoch = Len(ff)
    /\ WAt(y).keys = KeysOf(fw) /\ OnceEach(fw)

With(f, kind, t) == IF t.kind = kind THEN Append(f, t.note) ELSE f

LEMMA DAtOut ==
    ASSUME TypeOK, NEW i \in DOMAIN txs
    PROVE  DAt(Out("D", i)) = txs[i].d /\ WAt(Out("W", i)) = txs[i].w
<1>1. Out("D", i)[2] = i /\ Out("W", i)[2] = i /\ i # 0
  BY TxIs, Outs
<1> QED
  BY <1>1 DEF DAt, WAt

LEMMA KeysAppend ==
    ASSUME NEW f \in Seq(NoteOrNone), NEW n \in NoteOrNone
    PROVE  /\ KeysOf(Append(f, n)) = KeysOf(f) \cup {KeyOf[NfOf[n]]}
           /\ OnceEach(f) /\ KeyOf[NfOf[n]] \notin KeysOf(f) => OnceEach(Append(f, n))
<1>1. Range(Append(f, n)) = Range(f) \cup {n}
  BY RangeAppend
<1>2. KeysOf(Append(f, n)) = KeysOf(f) \cup {KeyOf[NfOf[n]]}
  BY <1>1 DEF KeysOf
<1>3. ASSUME OnceEach(f), KeyOf[NfOf[n]] \notin KeysOf(f) PROVE OnceEach(Append(f, n))
  <2> DEFINE g == Append(f, n)
  <2>1. /\ Len(g) = Len(f) + 1 /\ g[Len(f) + 1] = n /\ g \in Seq(NoteOrNone)
        /\ \A j \in 1..Len(f) : g[j] = f[j]
    BY AppendProperties
  <2>2. DOMAIN f = 1..Len(f) /\ DOMAIN g = 1..Len(f) + 1 /\ Len(f) \in Nat
    BY <2>1
  <2>3. \A j \in 1..Len(f) : KeyOf[NfOf[f[j]]] \in KeysOf(f)
    BY <2>2 DEF KeysOf, Range
  <2> HIDE DEF g
  <2>4. ASSUME NEW a \in DOMAIN g, NEW b \in DOMAIN g, KeyOf[NfOf[g[a]]] = KeyOf[NfOf[g[b]]]
        PROVE  a = b
    <3>1. \A j \in DOMAIN g : j = Len(f) + 1 \/ j \in 1..Len(f)
      BY <2>2
    <3>2. CASE a \in 1..Len(f) /\ b \in 1..Len(f)
      <4>1. KeyOf[NfOf[f[a]]] = KeyOf[NfOf[f[b]]]
        BY <2>1, <2>4, <3>2
      <4> QED
        BY <1>3, <2>2, <3>2, <4>1 DEF OnceEach
    <3>3. CASE a \in 1..Len(f) /\ b = Len(f) + 1
      BY <1>3, <2>1, <2>3, <2>4, <3>3
    <3>4. CASE a = Len(f) + 1 /\ b \in 1..Len(f)
      BY <1>3, <2>1, <2>3, <2>4, <3>4
    <3> QED
      BY <3>1, <3>2, <3>3, <3>4
  <2> QED
    BY <2>4 DEF OnceEach, g
<1> QED
  BY <1>2, <1>3

LEMMA AppendLast ==
    ASSUME NEW S, NEW a \in Seq(S), NEW b \in Seq(S), NEW n \in S
    PROVE  a \o Append(b, n) = Append(a \o b, n)
<1>1. Append(b, n) = b \o <<n>> /\ Append(a \o b, n) = (a \o b) \o <<n>> /\ <<n>> \in Seq(S)
  BY AppendIsConcat
<1> QED
  BY <1>1, ConcatAssociative

LEMMA DepositTold ==
    ASSUME TypeOK, Built, NEW i \in DOMAIN txs, txs[i].kind = "deposit", ScriptsPass(txs[i]),
           NEW x, NEW y, IsD(x), IsW(y), NEW fd, NEW ff, NEW fw, Told(x, y, fd, ff, fw),
           Input(txs[i], "D") = x
    PROVE  Told(Out("D", i), y, Append(fd, txs[i].note), ff, fw)
<1>1. DAt(x) \in DState /\ txs[i].note \in Leaf /\ DAt(Out("D", i)) = DepositD(DAt(x), txs[i].note)
  <2>1. txs[i].note \in Leaf /\ txs[i].d = DepositD(DAt(x), txs[i].note)
    BY DEF ScriptsPass, DepositScript, DepositAllowed
  <2> QED
    BY <2>1, DAtOut, OutOfD
<1>2. /\ DAt(Out("D", i)).leaves = DAt(x).leaves
      /\ DAt(Out("D", i)).pending = Append(DAt(x).pending, txs[i].note)
  BY <1>1 DEF DepositD, DState
<1>3. DAt(x).leaves \in Seq(Leaf) /\ DAt(x).pending \in Seq(Leaf)
  BY <1>1 DEF DState
<1>4. DAt(x).leaves \o Append(DAt(x).pending, txs[i].note)
        = Append(DAt(x).leaves \o DAt(x).pending, txs[i].note)
  <2> DEFINE a == DAt(x).leaves
             b == DAt(x).pending
             n == txs[i].note
  <2>1. a \in Seq(Leaf) /\ b \in Seq(Leaf) /\ n \in Leaf
    BY <1>1, <1>3
  <2> HIDE DEF a, b, n
  <2>2. a \o Append(b, n) = Append(a \o b, n)
    BY <2>1, AppendLast
  <2> QED
    BY <2>2 DEF a, b, n
<1> QED
  BY <1>2, <1>4 DEF Told

LEMMA FlushTold ==
    ASSUME TypeOK, Built, NEW i \in DOMAIN txs, txs[i].kind = "flush", ScriptsPass(txs[i]),
           NEW x, NEW y, IsD(x), IsW(y), NEW fd, NEW ff \in Seq(NoteOrNone), NEW fw,
           Told(x, y, fd, ff, fw), Input(txs[i], "D") = x, Input(txs[i], "W") = y
    PROVE  Told(Out("D", i), Out("W", i), fd, Append(ff, txs[i].note), fw)
<1>1. /\ DAt(x) \in DState /\ DAt(Out("D", i)) = FlushD(DAt(x))
      /\ WAt(y) \in WState /\ WAt(Out("W", i)) = FlushW(WAt(y), FlushD(DAt(x)).leaves)
  <2>1. txs[i].d = FlushD(DAt(x)) /\ txs[i].w = FlushW(WAt(y), FlushD(DAt(x)).leaves)
    BY DEF ScriptsPass, FlushScript
  <2> QED
    BY <2>1, DAtOut, OutOfD, OutOfW
<1>2. /\ DAt(Out("D", i)).leaves = DAt(x).leaves \o DAt(x).pending
      /\ DAt(Out("D", i)).pending = <<>>
  <2> DEFINE e == DAt(Out("D", i))
  <2>1. e = [pending |-> <<>>, leaves |-> DAt(x).leaves \o DAt(x).pending]
    BY <1>1 DEF FlushD
  <2> HIDE DEF e
  <2>2. e.pending = <<>> /\ e.leaves = DAt(x).leaves \o DAt(x).pending
    BY <2>1
  <2> QED
    BY <2>2 DEF e
<1>3. DAt(x).leaves \o DAt(x).pending \in Seq(Leaf)
  BY <1>1, ConcatProperties DEF DState
<1>4. (DAt(x).leaves \o DAt(x).pending) \o <<>> = DAt(x).leaves \o DAt(x).pending
  BY <1>3, ConcatEmptySeq
<1>5. WAt(Out("W", i)).keys = WAt(y).keys /\ WAt(Out("W", i)).epoch = WAt(y).epoch + 1
  BY <1>1 DEF FlushW, WState
<1>6. txs[i].note \in NoteOrNone
  BY TxIs DEF TxType, NoteOrNone
<1>7. Len(Append(ff, txs[i].note)) = Len(ff) + 1
  BY <1>6, AppendProperties
<1> QED
  BY <1>2, <1>4, <1>5, <1>7 DEF Told

LEMMA WithdrawTold ==
    ASSUME TypeOK, Built, NEW i \in DOMAIN txs, txs[i].kind = "withdraw", ScriptsPass(txs[i]),
           NEW x, NEW y, IsD(x), IsW(y), NEW fd, NEW ff, NEW fw \in Seq(NoteOrNone),
           Told(x, y, fd, ff, fw), Input(txs[i], "W") = y
    PROVE  Told(x, Out("W", i), fd, ff, Append(fw, txs[i].note))
<1>1. /\ WAt(y) \in WState /\ WAt(Out("W", i)) = WithdrawW(WAt(y), txs[i].note)
      /\ KeyOf[NfOf[txs[i].note]] \notin WAt(y).keys
  <2>1. /\ txs[i].w = WithdrawW(WAt(y), txs[i].note)
        /\ KeyOf[NfOf[txs[i].note]] \notin WAt(y).keys
    BY DEF ScriptsPass, WithdrawScript, WithdrawAllowed
  <2> QED
    BY <2>1, DAtOut, OutOfW
<1>2. /\ WAt(Out("W", i)).keys = WAt(y).keys \cup {KeyOf[NfOf[txs[i].note]]}
      /\ WAt(Out("W", i)).epoch = WAt(y).epoch
  BY <1>1 DEF WithdrawW, WState
<1>3. txs[i].note \in NoteOrNone
  BY TxIs DEF TxType, NoteOrNone
<1> QED
  BY <1>1, <1>2, <1>3, KeysAppend DEF Told

LEMMA ToldAppend ==
    ASSUME TypeOK, Built, NEW p \in Seq(DOMAIN txs), NEW i \in DOMAIN txs, Valid(txs[i], p),
           NEW x, NEW y, Tips(p, x, y),
           NEW fd \in Seq(NoteOrNone), NEW ff \in Seq(NoteOrNone), NEW fw \in Seq(NoteOrNone),
           Told(x, y, fd, ff, fw)
    PROVE  \E x1, y1 : /\ Tips(Append(p, i), x1, y1)
                       /\ Told(x1, y1, With(fd, "deposit", txs[i]), With(ff, "flush", txs[i]),
                               With(fw, "withdraw", txs[i]))
<1> DEFINE x1 == IF "D" \in Makes(txs[i]) THEN Out("D", i) ELSE x
           y1 == IF "W" \in Makes(txs[i]) THEN Out("W", i) ELSE y
<1>1. /\ Tips(Append(p, i), x1, y1)
      /\ "D" \in Makes(txs[i]) => Input(txs[i], "D") = x
      /\ "W" \in Makes(txs[i]) => Input(txs[i], "W") = y
  BY TipsAppend
<1>2. IsD(x) /\ IsW(y) /\ ScriptsPass(txs[i]) /\ txs[i].kind \in Kinds
  BY TxIs DEF Tips, Valid
<1>3. CASE txs[i].kind = "deposit"
  <2>1. Makes(txs[i]) = {"D"} /\ x1 = Out("D", i) /\ y1 = y
    BY <1>3 DEF Makes
  <2> QED
    BY <1>1, <1>2, <1>3, <2>1, DepositTold DEF With
<1>4. CASE txs[i].kind = "flush"
  <2>1. Makes(txs[i]) = {"D", "W"} /\ x1 = Out("D", i) /\ y1 = Out("W", i)
    BY <1>4 DEF Makes
  <2> QED
    BY <1>1, <1>2, <1>4, <2>1, FlushTold DEF With
<1>5. CASE txs[i].kind = "withdraw"
  <2>1. Makes(txs[i]) = {"W"} /\ x1 = x /\ y1 = Out("W", i)
    BY <1>5 DEF Makes
  <2> QED
    BY <1>1, <1>2, <1>5, <2>1, WithdrawTold DEF With
<1>6. CASE txs[i].kind = "take"
  <2>1. Makes(txs[i]) = {} /\ x1 = x /\ y1 = y
    BY <1>6 DEF Makes
  <2> QED
    BY <1>1, <1>6, <2>1 DEF With
<1> QED
  BY <1>2, <1>3, <1>4, <1>5, <1>6 DEF Kinds

\* What Notes computes.
LEMMA NotesIs ==
    ASSUME TypeOK, NEW s \in Seq(DOMAIN txs), NEW kind
    PROVE  \E f \in [0..Len(s) -> Seq(NoteOrNone)] :
              /\ f[0] = <<>>
              /\ \A j \in 1..Len(s) : f[j] = With(f[j - 1], kind, txs[s[j]])
              /\ Notes(s, kind) = f[Len(s)]
<1> DEFINE S == Seq(NoteOrNone)
           n == Len(s)
           F == [q \in S \X (1..n) |-> With(q[1], kind, txs[s[q[2]]])]
           Eqn(f) == f = [j \in 0..n |->
                            IF j = 0 THEN <<>>
                            ELSE IF txs[s[j]].kind = kind
                                 THEN Append(f[j - 1], txs[s[j]].note) ELSE f[j - 1]]
<1>1. n \in Nat /\ <<>> \in S
  BY EmptySeq
<1>2. ASSUME NEW q \in S, NEW j \in 1..n
      PROVE  With(q, kind, txs[s[j]]) \in S /\ F[<<q, j>>] = With(q, kind, txs[s[j]])
  <2>1. s[j] \in DOMAIN txs
    OBVIOUS
  <2>2. txs[s[j]].note \in NoteOrNone
    BY <2>1, TxIs DEF TxType, NoteOrNone
  <2>3. Append(q, txs[s[j]].note) \in S
    BY <2>2, AppendProperties
  <2> QED
    BY <2>3 DEF With
<1>3. StaysIn(F, S, n)
  BY <1>2 DEF StaysIn
<1> HIDE DEF S, F, n
<1>4. PICK f \in [0..n -> S] : f[0] = <<>> /\ \A j \in 1..n : f[j] = F[<<f[j - 1], j>>]
  <2> DEFINE a == <<>>
  <2>1. n \in Nat /\ a \in S
    BY <1>1
  <2> HIDE DEF a
  <2>2. \E h \in [0..n -> S] : Follows(h, a, F, n)
    BY <1>3, <2>1, Recursion
  <2> QED
    BY <2>2 DEF a, Follows
<1>5. \A j \in 1..n : f[j] = With(f[j - 1], kind, txs[s[j]])
  <2> TAKE j \in 1..n
  <2>1. j - 1 \in 0..n
    BY <1>1
  <2>2. f[j - 1] \in S
    BY <1>4, <2>1
  <2> QED
    BY <1>2, <1>4, <2>2
<1>6. Eqn(f)
  <2> DEFINE g == [j \in 0..n |->
                            IF j = 0 THEN <<>>
                            ELSE IF txs[s[j]].kind = kind
                                 THEN Append(f[j - 1], txs[s[j]].note) ELSE f[j - 1]]
  <2>1. ASSUME NEW j \in 0..n PROVE f[j] = g[j]
    <3>1. CASE j = 0
      BY <1>4, <3>1
    <3>2. CASE j # 0
      <4>1. j \in 1..n
        BY <1>1, <3>2
      <4> QED
        BY <1>5, <3>2, <4>1 DEF With
    <3> QED
      BY <3>1, <3>2
  <2>2. DOMAIN f = 0..n /\ f = [j \in 0..n |-> f[j]]
    OBVIOUS
  <2> QED
    BY <2>1, <2>2
<1>7. ASSUME NEW h, Eqn(h) PROVE h[n] = f[n]
  <2> DEFINE T == {k \in 0..n : h[k] = f[k]}
  <2>0. h[0] = <<>> /\ \A j \in 1..n : h[j] = With(h[j - 1], kind, txs[s[j]])
    <3> DEFINE e(j) == IF j = 0 THEN <<>>
                            ELSE IF txs[s[j]].kind = kind
                                 THEN Append(h[j - 1], txs[s[j]].note) ELSE h[j - 1]
    <3>1. \A j \in 0..n : h[j] = e(j)
      <4>1. h = [j \in 0..n |-> e(j)]
        BY <1>7
      <4> HIDE DEF e
      <4> QED
        BY <4>1
    <3>2. h[0] = <<>>
      BY <1>1, <3>1
    <3>3. ASSUME NEW j \in 1..n PROVE h[j] = With(h[j - 1], kind, txs[s[j]])
      <4>1. j \in 0..n /\ j # 0
        BY <1>1
      <4> QED
        BY <3>1, <4>1 DEF With
    <3> QED
      BY <3>2, <3>3
  <2>1. 0 \in T
    BY <1>1, <1>4, <2>0
  <2>2. ASSUME NEW k \in 0..n, k \in T, k < n PROVE k + 1 \in T
    <3>1. k + 1 \in 1..n /\ (k + 1) - 1 = k /\ k + 1 \in 0..n
      BY <1>1, <2>2
    <3>2. h[k] = f[k]
      BY <2>2
    <3>3. h[k + 1] = With(h[k], kind, txs[s[k + 1]])
      BY <2>0, <3>1
    <3>4. f[k + 1] = With(f[k], kind, txs[s[k + 1]])
      BY <1>5, <3>1
    <3> QED
      BY <3>1, <3>2, <3>3, <3>4
  <2> HIDE DEF T
  <2>3. \A k \in 0..n : k \in T /\ k < n => k + 1 \in T
    BY <2>2
  <2>4. \A k \in 0..n : k \in T
    BY <1>1, <2>1, <2>3, UpTo
  <2>5. n \in T
    BY <1>1, <2>4
  <2> QED
    BY <2>5 DEF T
<1>8. Notes(s, kind) = (CHOOSE h : Eqn(h))[n]
  BY DEF Notes, n
<1> HIDE DEF Eqn
<1>9. Notes(s, kind) = f[n]
  <2>1. Eqn(CHOOSE h : Eqn(h))
    BY <1>6
  <2> QED
    BY <1>7, <1>8, <2>1
<1> QED
  BY <1>4, <1>5, <1>9 DEF S, n

LEMMA GoodPart ==
    ASSUME TypeOK, NEW s \in Seq(DOMAIN txs), NEW k \in 0..Len(s), Good(s)
    PROVE  /\ SubSeq(s, 1, k) \in Seq(DOMAIN txs) /\ Len(SubSeq(s, 1, k)) = k
           /\ Good(SubSeq(s, 1, k))
           /\ k < Len(s) => /\ s[k + 1] \in DOMAIN txs
                            /\ SubSeq(s, 1, k + 1) = Append(SubSeq(s, 1, k), s[k + 1])
                            /\ Valid(txs[s[k + 1]], SubSeq(s, 1, k))
<1> DEFINE p == SubSeq(s, 1, k)
<1>1. Len(s) \in Nat /\ k \in Nat /\ k <= Len(s)
  OBVIOUS
<1>2. p \in Seq(DOMAIN txs) /\ Len(p) = k /\ \A j \in 1..k : p[j] = s[j]
  <2>1. \A j \in 1..k : s[j] \in DOMAIN txs
    BY <1>1
  <2> QED
    BY <1>1, <2>1, SubSeqProperties
<1>3. ASSUME NEW j \in DOMAIN p PROVE Valid(txs[p[j]], SubSeq(p, 1, j - 1))
  <2>1. j \in 1..k /\ j \in DOMAIN s
    BY <1>1, <1>2
  <2>2. SubSeq(p, 1, j - 1) = SubSeq(s, 1, j - 1)
    BY <1>1, <1>2, <2>1
  <2> QED
    BY <1>2, <2>1, <2>2 DEF Good
<1>4. ASSUME k < Len(s)
      PROVE  /\ s[k + 1] \in DOMAIN txs
             /\ SubSeq(s, 1, k + 1) = Append(SubSeq(s, 1, k), s[k + 1])
             /\ Valid(txs[s[k + 1]], SubSeq(s, 1, k))
  <2>1. k + 1 \in DOMAIN s /\ (k + 1) - 1 = k
    BY <1>1, <1>4
  <2>2. s[k + 1] \in DOMAIN txs
    BY <2>1
  <2>3. Valid(txs[s[k + 1]], SubSeq(s, 1, k))
    BY <2>1 DEF Good
  <2>4. SubSeq(s, 1, k + 1) = Append(SubSeq(s, 1, k), s[k + 1])
    BY <1>1, <1>4
  <2> QED
    BY <2>2, <2>3, <2>4
<1> QED
  BY <1>2, <1>3, <1>4 DEF Good

\* The history of a good list, by induction on its length.
LEMMA GoodTold ==
    ASSUME TypeOK, Built, NEW s \in Seq(DOMAIN txs), Good(s)
    PROVE  /\ Notes(s, "deposit") \in Seq(NoteOrNone)
           /\ Notes(s, "flush") \in Seq(NoteOrNone)
           /\ Notes(s, "withdraw") \in Seq(NoteOrNone)
           /\ \E x, y : /\ Tips(s, x, y)
                        /\ Told(x, y, Notes(s, "deposit"), Notes(s, "flush"), Notes(s, "withdraw"))
<1> DEFINE n == Len(s)
<1>1. PICK fd \in [0..n -> Seq(NoteOrNone)] :
              /\ fd[0] = <<>>
              /\ \A j \in 1..n : fd[j] = With(fd[j - 1], "deposit", txs[s[j]])
              /\ Notes(s, "deposit") = fd[n]
  BY NotesIs
<1>2. PICK ff \in [0..n -> Seq(NoteOrNone)] :
              /\ ff[0] = <<>>
              /\ \A j \in 1..n : ff[j] = With(ff[j - 1], "flush", txs[s[j]])
              /\ Notes(s, "flush") = ff[n]
  BY NotesIs
<1>3. PICK fw \in [0..n -> Seq(NoteOrNone)] :
              /\ fw[0] = <<>>
              /\ \A j \in 1..n : fw[j] = With(fw[j - 1], "withdraw", txs[s[j]])
              /\ Notes(s, "withdraw") = fw[n]
  BY NotesIs
<1> DEFINE P(k) == \E x, y : Tips(SubSeq(s, 1, k), x, y) /\ Told(x, y, fd[k], ff[k], fw[k])
           T == {k \in 0..n : P(k)}
<1>4. n \in Nat
  OBVIOUS
<1>5. 0 \in T
  <2>1. SubSeq(s, 1, 0) = <<>>
    BY <1>4
  <2>2. Tips(SubSeq(s, 1, 0), Out("D", 0), Out("W", 0))
    BY <2>1, TipsOfNone
  <2>3. DAt(Out("D", 0)) = EmptyD /\ WAt(Out("W", 0)) = EmptyW
    BY Outs DEF DAt, WAt
  <2>4. KeysOf(<<>>) = {} /\ OnceEach(<<>>) /\ Len(<<>>) = 0
    BY DEF KeysOf, OnceEach, Range
  <2>5. <<>> \o <<>> = <<>>
    BY ConcatEmptySeq, EmptySeq
  <2>6. Told(Out("D", 0), Out("W", 0), <<>>, <<>>, <<>>)
    <3>1. EmptyD.leaves = <<>> /\ EmptyD.pending = <<>>
      BY DEF EmptyD
    <3>2. EmptyW.epoch = 0 /\ EmptyW.keys = {}
      BY DEF EmptyW
    <3> QED
      BY <2>3, <2>4, <2>5, <3>1, <3>2 DEF Told
  <2>7. Told(Out("D", 0), Out("W", 0), fd[0], ff[0], fw[0])
    BY <1>1, <1>2, <1>3, <2>6
  <2> QED
    BY <1>4, <2>2, <2>7
<1>6. ASSUME NEW k \in 0..n, k \in T, k < n PROVE k + 1 \in T
  <2>1. PICK x, y : Tips(SubSeq(s, 1, k), x, y) /\ Told(x, y, fd[k], ff[k], fw[k])
    BY <1>6
  <2> DEFINE p == SubSeq(s, 1, k)
             i == s[k + 1]
  <2>2. /\ p \in Seq(DOMAIN txs) /\ i \in DOMAIN txs /\ Valid(txs[i], p)
        /\ SubSeq(s, 1, k + 1) = Append(p, i)
    BY <1>4, <1>6, GoodPart
  <2>3. k + 1 \in 1..n /\ (k + 1) - 1 = k /\ k \in 0..n /\ k + 1 \in 0..n
    BY <1>4, <1>6
  <2>4. /\ fd[k + 1] = With(fd[k], "deposit", txs[i])
        /\ ff[k + 1] = With(ff[k], "flush", txs[i])
        /\ fw[k + 1] = With(fw[k], "withdraw", txs[i])
    BY <1>1, <1>2, <1>3, <2>3
  <2>5. fd[k] \in Seq(NoteOrNone) /\ ff[k] \in Seq(NoteOrNone) /\ fw[k] \in Seq(NoteOrNone)
    BY <2>3
  <2> HIDE DEF p, i
  <2>6. \E x1, y1 : /\ Tips(Append(p, i), x1, y1)
                    /\ Told(x1, y1, With(fd[k], "deposit", txs[i]),
                            With(ff[k], "flush", txs[i]), With(fw[k], "withdraw", txs[i]))
    BY <2>1, <2>2, <2>5, ToldAppend DEF p
  <2>7. P(k + 1)
    BY <2>2, <2>4, <2>6
  <2> QED
    BY <2>3, <2>7
<1> HIDE DEF T, n
<1>7. n \in T
  <2>1. \A k \in 0..n : k \in T /\ k < n => k + 1 \in T
    BY <1>6
  <2>2. \A k \in 0..n : k \in T
    BY <1>4, <1>5, <2>1, UpTo
  <2> QED
    BY <1>4, <2>2
<1>8. SubSeq(s, 1, n) = s
  BY SubSeqFull DEF n
<1>9. P(n)
  BY <1>7 DEF T
<1>10. n \in 0..n
  BY <1>4
<1> QED
  BY <1>1, <1>2, <1>3, <1>8, <1>9, <1>10

(***************************************************************************)
(* What the invariant gives.                                               *)
(***************************************************************************)
LEMMA TipIs ==
    ASSUME NEW s, NEW x, NEW y, TypeOK, Tips(s, x, y)
    PROVE  TipOf(s) = [d |-> DAt(x), w |-> WAt(y), dOp |-> x, wOp |-> y]
<1>1. x[1] = "D" /\ y[1] = "W"
  BY OutOfD, OutOfW DEF Tips
<1>2. x = CHOOSE op \in Unspent(s) : op[1] = "D"
  BY <1>1 DEF Tips
<1>3. y = CHOOSE op \in Unspent(s) : op[1] = "W"
  BY <1>1 DEF Tips
<1> QED
  BY <1>2, <1>3 DEF TipOf

LEMMA ViewIs ==
    ASSUME TypeOK
    PROVE  /\ View \in Seq(DOMAIN txs) /\ Len(View) = Len(chain) + Len(mempool)
           /\ Len(chain) \in Nat /\ Len(mempool) \in Nat
           /\ SubSeq(View, 1, Len(chain)) = chain
           /\ Range(View) = Range(chain) \cup Range(mempool)
<1>1. chain \in Seq(DOMAIN txs) /\ mempool \in Seq(DOMAIN txs)
  BY DEF TypeOK
<1>2. /\ View \in Seq(DOMAIN txs) /\ Len(View) = Len(chain) + Len(mempool)
      /\ \A i \in 1..Len(chain) : View[i] = chain[i]
      /\ \A i \in 1..Len(mempool) : View[Len(chain) + i] = mempool[i]
      /\ Len(chain) \in Nat /\ Len(mempool) \in Nat
  BY <1>1, ConcatProperties DEF View
<1>3. SubSeq(View, 1, Len(chain)) = chain
  <2>1. Len(SubSeq(View, 1, Len(chain))) = Len(chain)
        /\ SubSeq(View, 1, Len(chain)) \in Seq(DOMAIN txs)
    BY <1>2, SubSeqProperties
  <2>2. \A i \in 1..Len(chain) : SubSeq(View, 1, Len(chain))[i] = chain[i]
    BY <1>2, SubSeqProperties
  <2> QED
    BY <1>1, <2>1, <2>2, SeqEqual
<1>4. Range(View) = Range(chain) \cup Range(mempool)
  <2>1. /\ DOMAIN View = 1..Len(View)
        /\ DOMAIN chain = 1..Len(chain) /\ DOMAIN mempool = 1..Len(mempool)
    BY <1>1, <1>2
  <2>2. ASSUME NEW v \in Range(View) PROVE v \in Range(chain) \cup Range(mempool)
    <3>1. PICK i \in 1..Len(View) : v = View[i]
      BY <2>1 DEF Range
    <3>2. CASE i <= Len(chain)
      <4>1. i \in 1..Len(chain)
        BY <1>2, <3>2
      <4> QED
        BY <1>2, <2>1, <3>1, <4>1 DEF Range
    <3>3. CASE i > Len(chain)
      <4>1. i - Len(chain) \in 1..Len(mempool) /\ Len(chain) + (i - Len(chain)) = i
        BY <1>2, <3>3
      <4>2. v = mempool[i - Len(chain)]
        BY <1>2, <3>1, <4>1
      <4> QED
        BY <2>1, <4>1, <4>2 DEF Range
    <3> QED
      BY <1>2, <3>2, <3>3
  <2>3. ASSUME NEW v \in Range(chain) PROVE v \in Range(View)
    <3>1. PICK i \in 1..Len(chain) : v = chain[i]
      BY <2>1, <2>3 DEF Range
    <3>2. i \in 1..Len(View) /\ v = View[i]
      BY <1>2, <3>1
    <3> QED
      BY <2>1, <3>2 DEF Range
  <2>4. ASSUME NEW v \in Range(mempool) PROVE v \in Range(View)
    <3>1. PICK i \in 1..Len(mempool) : v = mempool[i]
      BY <2>1, <2>4 DEF Range
    <3>2. Len(chain) + i \in 1..Len(View) /\ v = View[Len(chain) + i]
      BY <1>2, <3>1
    <3> QED
      BY <2>1, <3>2 DEF Range
  <2> QED
    BY <2>2, <2>3, <2>4
<1> QED
  BY <1>2, <1>3, <1>4

LEMMA ChainIsGood ==
    ASSUME TypeOK, Good(View)
    PROVE  Good(chain)
<1>1. Len(chain) \in 0..Len(View)
  BY ViewIs
<1>2. View \in Seq(DOMAIN txs)
  BY ViewIs
<1>3. Good(SubSeq(View, 1, Len(chain)))
  BY <1>1, <1>2, GoodPart
<1> QED
  BY <1>3, ViewIs

LEMMA HistoryFromIInv ==
    ASSUME IInv
    PROVE  StateIsHistory
<1>1. ASSUME NEW s \in Seq(DOMAIN txs), Good(s)
      PROVE  /\ TipOf(s).d.leaves \o TipOf(s).d.pending = Notes(s, "deposit")
             /\ TipOf(s).w.epoch = Len(Notes(s, "flush"))
             /\ TipOf(s).w.keys = {KeyOf[NfOf[n]] : n \in Range(Notes(s, "withdraw"))}
  <2>1. PICK x, y : /\ Tips(s, x, y)
                    /\ Told(x, y, Notes(s, "deposit"), Notes(s, "flush"), Notes(s, "withdraw"))
    BY <1>1, GoodTold DEF IInv
  <2>2. TipOf(s) = [d |-> DAt(x), w |-> WAt(y), dOp |-> x, wOp |-> y]
    BY <2>1, TipIs DEF IInv
  <2>3. TipOf(s).d = DAt(x) /\ TipOf(s).w = WAt(y)
    BY <2>2
  <2> QED
    BY <2>1, <2>3 DEF Told, KeysOf
<1>2. chain \in Seq(DOMAIN txs) /\ View \in Seq(DOMAIN txs)
  BY ViewIs DEF IInv, TypeOK
<1>3. Good(chain) /\ Good(View)
  BY ChainIsGood DEF IInv
<1> QED
  BY <1>1, <1>2, <1>3 DEF StateIsHistory

LEMMA PaidFromIInv ==
    ASSUME IInv
    PROVE  PaidOncePerChain
<1>1. PICK x, y : Told(x, y, Notes(View, "deposit"), Notes(View, "flush"), Notes(View, "withdraw"))
  BY ViewIs, GoodTold DEF IInv
<1> QED
  BY <1>1 DEF Told, OnceEach, PaidOncePerChain

LEMMA CopyFromIInv ==
    ASSUME IInv
    PROVE  CopyIsItsOutputs
BY DEF IInv, CopiesHold, Holds, Built, CopyIsItsOutputs

(***************************************************************************)
(* Steps.  Transactions are added and never changed, so what is said of    *)
(* them stays true.                                                        *)
(***************************************************************************)
Grown ==
    /\ txs' \in Seq(TxType) /\ DOMAIN txs \subseteq DOMAIN txs'
    /\ \A i \in DOMAIN txs : txs'[i] = txs[i]

LEMMA GrownOuts ==
    ASSUME TypeOK, Grown, NEW x
    PROVE  /\ IsD(x) => IsD(x)' /\ DAt(x)' = DAt(x)
           /\ IsW(x) => IsW(x)' /\ WAt(x)' = WAt(x)
<1>1. ASSUME IsD(x) PROVE IsD(x)' /\ DAt(x)' = DAt(x)
  <2>1. IsD(x)'
    BY <1>1 DEF IsD, Grown
  <2>2. x[2] = 0 \/ x[2] \in DOMAIN txs
    BY <1>1, Outs DEF IsD
  <2>3. DAt(x)' = DAt(x)
    BY <2>2 DEF DAt, Grown
  <2> QED
    BY <2>1, <2>3
<1>2. ASSUME IsW(x) PROVE IsW(x)' /\ WAt(x)' = WAt(x)
  <2>1. IsW(x)'
    BY <1>2 DEF IsW, Grown
  <2>2. x[2] = 0 \/ x[2] \in DOMAIN txs
    BY <1>2, Outs DEF IsW
  <2>3. WAt(x)' = WAt(x)
    BY <2>2 DEF WAt, Grown
  <2> QED
    BY <2>1, <2>3
<1> QED
  BY <1>1, <1>2

LEMMA GrownSpends ==
    ASSUME TypeOK, Grown, NEW t, t.kind \in Kinds, Spends(t)
    PROVE  Spends(t)'
<1>1. CASE t.kind = "deposit"
  <2>1. PICK x : IsD(x) /\ t.ins = {x}
    BY <1>1 DEF Spends
  <2>2. IsD(x)'
    BY <2>1, GrownOuts
  <2> QED
    BY <1>1, <2>1, <2>2 DEF Spends
<1>2. CASE t.kind = "flush"
  <2>1. PICK x, y, i : IsD(x) /\ IsW(y) /\ i \in Nat /\ t.ins = {x, y, Out("worker", i)}
    BY <1>2 DEF Spends
  <2>2. IsD(x)' /\ IsW(y)'
    BY <2>1, GrownOuts
  <2> QED
    BY <1>2, <2>1, <2>2 DEF Spends
<1>3. CASE t.kind = "withdraw"
  <2>1. PICK y : IsW(y) /\ t.ins = {y}
    BY <1>3 DEF Spends
  <2>2. IsW(y)'
    BY <2>1, GrownOuts
  <2> QED
    BY <1>3, <2>1, <2>2 DEF Spends
<1>4. CASE t.kind = "take"
  BY <1>4 DEF Spends
<1> QED
  BY <1>1, <1>2, <1>3, <1>4 DEF Kinds

LEMMA GrownScript ==
    ASSUME TypeOK, Grown, NEW t, t.kind \in Kinds, Spends(t), ScriptsPass(t)
    PROVE  ScriptsPass(t)'
<1>1. CASE t.kind = "deposit"
  <2>1. PICK x : IsD(x) /\ Input(t, "D") = x
    BY <1>1, DepositIns
  <2>2. DAt(Input(t, "D"))' = DAt(Input(t, "D"))
    BY <2>1, GrownOuts
  <2> QED
    BY <1>1, <2>2 DEF ScriptsPass, DepositScript
<1>2. CASE t.kind = "flush"
  <2>1. PICK x, y : IsD(x) /\ IsW(y) /\ Input(t, "D") = x /\ Input(t, "W") = y
    BY <1>2, FlushIns
  <2>2. /\ DAt(Input(t, "D"))' = DAt(Input(t, "D"))
        /\ WAt(Input(t, "W"))' = WAt(Input(t, "W"))
    BY <2>1, GrownOuts
  <2> QED
    BY <1>2, <2>2 DEF ScriptsPass, FlushScript
<1>3. CASE t.kind = "withdraw"
  <2>1. PICK y : IsW(y) /\ Input(t, "W") = y
    BY <1>3, WithdrawIns
  <2>2. WAt(Input(t, "W"))' = WAt(Input(t, "W"))
    BY <2>1, GrownOuts
  <2> QED
    BY <1>3, <2>2 DEF ScriptsPass, WithdrawScript
<1>4. CASE t.kind = "take"
  BY <1>4 DEF ScriptsPass
<1> QED
  BY <1>1, <1>2, <1>3, <1>4 DEF Kinds

LEMMA GrownValid ==
    ASSUME TypeOK, Grown, NEW s \in Seq(DOMAIN txs),
           NEW t, t.kind \in Kinds, Spends(t), Valid(t, s)
    PROVE  Valid(t, s)'
<1>1. \A i \in Range(s) : i \in DOMAIN txs /\ i \in DOMAIN txs' /\ txs'[i] = txs[i]
  BY DEF Range, Grown
<1>2. Spent(s)' = Spent(s)
  BY <1>1 DEF Spent
<1>3. Made(s) \subseteq Made(s)'
  <2> DEFINE O(i) == {Out(name, i) : name \in Makes(txs[i])}
             P(i) == {Out(name, i) : name \in Makes(txs'[i])}
             base == {Out("D", 0), Out("W", 0)}
  <2>1. Made(s) = base \cup {Out("worker", i) : i \in DOMAIN txs} \cup UNION {O(i) : i \in Range(s)}
    BY DEF Made
  <2>2. Made(s)' = base \cup {Out("worker", i) : i \in DOMAIN txs'}
                       \cup UNION {P(i) : i \in Range(s)}
    BY DEF Made
  <2>3. \A i \in Range(s) : O(i) = P(i)
    BY <1>1
  <2>4. {Out("worker", i) : i \in DOMAIN txs} \subseteq {Out("worker", i) : i \in DOMAIN txs'}
    BY DEF Grown
  <2> HIDE DEF O, P, base
  <2>5. UNION {O(i) : i \in Range(s)} = UNION {P(i) : i \in Range(s)}
    BY <2>3
  <2> QED
    BY <2>1, <2>2, <2>4, <2>5
<1>4. ScriptsPass(t)'
  BY GrownScript DEF Valid
<1> QED
  BY <1>2, <1>3, <1>4 DEF Valid, Unspent

\* A list that is good stays good.
LEMMA GrownGood ==
    ASSUME TypeOK, Built, Grown, NEW s \in Seq(DOMAIN txs), Good(s)
    PROVE  Good(s)'
<1> SUFFICES ASSUME NEW j \in DOMAIN s PROVE Valid(txs[s[j]], SubSeq(s, 1, j - 1))'
  BY DEF Good
<1>1. j \in 1..Len(s) /\ s[j] \in DOMAIN txs /\ Len(s) \in Nat
  OBVIOUS
<1>2. PICK t : t = txs[s[j]]
  OBVIOUS
<1>3. PICK p : p = SubSeq(s, 1, j - 1)
  OBVIOUS
<1>4. p \in Seq(DOMAIN txs)
  <2>1. j - 1 \in 0..Len(s)
    BY <1>1
  <2> QED
    BY <1>3, <2>1, GoodPart
<1>5. Valid(t, p)
  BY <1>2, <1>3 DEF Good
<1>6. Spends(t) /\ t.kind \in Kinds
  BY <1>1, <1>2, TxIs DEF Built
<1>7. Valid(t, p)'
  BY <1>4, <1>5, <1>6, GrownValid
<1>8. txs'[s[j]] = t
  BY <1>1, <1>2 DEF Grown
<1> QED
  BY <1>3, <1>7, <1>8

LEMMA GrownBuilt ==
    ASSUME TypeOK, Built, Grown, NEW i \in DOMAIN txs
    PROVE  /\ Spends(txs[i])'
           /\ txs'[i].kind \in {"deposit", "withdraw"} => txs'[i].note \in Note
           /\ txs'[i].kind \in {"deposit", "flush"} => ScriptsPass(txs[i])'
<1>1. PICK t : t = txs[i]
  OBVIOUS
<1>2. /\ t.kind \in Kinds /\ Spends(t)
      /\ t.kind \in {"deposit", "withdraw"} => t.note \in Note
      /\ t.kind \in {"deposit", "flush"} => ScriptsPass(t)
  BY <1>1, TxIs DEF Built
<1>3. txs'[i] = t
  BY <1>1 DEF Grown
<1>4. Spends(t)'
  BY <1>2, GrownSpends
<1>5. t.kind \in {"deposit", "flush"} => ScriptsPass(t)'
  BY <1>2, GrownScript
<1> QED
  BY <1>2, <1>3, <1>4, <1>5

LEMMA SameTxs ==
    ASSUME TypeOK, Built, txs' = txs
    PROVE  Grown /\ Built' /\ \A s \in Seq(DOMAIN txs) : Good(s) => Good(s)'
<1>1. Grown
  BY DEF Grown, TypeOK
<1>2. Built'
  BY <1>1, GrownBuilt DEF Built
<1>3. \A s \in Seq(DOMAIN txs) : Good(s) => Good(s)'
  BY <1>1, GrownGood
<1> QED
  BY <1>1, <1>2, <1>3

LEMMA AppendTxs ==
    ASSUME TypeOK, Built, NEW t \in TxType, txs' = Append(txs, t),
           Spends(t)', t.kind \in {"deposit", "withdraw"} => t.note \in Note,
           t.kind \in {"deposit", "flush"} => ScriptsPass(t)'
    PROVE  /\ Grown /\ Built' /\ \A s \in Seq(DOMAIN txs) : Good(s) => Good(s)'
           /\ Len(txs') = Len(txs) + 1 /\ txs'[Len(txs) + 1] = t /\ Len(txs) \in Nat
           /\ DOMAIN txs' = DOMAIN txs \cup {Len(txs) + 1} /\ DOMAIN txs = 1..Len(txs)
<1>1. txs \in Seq(TxType)
  BY DEF TypeOK
<1>2. /\ txs' \in Seq(TxType) /\ Len(txs') = Len(txs) + 1
      /\ \A i \in 1..Len(txs) : txs'[i] = txs[i]
      /\ txs'[Len(txs) + 1] = t
  BY <1>1, AppendProperties
<1>3. Len(txs) \in Nat /\ DOMAIN txs = 1..Len(txs) /\ DOMAIN txs' = 1..Len(txs) + 1
  BY <1>1, <1>2
<1>4. DOMAIN txs' = DOMAIN txs \cup {Len(txs) + 1}
  BY <1>3
<1>5. Grown
  BY <1>2, <1>3, <1>4 DEF Grown
<1>6. Built'
  BY <1>2, <1>4, <1>5, GrownBuilt DEF Built
<1>7. \A s \in Seq(DOMAIN txs) : Good(s) => Good(s)'
  BY <1>5, GrownGood
<1> QED
  BY <1>2, <1>3, <1>4, <1>5, <1>6, <1>7

LEMMA GrownLists ==
    ASSUME Grown
    PROVE  \A s \in Seq(DOMAIN txs) : s \in Seq(DOMAIN txs')
BY SeqMonotonic DEF Grown

(***************************************************************************)
(* Copies, and what becomes of lists.                                      *)
(***************************************************************************)
LEMMA HoldsKept ==
    ASSUME TypeOK, Grown, NEW my, Holds(my)
    PROVE  Holds(my)'
<1>1. PICK x, y : x = my.dOp /\ y = my.wOp
  OBVIOUS
<1>2. IsD(x) /\ IsW(y) /\ my.d = DAt(x) /\ my.w = WAt(y)
  BY <1>1 DEF Holds
<1>3. IsD(x)' /\ IsW(y)' /\ my.d = DAt(x)' /\ my.w = WAt(y)'
  BY <1>2, GrownOuts
<1> QED
  BY <1>1, <1>3 DEF Holds

LEMMA CopiesKept ==
    ASSUME TypeOK, Grown, CopiesHold, copy' = copy
    PROVE  CopiesHold'
<1> SUFFICES ASSUME NEW c \in Client PROVE Holds(copy[c])'
  BY DEF CopiesHold
<1>1. PICK my : my = copy[c]
  OBVIOUS
<1>2. Holds(my)'
  BY <1>1, HoldsKept DEF CopiesHold
<1> QED
  BY <1>1, <1>2

\* One copy is replaced by one that holds.
LEMMA CopiesReplaced ==
    ASSUME TypeOK, Grown, CopiesHold, NEW c \in Client, NEW my \in CopyType, Holds(my),
           copy' = [copy EXCEPT ![c] = my]
    PROVE  copy' \in [Client -> CopyType] /\ CopiesHold'
<1>1. copy \in [Client -> CopyType]
  BY DEF TypeOK
<1>2. ASSUME NEW e \in Client PROVE Holds(copy[e])'
  <2>1. PICK other : other = copy'[e]
    OBVIOUS
  <2>2. other = my \/ other = copy[e]
    BY <1>1, <2>1
  <2>3. Holds(other)
    BY <2>2 DEF CopiesHold
  <2> QED
    BY <2>1, <2>3, HoldsKept
<1> QED
  BY <1>1, <1>2 DEF CopiesHold

LEMMA AdvanceHolds ==
    ASSUME TypeOK, NEW my \in CopyType, Holds(my), NEW i \in DOMAIN txs
    PROVE  Advance(my, i) \in CopyType /\ Holds(Advance(my, i))
<1> DEFINE a == Advance(my, i)
           hasD == "D" \in Makes(txs[i])
           hasW == "W" \in Makes(txs[i])
<1>1. /\ a.d = IF hasD THEN txs[i].d ELSE my.d
      /\ a.dOp = IF hasD THEN Out("D", i) ELSE my.dOp
      /\ a.w = IF hasW THEN txs[i].w ELSE my.w
      /\ a.wOp = IF hasW THEN Out("W", i) ELSE my.wOp
  BY DEF Advance
<1>2. IsD(a.dOp) /\ a.d = DAt(a.dOp)
  <2>1. CASE hasD
    BY <1>1, <2>1, DAtOut DEF IsD
  <2>2. CASE ~hasD
    BY <1>1, <2>2 DEF Holds
  <2> QED
    BY <2>1, <2>2
<1>3. IsW(a.wOp) /\ a.w = WAt(a.wOp)
  <2>1. CASE hasW
    BY <1>1, <2>1, DAtOut DEF IsW
  <2>2. CASE ~hasW
    BY <1>1, <2>2 DEF Holds
  <2> QED
    BY <2>1, <2>2
<1>4. /\ a.dOp \in {"D"} \X Nat /\ a.d \in DState
      /\ a.wOp \in {"W"} \X Nat /\ a.w \in WState
  BY <1>2, <1>3, OutOfD, OutOfW
<1>5. a = [d |-> a.d, dOp |-> a.dOp, w |-> a.w, wOp |-> a.wOp]
  BY DEF Advance
<1> HIDE DEF a
<1> QED
  BY <1>2, <1>3, <1>4, <1>5 DEF CopyType, Holds, a

LEMMA TipHolds ==
    ASSUME TypeOK, Built, NEW s \in Seq(DOMAIN txs), Good(s)
    PROVE  TipOf(s) \in CopyType /\ Holds(TipOf(s))
<1>1. PICK x, y : Tips(s, x, y)
  BY GoodTold
<1>2. TipOf(s) = [d |-> DAt(x), w |-> WAt(y), dOp |-> x, wOp |-> y]
  BY <1>1, TipIs
<1>3. IsD(x) /\ IsW(y)
  BY <1>1 DEF Tips
<1>4. /\ x \in {"D"} \X Nat /\ DAt(x) \in DState
      /\ y \in {"W"} \X Nat /\ WAt(y) \in WState
  BY <1>3, OutOfD, OutOfW
<1> QED
  BY <1>2, <1>3, <1>4 DEF CopyType, Holds

LEMMA AppendPlaces ==
    ASSUME NEW S, NEW s \in Seq(S), NEW i \in S, NEW q, q = Append(s, i)
    PROVE  /\ q \in Seq(S)
           /\ \A j \in DOMAIN q :
                \/ q[j] = i /\ SubSeq(q, 1, j - 1) = s
                \/ j \in DOMAIN s /\ q[j] = s[j] /\ SubSeq(q, 1, j - 1) = SubSeq(s, 1, j - 1)
<1>1. /\ q \in Seq(S) /\ Len(q) = Len(s) + 1 /\ q[Len(s) + 1] = i
      /\ \A j \in 1..Len(s) : q[j] = s[j]
      /\ Len(s) \in Nat
  BY AppendProperties
<1>2. ASSUME NEW j \in DOMAIN q
      PROVE  \/ q[j] = i /\ SubSeq(q, 1, j - 1) = s
             \/ j \in DOMAIN s /\ q[j] = s[j] /\ SubSeq(q, 1, j - 1) = SubSeq(s, 1, j - 1)
  <2>1. j \in 1..Len(s) + 1 /\ DOMAIN s = 1..Len(s)
    BY <1>1
  <2>2. SubSeq(q, 1, j - 1) = SubSeq(s, 1, j - 1)
    BY <1>1, <2>1
  <2>3. CASE j = Len(s) + 1
    <3>1. SubSeq(s, 1, j - 1) = s
      BY <1>1, <2>3, SubSeqFull
    <3> QED
      BY <1>1, <2>2, <2>3, <3>1
  <2>4. CASE j # Len(s) + 1
    <3>1. j \in DOMAIN s /\ q[j] = s[j]
      BY <1>1, <2>1, <2>4
    <3> QED
      BY <2>2, <3>1
  <2> QED
    BY <2>3, <2>4
<1> QED
  BY <1>1, <1>2

LEMMA GoodAppend ==
    ASSUME NEW s \in Seq(DOMAIN txs), Good(s), NEW i \in DOMAIN txs, Valid(txs[i], s)
    PROVE  Append(s, i) \in Seq(DOMAIN txs) /\ Good(Append(s, i))
<1>1. PICK q : q = Append(s, i)
  OBVIOUS
<1>2. /\ q \in Seq(DOMAIN txs)
      /\ \A j \in DOMAIN q :
            \/ q[j] = i /\ SubSeq(q, 1, j - 1) = s
            \/ j \in DOMAIN s /\ q[j] = s[j] /\ SubSeq(q, 1, j - 1) = SubSeq(s, 1, j - 1)
  BY <1>1, AppendPlaces
<1> QED
  BY <1>1, <1>2 DEF Good

\* Revalidating a list after a good one gives a good one.
LEMMA RevalidateIs ==
    ASSUME TypeOK, NEW s \in Seq(DOMAIN txs), NEW list \in Seq(DOMAIN txs), Good(s)
    PROVE  Revalidate(s, list) \in Seq(DOMAIN txs) /\ Good(s \o Revalidate(s, list))
<1> DEFINE S == {kept \in Seq(DOMAIN txs) : Good(s \o kept)}
           n == Len(list)
           next(before, i) == IF Valid(txs[i], s \o before) THEN Append(before, i) ELSE before
           F == [q \in S \X (1..n) |-> next(q[1], list[q[2]])]
           Eqn(f) == f = [j \in 0..n |-> IF j = 0 THEN <<>> ELSE next(f[j - 1], list[j])]
<1>1. n \in Nat /\ <<>> \in S
  <2>1. <<>> \in Seq(DOMAIN txs) /\ s \o <<>> = s
    BY EmptySeq, ConcatEmptySeq
  <2> QED
    BY <2>1
<1>2. ASSUME NEW q \in S, NEW j \in 1..n
      PROVE  next(q, list[j]) \in S /\ F[<<q, j>>] = next(q, list[j])
  <2>1. PICK i \in DOMAIN txs : i = list[j]
    OBVIOUS
  <2>2. CASE Valid(txs[i], s \o q)
    <3>1. Append(q, i) \in Seq(DOMAIN txs) /\ s \o q \in Seq(DOMAIN txs)
      BY AppendProperties, ConcatProperties
    <3>2. s \o Append(q, i) = Append(s \o q, i)
      BY AppendLast
    <3>3. Good(Append(s \o q, i))
      BY <2>2, <3>1, GoodAppend
    <3> QED
      BY <2>1, <2>2, <3>1, <3>2, <3>3
  <2>3. CASE ~Valid(txs[i], s \o q)
    BY <2>1, <2>3
  <2> QED
    BY <2>2, <2>3
<1>3. StaysIn(F, S, n)
  BY <1>2 DEF StaysIn
<1> HIDE DEF S, F, n, next
<1>4. PICK f \in [0..n -> S] : f[0] = <<>> /\ \A j \in 1..n : f[j] = F[<<f[j - 1], j>>]
  <2> DEFINE a == <<>>
  <2>1. n \in Nat /\ a \in S
    BY <1>1
  <2> HIDE DEF a
  <2>2. \E h \in [0..n -> S] : Follows(h, a, F, n)
    BY <1>3, <2>1, Recursion
  <2> QED
    BY <2>2 DEF a, Follows
<1>5. \A j \in 1..n : f[j] = next(f[j - 1], list[j])
  <2> TAKE j \in 1..n
  <2>1. j - 1 \in 0..n
    BY <1>1
  <2>2. f[j - 1] \in S
    BY <1>4, <2>1
  <2> QED
    BY <1>2, <1>4, <2>2
<1>6. Eqn(f)
  <2>1. \A j \in 0..n : f[j] = IF j = 0 THEN <<>> ELSE next(f[j - 1], list[j])
    BY <1>1, <1>4, <1>5
  <2> QED
    BY <2>1
<1>7. ASSUME NEW h, Eqn(h) PROVE h[n] = f[n]
  <2> DEFINE T == {k \in 0..n : h[k] = f[k]}
  <2>1. \A j \in 0..n : h[j] = IF j = 0 THEN <<>> ELSE next(h[j - 1], list[j])
    BY <1>7
  <2>2. 0 \in T
    BY <1>1, <1>4, <2>1
  <2>3. ASSUME NEW k \in 0..n, k \in T, k < n PROVE k + 1 \in T
    <3>1. k + 1 \in 1..n /\ (k + 1) - 1 = k /\ k + 1 \in 0..n /\ k + 1 # 0
      BY <1>1, <2>3
    <3>2. h[k] = f[k]
      BY <2>3
    <3>3. h[k + 1] = next(h[k], list[k + 1])
      BY <2>1, <3>1
    <3>4. f[k + 1] = next(f[k], list[k + 1])
      BY <1>5, <3>1
    <3> QED
      BY <3>1, <3>2, <3>3, <3>4
  <2> HIDE DEF T
  <2>4. \A k \in 0..n : k \in T /\ k < n => k + 1 \in T
    BY <2>3
  <2>5. \A k \in 0..n : k \in T
    BY <1>1, <2>2, <2>4, UpTo
  <2>6. n \in T
    BY <1>1, <2>5
  <2> QED
    BY <2>6 DEF T
<1>8. Revalidate(s, list) = (CHOOSE h : Eqn(h))[n]
  BY DEF Revalidate, n, next
<1> HIDE DEF Eqn
<1>9. Revalidate(s, list) = f[n]
  <2>1. Eqn(CHOOSE h : Eqn(h))
    BY <1>6
  <2> QED
    BY <1>7, <1>8, <2>1
<1>10. f[n] \in S
  BY <1>1, <1>4
<1> QED
  BY <1>9, <1>10 DEF S

(***************************************************************************)
(* The actions.                                                            *)
(***************************************************************************)
LEMMA InitIInv == Init => IInv
<1> SUFFICES ASSUME Init PROVE IInv
  OBVIOUS
<1>1. /\ txs = <<>> /\ chain = <<>> /\ tipLen = 0 /\ mempool = <<>>
      /\ copy = [c \in Client |-> [d |-> EmptyD, w |-> EmptyW,
                                   dOp |-> Out("D", 0), wOp |-> Out("W", 0)]]
      /\ job = [c \in Client |-> Idle] /\ proof = [n \in Note |-> Z]
      /\ takes = 0 /\ reorgs = 0
  BY DEF Init
<1>2. EmptyD \in DState /\ EmptyW \in WState /\ Z \in Root
  BY DEF EmptyD, EmptyW, DState, WState, Root, Z
<1>3. Out("D", 0) \in {"D"} \X Nat /\ Out("W", 0) \in {"W"} \X Nat
  BY DEF Out
<1>4. [d |-> EmptyD, w |-> EmptyW, dOp |-> Out("D", 0), wOp |-> Out("W", 0)] \in CopyType
  BY <1>2, <1>3 DEF CopyType
<1>5. Len(txs) = 0 /\ DOMAIN txs = {} /\ Len(chain) = 0 /\ txs \in Seq(TxType)
  BY <1>1
<1>6. Idle \in [id : 0..Len(txs), sent : BOOLEAN]
  BY <1>5 DEF Idle
<1>7. TypeOK
  <2>1. copy \in [Client -> CopyType]
    BY <1>1, <1>4
  <2>2. job \in [Client -> [id : 0..Len(txs), sent : BOOLEAN]]
    BY <1>1, <1>6
  <2>3. chain \in Seq(DOMAIN txs) /\ mempool \in Seq(DOMAIN txs)
    BY <1>1
  <2>4. proof \in [Note -> Root]
    BY <1>1, <1>2
  <2> QED
    BY <1>1, <1>5, <2>1, <2>2, <2>3, <2>4 DEF TypeOK
<1>8. Built
  BY <1>5 DEF Built
<1>9. View = <<>>
  BY <1>1 DEF View
<1>10. Good(View)
  BY <1>9 DEF Good
<1>11. DAt(Out("D", 0)) = EmptyD /\ WAt(Out("W", 0)) = EmptyW
  BY Outs DEF DAt, WAt
<1>12. CopiesHold
  BY <1>1, <1>11 DEF CopiesHold, Holds, IsD, IsW
<1>13. JobsAreBuilt
  BY <1>1 DEF JobsAreBuilt
<1> QED
  BY <1>7, <1>8, <1>10, <1>12, <1>13 DEF IInv

\* Lists that are the same in the next state stay good.
LEMMA ViewKept ==
    ASSUME TypeOK, Built, Grown, Good(View), View' = View
    PROVE  Good(View)'
<1>1. PICK s : s = View
  OBVIOUS
<1>2. s \in Seq(DOMAIN txs) /\ Good(s)
  BY <1>1, ViewIs
<1>3. Good(s)'
  BY <1>2, GrownGood
<1> QED
  BY <1>1, <1>3

LEMMA JobsKept ==
    ASSUME TypeOK, Grown, JobsAreBuilt, job' = job
    PROVE  job' \in [Client -> [id : 0..Len(txs'), sent : BOOLEAN]] /\ JobsAreBuilt'
<1>1. 0..Len(txs) \subseteq 0..Len(txs')
  <2>1. txs \in Seq(TxType) /\ txs' \in Seq(TxType) /\ DOMAIN txs \subseteq DOMAIN txs'
    BY DEF TypeOK, Grown
  <2>2. 1..Len(txs) \subseteq 1..Len(txs') /\ Len(txs) \in Nat /\ Len(txs') \in Nat
    BY <2>1
  <2> QED
    BY <2>2
<1>2. job \in [Client -> [id : 0..Len(txs), sent : BOOLEAN]]
  BY DEF TypeOK
<1>3. job' \in [Client -> [id : 0..Len(txs'), sent : BOOLEAN]]
  <2>1. \A c \in Client : job[c] \in [id : 0..Len(txs'), sent : BOOLEAN]
    BY <1>1, <1>2
  <2> QED
    BY <1>2, <2>1
<1>4. JobsAreBuilt'
  BY DEF JobsAreBuilt, Grown
<1> QED
  BY <1>3, <1>4

\* One transaction is added, and its builder works on it.
LEMMA BuildKeeps ==
    ASSUME IInv, NEW c \in Client, NEW t \in TxType, Build(c, t), Spends(t),
           t.kind \in {"deposit", "withdraw"} => t.note \in Note,
           t.kind \in {"deposit", "flush"} => ScriptsPass(t)
    PROVE  IInv'
<1>1. /\ txs' = Append(txs, t)
      /\ job' = [job EXCEPT ![c] = [id |-> Len(txs) + 1, sent |-> FALSE]]
      /\ UNCHANGED <<chain, tipLen, mempool, copy, proof, takes, reorgs>>
  BY DEF Build
<1>2. TypeOK /\ Built /\ Good(View) /\ CopiesHold /\ JobsAreBuilt
  BY DEF IInv
<1>3. Grown
  <2>1. txs \in Seq(TxType)
    BY <1>2 DEF TypeOK
  <2>2. /\ txs' \in Seq(TxType) /\ Len(txs') = Len(txs) + 1
        /\ \A i \in 1..Len(txs) : txs'[i] = txs[i]
    BY <1>1, <2>1, AppendProperties
  <2> QED
    BY <2>1, <2>2 DEF Grown
<1>4. t.kind \in Kinds
  BY DEF TxType
<1>5. Spends(t)' /\ (t.kind \in {"deposit", "flush"} => ScriptsPass(t)')
  BY <1>2, <1>3, <1>4, GrownSpends, GrownScript
<1>6. /\ Built' /\ Len(txs') = Len(txs) + 1 /\ Len(txs) \in Nat
      /\ DOMAIN txs' = DOMAIN txs \cup {Len(txs) + 1} /\ DOMAIN txs = 1..Len(txs)
  BY <1>1, <1>2, <1>5, AppendTxs
<1>7. CopiesHold'
  BY <1>1, <1>2, <1>3, CopiesKept
<1>8. Good(View)'
  BY <1>1, <1>2, <1>3, ViewKept DEF View
<1>9. JobsAreBuilt'
  BY <1>1, <1>2, <1>6 DEF JobsAreBuilt, TypeOK
<1>10. TypeOK'
  <2>1. job' \in [Client -> [id : 0..Len(txs'), sent : BOOLEAN]]
    <3>1. job \in [Client -> [id : 0..Len(txs), sent : BOOLEAN]]
      BY <1>2 DEF TypeOK
    <3>2. 0..Len(txs) \subseteq 0..Len(txs') /\ Len(txs) + 1 \in 0..Len(txs')
      BY <1>6
    <3>3. \A e \in Client : job'[e] \in [id : 0..Len(txs'), sent : BOOLEAN]
      BY <1>1, <3>1, <3>2
    <3> QED
      BY <1>1, <3>1, <3>3
  <2>2. chain' \in Seq(DOMAIN txs') /\ mempool' \in Seq(DOMAIN txs')
    BY <1>1, <1>2, <1>3, GrownLists DEF TypeOK
  <2> QED
    BY <1>1, <1>2, <1>3, <2>1, <2>2 DEF TypeOK, Grown
<1> QED
  BY <1>6, <1>7, <1>8, <1>9, <1>10 DEF IInv

LEMMA OwnerIsClient ==
    ASSUME NEW n \in Note
    PROVE  OwnerOf[n] \in Client /\ n \in Leaf
BY ClientAssumption

LEMMA CopyIs ==
    ASSUME TypeOK, NEW c \in Client
    PROVE  /\ copy[c] \in CopyType /\ copy[c].d \in DState /\ copy[c].w \in WState
           /\ copy[c].dOp \in {"D"} \X Nat /\ copy[c].wOp \in {"W"} \X Nat
           /\ copy[c].d.leaves \in Seq(Leaf) /\ copy[c].d.pending \in Seq(Leaf)
BY DEF TypeOK, CopyType, DState

LEMMA StatesMade ==
    ASSUME NEW d \in DState, NEW w \in WState
    PROVE  /\ \A C \in Leaf : DepositD(d, C) \in DState
           /\ FlushD(d) \in DState
           /\ FlushW(w, FlushD(d).leaves) \in WState
           /\ \A n \in Note : WithdrawW(w, n) \in WState
<1>1. d.leaves \in Seq(Leaf) /\ d.pending \in Seq(Leaf)
  BY DEF DState
<1>2. ASSUME NEW C \in Leaf PROVE DepositD(d, C) \in DState
  <2>1. Append(d.pending, C) \in Seq(Leaf)
    BY <1>1, AppendProperties
  <2>2. DepositD(d, C) = [pending |-> Append(d.pending, C), leaves |-> d.leaves]
    <3>1. d = [pending |-> d.pending, leaves |-> d.leaves]
      BY DEF DState
    <3>2. DepositD(d, C) = [d EXCEPT !.pending = Append(d.pending, C)]
      BY DEF DepositD
    <3> QED
      BY <3>1, <3>2
  <2> QED
    BY <1>1, <2>1, <2>2 DEF DState
<1>3. d.leaves \o d.pending \in Seq(Leaf)
  BY <1>1, ConcatProperties
<1>4. FlushD(d) = [pending |-> <<>>, leaves |-> d.leaves \o d.pending]
  BY DEF FlushD
<1>5. FlushD(d) \in DState /\ FlushD(d).leaves = d.leaves \o d.pending
  BY <1>3, <1>4 DEF DState
<1>6. ASSUME NEW root \in Root PROVE FlushW(w, root) \in WState
  <2>1. w.keys \in SUBSET Key /\ w.slots \in [Slot -> Root] /\ w.epoch \in Nat
    BY DEF WState
  <2>2. FlushW(w, root) = [keys |-> w.keys, slots |-> [w.slots EXCEPT ![w.epoch % RING] = root],
                           epoch |-> w.epoch + 1]
    <3>1. w = [keys |-> w.keys, slots |-> w.slots, epoch |-> w.epoch]
      BY DEF WState
    <3>2. FlushW(w, root) = [w EXCEPT !.slots = [w.slots EXCEPT ![w.epoch % RING] = root],
                                      !.epoch = w.epoch + 1]
      BY DEF FlushW
    <3> QED
      BY <3>1, <3>2
  <2>3. [w.slots EXCEPT ![w.epoch % RING] = root] \in [Slot -> Root]
    BY <2>1
  <2> QED
    BY <2>1, <2>2, <2>3 DEF WState
<1>7. ASSUME NEW n \in Note PROVE WithdrawW(w, n) \in WState
  <2>1. KeyOf[NfOf[n]] \in Key
    BY LeafAssumption
  <2>2. w.keys \in SUBSET Key /\ w.slots \in [Slot -> Root] /\ w.epoch \in Nat
    BY DEF WState
  <2>3. WithdrawW(w, n) = [keys |-> w.keys \cup {KeyOf[NfOf[n]]}, slots |-> w.slots,
                           epoch |-> w.epoch]
    BY DEF WithdrawW, WState
  <2> QED
    BY <2>1, <2>2, <2>3 DEF WState
<1>8. FlushD(d).leaves \in Root
  BY <1>3, <1>5 DEF Root
<1> QED
  BY <1>2, <1>5, <1>6, <1>7, <1>8

LEMMA BuildDepositKeeps ==
    ASSUME IInv, NEW n \in Note, BuildDeposit(n)
    PROVE  IInv'
<1>1. PICK c, my : c = OwnerOf[n] /\ my = copy[c]
  OBVIOUS
<1>2. PICK t : t = Tx("deposit", n, {my.dOp}, DepositD(my.d, n), EmptyW, Z)
  OBVIOUS
<1>3. /\ TypeOK /\ c \in Client /\ n \in Leaf /\ Holds(my)
      /\ DepositAllowed(my.d, n) /\ Build(c, t)
  BY <1>1, <1>2, OwnerIsClient DEF BuildDeposit, IInv, CopiesHold
<1>4. my.d \in DState /\ my.dOp \in {"D"} \X Nat /\ my.w \in WState
  BY <1>1, <1>3, CopyIs
<1>5. /\ t.kind = "deposit" /\ t.note = n /\ t.ins = {my.dOp}
      /\ t.d = DepositD(my.d, n) /\ t.w = EmptyW /\ t.root = Z
      /\ t = [kind |-> t.kind, note |-> t.note, ins |-> t.ins,
              d |-> t.d, w |-> t.w, root |-> t.root]
  BY <1>2 DEF Tx
<1>6. t \in TxType
  <2>1. t.d \in DState
    BY <1>3, <1>4, <1>5, StatesMade
  <2>2. t.w \in WState /\ t.root \in Root
    BY <1>5 DEF EmptyW, WState, Root, Z
  <2>3. t.ins \in SUBSET ({"D", "W", "worker"} \X Nat)
    BY <1>4, <1>5
  <2>4. t.kind \in Kinds /\ t.note \in Note \cup {NoNote}
    BY <1>5 DEF Kinds
  <2> QED
    BY <1>5, <2>1, <2>2, <2>3, <2>4 DEF TxType
<1>7. IsD(my.dOp) /\ my.d = DAt(my.dOp)
  BY <1>3 DEF Holds
<1>8. Spends(t)
  BY <1>5, <1>7 DEF Spends
<1>9. Input(t, "D") = my.dOp
  <2>1. PICK x : t.ins = {x} /\ Input(t, "D") = x
    BY <1>3, <1>5, <1>8, DepositIns
  <2> QED
    BY <1>5, <2>1
<1>10. ScriptsPass(t)
  BY <1>3, <1>5, <1>7, <1>9 DEF ScriptsPass, DepositScript
<1> QED
  BY <1>3, <1>5, <1>6, <1>8, <1>10, BuildKeeps

LEMMA BuildFlushKeeps ==
    ASSUME IInv, NEW c \in Client, BuildFlush(c)
    PROVE  IInv'
<1>1. PICK my, i : my = copy[c] /\ i = Len(txs) + 1
  OBVIOUS
<1>2. PICK t : t = Tx("flush", NoNote, {my.dOp, my.wOp, Out("worker", i)},
                      FlushD(my.d), FlushW(my.w, FlushD(my.d).leaves), Z)
  OBVIOUS
<1>3. TypeOK /\ Holds(my) /\ FlushAllowed(my.d) /\ Build(c, t)
  BY <1>1, <1>2 DEF BuildFlush, IInv, CopiesHold
<1>4. /\ my.d \in DState /\ my.dOp \in {"D"} \X Nat
      /\ my.w \in WState /\ my.wOp \in {"W"} \X Nat
  BY <1>1, <1>3, CopyIs
<1>5. /\ t.kind = "flush" /\ t.note = NoNote /\ t.ins = {my.dOp, my.wOp, Out("worker", i)}
      /\ t.d = FlushD(my.d) /\ t.w = FlushW(my.w, FlushD(my.d).leaves) /\ t.root = Z
      /\ t = [kind |-> t.kind, note |-> t.note, ins |-> t.ins,
              d |-> t.d, w |-> t.w, root |-> t.root]
  BY <1>2 DEF Tx
<1>i. i \in Nat
  BY <1>1, <1>3 DEF TypeOK
<1>6. t \in TxType
  <2>1. t.d \in DState /\ t.w \in WState
    BY <1>4, <1>5, StatesMade
  <2>2. t.root \in Root
    BY <1>5 DEF Root, Z
  <2>3. t.ins \in SUBSET ({"D", "W", "worker"} \X Nat)
    BY <1>4, <1>5, <1>i DEF Out
  <2>4. t.kind \in Kinds /\ t.note \in Note \cup {NoNote}
    BY <1>5 DEF Kinds
  <2> QED
    BY <1>5, <2>1, <2>2, <2>3, <2>4 DEF TxType
<1>7. /\ IsD(my.dOp) /\ my.d = DAt(my.dOp)
      /\ IsW(my.wOp) /\ my.w = WAt(my.wOp)
  BY <1>3 DEF Holds
<1>8. Spends(t)
  BY <1>5, <1>7, <1>i DEF Spends
<1>9. Input(t, "D") = my.dOp /\ Input(t, "W") = my.wOp
  <2>1. my.dOp[1] = "D" /\ my.wOp[1] = "W" /\ Out("worker", i)[1] = "worker"
    BY <1>3, <1>7, OutOfD, OutOfW, Outs
  <2>2. \A op \in t.ins : (op[1] = "D" <=> op = my.dOp) /\ (op[1] = "W" <=> op = my.wOp)
    BY <1>5, <2>1
  <2>3. my.dOp \in t.ins /\ my.wOp \in t.ins
    BY <1>5
  <2>4. Input(t, "D") = my.dOp
    BY <2>2, <2>3 DEF Input
  <2>5. Input(t, "W") = my.wOp
    BY <2>2, <2>3 DEF Input
  <2> QED
    BY <2>4, <2>5
<1>10. ScriptsPass(t)
  BY <1>3, <1>5, <1>7, <1>9 DEF ScriptsPass, FlushScript
<1> QED
  BY <1>3, <1>5, <1>6, <1>8, <1>10, BuildKeeps

LEMMA BuildWithdrawKeeps ==
    ASSUME IInv, NEW n \in Note, BuildWithdraw(n)
    PROVE  IInv'
<1>1. PICK c, my : c = OwnerOf[n] /\ my = copy[c]
  OBVIOUS
<1>2. PICK t : t = Tx("withdraw", n, {my.wOp}, EmptyD, WithdrawW(my.w, n), proof[n])
  OBVIOUS
<1>3. TypeOK /\ c \in Client /\ Holds(my) /\ Build(c, t)
  BY <1>1, <1>2, OwnerIsClient DEF BuildWithdraw, IInv, CopiesHold
<1>4. my.w \in WState /\ my.wOp \in {"W"} \X Nat /\ proof[n] \in Root
  <2>1. proof[n] \in Root
    BY <1>3 DEF TypeOK
  <2> QED
    BY <1>1, <1>3, <2>1, CopyIs
<1>5. /\ t.kind = "withdraw" /\ t.note = n /\ t.ins = {my.wOp}
      /\ t.d = EmptyD /\ t.w = WithdrawW(my.w, n) /\ t.root = proof[n]
      /\ t = [kind |-> t.kind, note |-> t.note, ins |-> t.ins,
              d |-> t.d, w |-> t.w, root |-> t.root]
  BY <1>2 DEF Tx
<1>6. t \in TxType
  <2>1. EmptyD \in DState
    BY DEF EmptyD, DState
  <2>2. t.w \in WState /\ t.d \in DState
    BY <1>4, <1>5, <2>1, StatesMade
  <2>3. t.ins \in SUBSET ({"D", "W", "worker"} \X Nat)
    BY <1>4, <1>5
  <2>4. t.kind \in Kinds /\ t.note \in Note \cup {NoNote}
    BY <1>5 DEF Kinds
  <2> QED
    BY <1>4, <1>5, <2>2, <2>3, <2>4 DEF TxType
<1>7. IsW(my.wOp)
  BY <1>3 DEF Holds
<1>8. Spends(t)
  BY <1>5, <1>7 DEF Spends
<1> QED
  BY <1>3, <1>5, <1>6, <1>8, BuildKeeps

LEMMA ProveKeeps ==
    ASSUME IInv, NEW n \in Note, Prove(n)
    PROVE  IInv'
<1>1. /\ UNCHANGED <<txs, chain, tipLen, mempool, copy, job, takes, reorgs>>
      /\ proof' = [proof EXCEPT ![n] = copy[OwnerOf[n]].d.leaves]
  BY DEF Prove
<1>2. TypeOK /\ Built /\ Good(View) /\ CopiesHold /\ JobsAreBuilt
  BY DEF IInv
<1>3. Grown /\ Built'
  BY <1>1, <1>2, SameTxs
<1>4. copy[OwnerOf[n]].d.leaves \in Root
  BY <1>2, CopyIs, OwnerIsClient DEF Root
<1>5. TypeOK'
  BY <1>1, <1>2, <1>4 DEF TypeOK
<1>6. Good(View)' /\ CopiesHold' /\ JobsAreBuilt'
  BY <1>1, <1>2, <1>3, ViewKept, CopiesKept, JobsKept DEF View
<1> QED
  BY <1>3, <1>5, <1>6 DEF IInv

\* Steps of one client: its copy and its job change, perhaps the mempool.
LEMMA ClientKeeps ==
    ASSUME IInv, UNCHANGED <<txs, chain, tipLen, proof, takes, reorgs>>,
           NEW c \in Client, NEW my \in CopyType, Holds(my), copy' = [copy EXCEPT ![c] = my],
           NEW j \in [id : 0..Len(txs), sent : BOOLEAN], j = Idle \/ j.id \in DOMAIN txs,
           job' = [job EXCEPT ![c] = j]
    PROVE  /\ Grown /\ Built' /\ CopiesHold' /\ JobsAreBuilt'
           /\ mempool' \in Seq(DOMAIN txs) => TypeOK'
<1>1. TypeOK /\ Built /\ CopiesHold /\ JobsAreBuilt
  BY DEF IInv
<1>2. Grown /\ Built'
  BY <1>1, SameTxs
<1>3. copy' \in [Client -> CopyType] /\ CopiesHold'
  BY <1>1, <1>2, CopiesReplaced
<1>4. job' \in [Client -> [id : 0..Len(txs), sent : BOOLEAN]]
  BY <1>1 DEF TypeOK
<1>5. JobsAreBuilt'
  BY <1>1 DEF JobsAreBuilt, TypeOK
<1>6. mempool' \in Seq(DOMAIN txs) => TypeOK'
  BY <1>1, <1>3, <1>4 DEF TypeOK
<1> QED
  BY <1>2, <1>3, <1>5, <1>6

LEMMA JobIs ==
    ASSUME IInv, NEW c \in Client, job[c] # Idle
    PROVE  /\ job[c].id \in DOMAIN txs
           /\ job[c] = [id |-> job[c].id, sent |-> job[c].sent]
           /\ job[c] \in [id : 0..Len(txs), sent : BOOLEAN]
BY DEF IInv, JobsAreBuilt, TypeOK

LEMMA IdleIs ==
    ASSUME TypeOK
    PROVE  Idle \in [id : 0..Len(txs), sent : BOOLEAN]
<1>1. Len(txs) \in Nat
  BY DEF TypeOK
<1> QED
  BY <1>1 DEF Idle

LEMMA SameCopy ==
    ASSUME IInv, NEW c \in Client, copy' = copy
    PROVE  \E my \in CopyType : Holds(my) /\ copy' = [copy EXCEPT ![c] = my]
<1>1. copy[c] \in CopyType /\ Holds(copy[c])
  BY CopyIs DEF IInv, CopiesHold
<1>2. copy' = [copy EXCEPT ![c] = copy[c]]
  BY DEF IInv, TypeOK
<1> QED
  BY <1>1, <1>2

LEMMA SendKeeps ==
    ASSUME IInv, NEW c \in Client, Send(c)
    PROVE  IInv'
<1>1. PICK i : i = job[c].id
  OBVIOUS
<1>2. /\ Valid(txs[i], View) /\ mempool' = Append(mempool, i)
      /\ UNCHANGED <<txs, chain, tipLen, proof, takes, reorgs>>
      /\ job[c] # Idle
      /\ \/ copy' = [copy EXCEPT ![c] = Advance(copy[c], i)] /\ job' = [job EXCEPT ![c] = Idle]
         \/ copy' = copy /\ job' = [job EXCEPT ![c] = [id |-> i, sent |-> TRUE]]
  BY <1>1 DEF Send
<1>3. TypeOK /\ Built /\ Good(View) /\ CopiesHold
  BY DEF IInv
<1>4. i \in DOMAIN txs
  BY <1>1, <1>2, JobIs
<1>5. \E my \in CopyType, j \in [id : 0..Len(txs), sent : BOOLEAN] :
         /\ Holds(my) /\ copy' = [copy EXCEPT ![c] = my]
         /\ j = Idle \/ j.id \in DOMAIN txs
         /\ job' = [job EXCEPT ![c] = j]
  <2>1. CASE copy' = [copy EXCEPT ![c] = Advance(copy[c], i)] /\ job' = [job EXCEPT ![c] = Idle]
    <3>1. copy[c] \in CopyType /\ Holds(copy[c])
      BY <1>3, CopyIs DEF CopiesHold
    <3>2. Advance(copy[c], i) \in CopyType /\ Holds(Advance(copy[c], i))
      BY <1>3, <1>4, <3>1, AdvanceHolds
    <3> QED
      BY <1>3, <2>1, <3>2, IdleIs
  <2>2. CASE copy' = copy /\ job' = [job EXCEPT ![c] = [id |-> i, sent |-> TRUE]]
    <3>1. PICK my \in CopyType : Holds(my) /\ copy' = [copy EXCEPT ![c] = my]
      BY <2>2, SameCopy
    <3> DEFINE j == [id |-> i, sent |-> TRUE]
    <3>2. job[c] = [id |-> i, sent |-> job[c].sent] /\ i \in 0..Len(txs)
      BY <1>1, <1>2, JobIs
    <3>3. job' = [job EXCEPT ![c] = j]
      BY <2>2
    <3>4. j \in [id : 0..Len(txs), sent : BOOLEAN] /\ j.id \in DOMAIN txs
      BY <1>4, <3>2
    <3> QED
      BY <3>1, <3>3, <3>4
  <2> QED
    BY <1>2, <2>1, <2>2
<1>6. mempool' \in Seq(DOMAIN txs)
  BY <1>2, <1>3, <1>4, AppendProperties DEF TypeOK
<1>7. Grown /\ Built' /\ CopiesHold' /\ JobsAreBuilt' /\ TypeOK'
  BY <1>2, <1>5, <1>6, ClientKeeps
<1>8. Good(View)'
  <2>1. PICK s : s = View
    OBVIOUS
  <2>2. s \in Seq(DOMAIN txs) /\ Good(s)
    BY <1>3, <2>1, ViewIs
  <2>3. View' = Append(s, i)
    <3>1. chain \in Seq(DOMAIN txs) /\ mempool \in Seq(DOMAIN txs)
      BY <1>3 DEF TypeOK
    <3>2. chain \o Append(mempool, i) = Append(chain \o mempool, i)
      BY <1>4, <3>1, AppendLast
    <3> QED
      BY <1>2, <2>1, <3>2 DEF View
  <2>4. PICK q : q = Append(s, i)
    OBVIOUS
  <2>5. q \in Seq(DOMAIN txs) /\ Good(q)
    BY <1>2, <1>4, <2>1, <2>2, <2>4, GoodAppend
  <2>6. Good(q)'
    BY <1>2, <1>3, <2>5, SameTxs
  <2> QED
    BY <2>3, <2>4, <2>6
<1> QED
  BY <1>7, <1>8 DEF IInv

LEMMA SettleKeeps ==
    ASSUME IInv, NEW c \in Client, Settle(c)
    PROVE  IInv'
<1>1. PICK i : i = job[c].id
  OBVIOUS
<1>2. /\ job[c].sent /\ i \in Range(chain)
      /\ copy' = [copy EXCEPT ![c] = Advance(copy[c], i)] /\ job' = [job EXCEPT ![c] = Idle]
      /\ UNCHANGED <<txs, chain, tipLen, mempool, proof, takes, reorgs>>
  BY <1>1 DEF Settle
<1>3. TypeOK /\ Built /\ Good(View) /\ CopiesHold
  BY DEF IInv
<1>4. i \in DOMAIN txs
  BY <1>2, <1>3 DEF TypeOK, Range
<1>5. copy[c] \in CopyType /\ Holds(copy[c])
  BY <1>3, CopyIs DEF CopiesHold
<1>6. Advance(copy[c], i) \in CopyType /\ Holds(Advance(copy[c], i))
  BY <1>3, <1>4, <1>5, AdvanceHolds
<1>7. mempool' \in Seq(DOMAIN txs)
  BY <1>2, <1>3 DEF TypeOK
<1>8. Grown /\ Built' /\ CopiesHold' /\ JobsAreBuilt' /\ TypeOK'
  BY <1>2, <1>3, <1>6, <1>7, ClientKeeps, IdleIs
<1>9. Good(View)'
  BY <1>2, <1>3, <1>8, ViewKept DEF View
<1> QED
  BY <1>8, <1>9 DEF IInv

LEMMA LoseKeeps ==
    ASSUME IInv, NEW c \in Client, Lose(c)
    PROVE  IInv'
<1>1. /\ copy' = [copy EXCEPT ![c] = TipOf(View)] /\ job' = [job EXCEPT ![c] = Idle]
      /\ UNCHANGED <<txs, chain, tipLen, mempool, proof, takes, reorgs>>
  BY DEF Lose
<1>2. TypeOK /\ Built /\ Good(View) /\ CopiesHold
  BY DEF IInv
<1>3. TipOf(View) \in CopyType /\ Holds(TipOf(View))
  BY <1>2, TipHolds, ViewIs
<1>4. mempool' \in Seq(DOMAIN txs)
  BY <1>1, <1>2 DEF TypeOK
<1>5. Grown /\ Built' /\ CopiesHold' /\ JobsAreBuilt' /\ TypeOK'
  BY <1>1, <1>2, <1>3, <1>4, ClientKeeps, IdleIs
<1>6. Good(View)'
  BY <1>1, <1>2, <1>5, ViewKept DEF View
<1> QED
  BY <1>5, <1>6 DEF IInv

LEMMA ReadKeeps ==
    ASSUME IInv, NEW c \in Client, Read(c)
    PROVE  IInv'
<1>1. /\ copy' = [copy EXCEPT ![c] = TipOf(View)] /\ job[c] = Idle
      /\ UNCHANGED <<txs, chain, tipLen, mempool, job, proof, takes, reorgs>>
  BY DEF Read
<1>2. TypeOK /\ Built /\ Good(View) /\ CopiesHold
  BY DEF IInv
<1>3. TipOf(View) \in CopyType /\ Holds(TipOf(View))
  BY <1>2, TipHolds, ViewIs
<1>4. mempool' \in Seq(DOMAIN txs) /\ job' = [job EXCEPT ![c] = Idle]
  BY <1>1, <1>2 DEF TypeOK
<1>5. Grown /\ Built' /\ CopiesHold' /\ JobsAreBuilt' /\ TypeOK'
  BY <1>1, <1>2, <1>3, <1>4, ClientKeeps, IdleIs
<1>6. Good(View)'
  BY <1>1, <1>2, <1>5, ViewKept DEF View
<1> QED
  BY <1>5, <1>6 DEF IInv

\* Steps of the network: only the lists change.
LEMMA ListsKeep ==
    ASSUME IInv, UNCHANGED <<txs, copy, job, proof, takes>>,
           NEW ch \in Seq(DOMAIN txs), NEW mp \in Seq(DOMAIN txs), Good(ch \o mp),
           chain' = ch, mempool' = mp, tipLen' \in 0..Len(ch), reorgs' \in Nat
    PROVE  IInv'
<1>1. TypeOK /\ Built /\ CopiesHold /\ JobsAreBuilt
  BY DEF IInv
<1>2. Grown /\ Built'
  BY <1>1, SameTxs
<1>3. PICK s : s = ch \o mp
  OBVIOUS
<1>4. s \in Seq(DOMAIN txs) /\ Good(s)
  BY <1>3, ConcatProperties
<1>5. Good(s)'
  BY <1>1, <1>4, SameTxs
<1>6. Good(View)'
  BY <1>3, <1>5 DEF View
<1>7. CopiesHold' /\ JobsAreBuilt'
  BY <1>1, <1>2, CopiesKept, JobsKept
<1>8. TypeOK'
  BY <1>1 DEF TypeOK
<1> QED
  BY <1>2, <1>6, <1>7, <1>8 DEF IInv

LEMMA MineKeeps ==
    ASSUME IInv, NEW k \in 1..Len(mempool), Mine(k)
    PROVE  IInv'
<1> DEFINE a == SubSeq(mempool, 1, k)
           b == SubSeq(mempool, k + 1, Len(mempool))
<1>1. /\ chain' = chain \o a /\ tipLen' = k /\ mempool' = b
      /\ UNCHANGED <<txs, copy, job, proof, takes, reorgs>>
  BY DEF Mine, clientVars
<1>2. /\ chain \in Seq(DOMAIN txs) /\ mempool \in Seq(DOMAIN txs)
      /\ Good(chain \o mempool) /\ reorgs \in Nat
  BY DEF IInv, TypeOK, View
<1>3. Len(mempool) \in Nat /\ Len(chain) \in Nat
  BY <1>2
<1>4. a \in Seq(DOMAIN txs) /\ b \in Seq(DOMAIN txs) /\ Len(a) = k
  <2>1. \A j \in 1..Len(mempool) : mempool[j] \in DOMAIN txs
    BY <1>2
  <2>2. a \in Seq(DOMAIN txs) /\ Len(a) = k
    BY <1>2, <1>3, <2>1, SubSeqProperties
  <2>3. b \in Seq(DOMAIN txs)
    BY <1>2, <1>3, <2>1, SubSeqProperties
  <2> QED
    BY <2>2, <2>3
<1>5. a \o b = mempool
  <2>1. a \o b = SubSeq(mempool, 1, Len(mempool))
    BY <1>2, <1>3, ConcatAdjacentSubSeq
  <2> QED
    BY <1>2, <2>1, SubSeqFull
<1> HIDE DEF a, b
<1>6. (chain \o a) \o b = chain \o mempool
  <2>1. \A p, q, r \in Seq(DOMAIN txs) : (p \o q) \o r = p \o (q \o r)
    BY ConcatAssociative
  <2>2. (chain \o a) \o b = chain \o (a \o b)
    BY <1>2, <1>4, <2>1, Zenon
  <2> QED
    BY <1>5, <2>2
<1>7. chain \o a \in Seq(DOMAIN txs) /\ Len(chain \o a) = Len(chain) + k
  BY <1>2, <1>4, ConcatProperties
<1>8. tipLen' \in 0..Len(chain \o a)
  BY <1>1, <1>3, <1>7
<1>9. Good((chain \o a) \o b)
  BY <1>2, <1>6
<1>10. reorgs' \in Nat
  BY <1>1, <1>2
<1> QED
  BY <1>1, <1>4, <1>7, <1>8, <1>9, <1>10, ListsKeep

LEMMA MineOtherKeeps ==
    ASSUME IInv, NEW i \in DOMAIN txs, MineOther(i)
    PROVE  IInv'
<1>1. PICK ch : ch = Append(chain, i)
  OBVIOUS
<1>2. PICK mp : mp = Revalidate(ch, mempool)
  OBVIOUS
<1>3. /\ Valid(txs[i], chain) /\ chain' = ch /\ tipLen' = 1 /\ mempool' = mp
      /\ UNCHANGED <<txs, copy, job, proof, takes, reorgs>>
  BY <1>1, <1>2 DEF MineOther, clientVars
<1>4. /\ TypeOK /\ chain \in Seq(DOMAIN txs) /\ mempool \in Seq(DOMAIN txs)
      /\ Good(chain) /\ reorgs \in Nat
  BY ChainIsGood DEF IInv, TypeOK
<1>5. ch \in Seq(DOMAIN txs) /\ Good(ch) /\ Len(ch) = Len(chain) + 1
  BY <1>1, <1>3, <1>4, GoodAppend, AppendProperties
<1>6. mp \in Seq(DOMAIN txs) /\ Good(ch \o mp)
  BY <1>2, <1>4, <1>5, RevalidateIs
<1>7. tipLen' \in 0..Len(ch)
  <2>1. Len(chain) \in Nat
    BY <1>4
  <2> QED
    BY <1>3, <1>5, <2>1
<1>8. reorgs' \in Nat
  BY <1>3, <1>4
<1> QED
  BY <1>3, <1>5, <1>6, <1>7, <1>8, ListsKeep

LEMMA ReorgKeeps ==
    ASSUME IInv, Reorg
    PROVE  IInv'
<1> DEFINE base == SubSeq(chain, 1, Len(chain) - tipLen)
           undone == SubSeq(chain, Len(chain) - tipLen + 1, Len(chain))
           others == {i \in DOMAIN txs \ Range(base) : Valid(txs[i], base)}
<1>1. PICK block \in {<<>>} \cup {<<i>> : i \in others} :
         /\ chain' = base \o block /\ tipLen' = Len(block)
         /\ mempool' = Requeue(chain', undone)
  BY DEF Reorg
<1>2. /\ reorgs' = reorgs + 1 /\ UNCHANGED <<txs, copy, job, proof, takes>> /\ tipLen > 0
  BY DEF Reorg, clientVars
<1>3. /\ TypeOK /\ chain \in Seq(DOMAIN txs) /\ mempool \in Seq(DOMAIN txs) /\ Good(chain)
      /\ tipLen \in 0..Len(chain) /\ reorgs \in Nat /\ Len(chain) \in Nat
  BY ChainIsGood DEF IInv, TypeOK
<1>4. \A j \in 1..Len(chain) : chain[j] \in DOMAIN txs
  BY <1>3
<1>5. base \in Seq(DOMAIN txs) /\ Good(base)
  <2>1. Len(chain) - tipLen \in 0..Len(chain)
    BY <1>3
  <2> QED
    BY <1>3, <2>1, GoodPart
<1>6. undone \in Seq(DOMAIN txs)
  <2>1. Len(chain) - tipLen + 1 \in 1..Len(chain) + 1 /\ Len(chain) - tipLen + 1 \in Int
    BY <1>3
  <2>2. \A j \in Len(chain) - tipLen + 1 .. Len(chain) : chain[j] \in DOMAIN txs
    BY <1>3, <1>4, <2>1
  <2> QED
    BY <1>3, <2>1, <2>2, SubSeqProperties
<1> HIDE DEF base, undone
<1>7. PICK ch : ch = base \o block
  OBVIOUS
<1>8. ch \in Seq(DOMAIN txs) /\ Good(ch) /\ Len(block) \in 0..Len(ch)
  <2>1. CASE block = <<>>
    <3>1. ch = base
      BY <1>5, <1>7, <2>1, ConcatEmptySeq
    <3>2. Len(block) = 0 /\ Len(ch) \in Nat
      BY <1>5, <2>1, <3>1
    <3> QED
      BY <1>5, <3>1, <3>2
  <2>2. ASSUME NEW i \in others, block = <<i>>
        PROVE  ch \in Seq(DOMAIN txs) /\ Good(ch) /\ Len(block) \in 0..Len(ch)
    <3>1. i \in DOMAIN txs /\ Valid(txs[i], base)
      OBVIOUS
    <3>2. /\ Append(base, i) = base \o <<i>>
          /\ Len(Append(base, i)) = Len(base) + 1 /\ Len(base) \in Nat
      BY <1>5, <3>1, AppendIsConcat, AppendProperties
    <3>3. ch = Append(base, i)
      BY <1>7, <2>2, <3>2
    <3>4. Len(block) = 1
      BY <2>2
    <3>5. ch \in Seq(DOMAIN txs) /\ Good(ch)
      BY <1>5, <3>1, <3>3, GoodAppend
    <3> QED
      BY <3>2, <3>3, <3>4, <3>5
  <2> QED
    BY <1>1, <2>1, <2>2
<1>9. PICK mp : mp = Revalidate(ch, undone \o mempool)
  OBVIOUS
<1>10. undone \o mempool \in Seq(DOMAIN txs)
  BY <1>3, <1>6, ConcatProperties
<1>11. mp \in Seq(DOMAIN txs) /\ Good(ch \o mp)
  BY <1>3, <1>8, <1>9, <1>10, RevalidateIs
<1>12. chain' = ch /\ mempool' = mp /\ tipLen' \in 0..Len(ch) /\ reorgs' \in Nat
  BY <1>1, <1>2, <1>3, <1>7, <1>8, <1>9 DEF Requeue
<1> QED
  BY <1>2, <1>8, <1>11, <1>12, ListsKeep

LEMMA TakeKeeps ==
    ASSUME IInv, NEW i \in DOMAIN txs, Take(i)
    PROVE  IInv'
<1>1. PICK t, new : t = Tx("take", NoNote, {Out("worker", i)}, EmptyD, EmptyW, Z)
                       /\ new = Len(txs) + 1
  OBVIOUS
<1>2. /\ txs' = Append(txs, t) /\ takes' = takes + 1
      /\ mempool' = IF Valid(t, View) THEN Append(mempool, new) ELSE mempool
      /\ UNCHANGED <<chain, tipLen, copy, job, proof, reorgs>>
  BY <1>1 DEF Take, clientVars
<1>3. TypeOK /\ Built /\ Good(View) /\ CopiesHold /\ JobsAreBuilt
  BY DEF IInv
<1>4. i \in Nat
  BY <1>3, TxIs
<1>5. /\ t.kind = "take" /\ t.note = NoNote /\ t.ins = {Out("worker", i)}
      /\ t.d = EmptyD /\ t.w = EmptyW /\ t.root = Z
      /\ t = [kind |-> t.kind, note |-> t.note, ins |-> t.ins,
              d |-> t.d, w |-> t.w, root |-> t.root]
  BY <1>1 DEF Tx
<1>6. t \in TxType
  <2>1. t.d \in DState
    BY <1>5 DEF EmptyD, DState
  <2>2. t.w \in WState /\ t.root \in Root
    BY <1>5 DEF EmptyW, WState, Root, Z
  <2>3. t.ins \in SUBSET ({"D", "W", "worker"} \X Nat)
    BY <1>4, <1>5 DEF Out
  <2>4. t.kind \in Kinds /\ t.note \in Note \cup {NoNote}
    BY <1>5 DEF Kinds
  <2> QED
    BY <1>5, <2>1, <2>2, <2>3, <2>4 DEF TxType
<1>7. Spends(t) /\ Spends(t)'
  BY <1>4, <1>5 DEF Spends
<1>8. /\ Grown /\ Built' /\ txs'[new] = t /\ new \in DOMAIN txs'
      /\ \A s \in Seq(DOMAIN txs) : Good(s) => Good(s)'
  BY <1>1, <1>2, <1>3, <1>5, <1>6, <1>7, AppendTxs
<1>9. CopiesHold' /\ JobsAreBuilt' /\ job' \in [Client -> [id : 0..Len(txs'), sent : BOOLEAN]]
  BY <1>2, <1>3, <1>8, CopiesKept, JobsKept
<1>10. chain \in Seq(DOMAIN txs') /\ mempool \in Seq(DOMAIN txs')
  BY <1>3, <1>8, GrownLists DEF TypeOK
<1>11. mempool' \in Seq(DOMAIN txs')
  BY <1>2, <1>8, <1>10, AppendProperties
<1>12. TypeOK'
  BY <1>2, <1>3, <1>8, <1>9, <1>10, <1>11 DEF TypeOK, Grown
<1>13. Good(View)'
  <2>1. CASE Valid(t, View)
    <3>1. PICK s : s = View
      OBVIOUS
    <3>2. s \in Seq(DOMAIN txs) /\ Good(s) /\ Valid(t, s)
      BY <1>3, <2>1, <3>1, ViewIs
    <3>3. s \in Seq(DOMAIN txs') /\ Good(s)' /\ Valid(t, s)'
      BY <1>3, <1>5, <1>7, <1>8, <3>2, GrownLists, GrownValid DEF Kinds
    <3>4. View' = Append(s, new)
      <4>1. chain \o Append(mempool, new) = Append(chain \o mempool, new)
        BY <1>8, <1>10, AppendLast
      <4> QED
        BY <1>2, <2>1, <3>1, <4>1 DEF View
    <3>5. Valid(txs[new], s)'
      BY <1>8, <3>3
    <3>6. PICK q : q = Append(s, new)
      OBVIOUS
    <3>7. Good(q)'
      <4>1. \A j \in DOMAIN q :
              \/ q[j] = new /\ SubSeq(q, 1, j - 1) = s
              \/ j \in DOMAIN s /\ q[j] = s[j] /\ SubSeq(q, 1, j - 1) = SubSeq(s, 1, j - 1)
        BY <1>8, <3>3, <3>6, AppendPlaces
      <4> QED
        BY <3>3, <3>5, <4>1 DEF Good
    <3> QED
      BY <3>4, <3>6, <3>7
  <2>2. CASE ~Valid(t, View)
    BY <1>2, <1>3, <1>8, <2>2, ViewKept DEF View
  <2> QED
    BY <2>1, <2>2
<1> QED
  BY <1>8, <1>9, <1>12, <1>13 DEF IInv

LEMMA StepIInv == IInv /\ [Next]_vars => IInv'
<1> SUFFICES ASSUME IInv, [Next]_vars PROVE IInv'
  OBVIOUS
<1>1. ASSUME NEW n \in Note, BuildDeposit(n) PROVE IInv'
  BY <1>1, BuildDepositKeeps
<1>2. ASSUME NEW n \in Note, Prove(n) PROVE IInv'
  BY <1>2, ProveKeeps
<1>3. ASSUME NEW n \in Note, BuildWithdraw(n) PROVE IInv'
  BY <1>3, BuildWithdrawKeeps
<1>4. ASSUME NEW c \in Client, BuildFlush(c) PROVE IInv'
  BY <1>4, BuildFlushKeeps
<1>5. ASSUME NEW c \in Client, Send(c) PROVE IInv'
  BY <1>5, SendKeeps
<1>6. ASSUME NEW c \in Client, Settle(c) PROVE IInv'
  BY <1>6, SettleKeeps
<1>7. ASSUME NEW c \in Client, Lose(c) PROVE IInv'
  BY <1>7, LoseKeeps
<1>8. ASSUME NEW c \in Client, Read(c) PROVE IInv'
  BY <1>8, ReadKeeps
<1>9. ASSUME NEW k \in 1..Len(mempool), Mine(k) PROVE IInv'
  BY <1>9, MineKeeps
<1>10. ASSUME NEW i \in DOMAIN txs, MineOther(i) PROVE IInv'
  BY <1>10, MineOtherKeeps
<1>11. ASSUME NEW i \in DOMAIN txs, Take(i) PROVE IInv'
  BY <1>11, TakeKeeps
<1>12. CASE Reorg
  BY <1>12, ReorgKeeps
<1>13. CASE UNCHANGED vars
  <2>1. UNCHANGED <<txs, chain, tipLen, mempool, copy, job, proof, takes, reorgs>>
    BY <1>13 DEF vars
  <2>2. TypeOK /\ chain \in Seq(DOMAIN txs) /\ mempool \in Seq(DOMAIN txs)
        /\ Good(chain \o mempool) /\ tipLen \in 0..Len(chain) /\ reorgs \in Nat
    BY DEF IInv, TypeOK, View
  <2> QED
    BY <2>1, <2>2, ListsKeep
<1> QED
  BY <1>1, <1>2, <1>3, <1>4, <1>5, <1>6, <1>7, <1>8, <1>9, <1>10, <1>11, <1>12, <1>13 DEF Next

(***************************************************************************)
(* The theorems.                                                           *)
(***************************************************************************)
\* Whatever clients build, the network mines, reorders or undoes, and others
\* take (node/s3.ts, node/s4.ts): the chain with the mempool stays a list of
\* transactions that are each valid at their place, and every copy and every
\* transaction holds states of outputs there are.
THEOREM NodeInvariant == Spec => []IInv
<1> QED
  BY InitIInv, StepIInv, PTL DEF Spec

\* The copy a client builds from (s3.ts, the s of deposit, flush and withdraw)
\* is the state of the outputs it names, after reorganisations too, so the
\* covenants never refuse a deposit or a flush for the states in it.
THEOREM CopiesAreTheirOutputs == Spec => []CopyIsItsOutputs
<1> QED
  BY NodeInvariant, CopyFromIInv, PTL

\* The tip that readPool finds, confirmed or with the mempool, commits to the
\* deposits, flushes and withdrawals of that chain and to nothing else.
THEOREM HistoryIsState == Spec => []StateIsHistory
<1> QED
  BY NodeInvariant, HistoryFromIInv, PTL

\* A withdrawal that was built again after it lost its input pays its key no
\* second time on any chain with its mempool.
THEOREM OnePayment == Spec => []PaidOncePerChain
<1> QED
  BY NodeInvariant, PaidFromIInv, PTL

(***************************************************************************)
(* The invariant: OneOfEach, with values that are amounts.                 *)
(***************************************************************************)
IsDCoin(c) == c.out.lock = "D" /\ OwnMutable(c.out) /\ PrefixOf(c.out) = 68 /\ c.out.value \in Nat
IsWCoin(c) == c.out.lock = "W" /\ OwnMutable(c.out) /\ PrefixOf(c.out) = 87 /\ c.out.value \in Nat
Pair(U, cd, cw) == U = {cd, cw} /\ IsDCoin(cd) /\ IsWCoin(cw)
Inv == \E cd, cw \in utxos : Pair(utxos, cd, cw)

LEMMA PairIsRead ==
  ASSUME NEW U, NEW cd, NEW cw, Pair(U, cd, cw)
  PROVE  /\ (CHOOSE c \in U : PrefixOf(c.out) = 68) = cd
         /\ (CHOOSE c \in U : PrefixOf(c.out) = 87) = cw
         /\ cd # cw
  <1>1. PrefixOf(cd.out) = 68 /\ PrefixOf(cw.out) = 87 /\ U = {cd, cw}
    BY DEF Pair, IsDCoin, IsWCoin
  <1> QED
    BY <1>1

LEMMA InitInv == CovenantInit => Inv /\ OnChain!Init
  <1> SUFFICES ASSUME CovenantInit PROVE Inv /\ OnChain!Init
    OBVIOUS
  <1> DEFINE cd == Coin(<<0, 0>>, Genesis[1])
             cw == Coin(<<0, 1>>, Genesis[2])
  <1>1. utxos = {cd, cw}
    BY DEF CovenantInit
  <1>2. cd.out = Genesis[1] /\ cw.out = Genesis[2]
    BY DEF Coin
  <1>3. IsDCoin(cd) /\ IsWCoin(cw)
    BY <1>2, GenesisAssumption DEF IsDCoin, IsWCoin, Genesis, Output, Nft, DCom, WCom, OwnMutable, PrefixOf
  <1>4. Pair(utxos, cd, cw)
    BY <1>1, <1>3 DEF Pair
  <1>5. TheD = Genesis[1] /\ TheW = Genesis[2]
    <2>1. /\ (CHOOSE c \in utxos : PrefixOf(c.out) = 68) = cd
          /\ (CHOOSE c \in utxos : PrefixOf(c.out) = 87) = cw
      BY <1>4, PairIsRead
    <2> QED
      BY <1>2, <2>1 DEF TheD, TheW
  <1>6. /\ StateOf(TheD) = EmptyD /\ StateOf(TheW) = EmptyW
        /\ TheD.value = D_VALUE /\ TheW.value = W_VALUE
    BY <1>5 DEF Genesis, Output, Nft, DCom, WCom, StateOf
  <1>7. OnChain!Init
    BY <1>6 DEF CovenantInit, OnChain!Init, OnChain!EmptyD, OnChain!EmptyW, EmptyD, EmptyW,
           OnChain!Slot, OnChain!Z, Slot, Z
  <1> QED
    BY <1>1, <1>4, <1>7 DEF Inv

(***************************************************************************)
(* Counting tokens: as many are made as are spent.                         *)
(***************************************************************************)
LEMMA Small ==
  /\ IsFiniteSet(1 .. 3)
  /\ IsFiniteSet({1}) /\ Cardinality({1}) = 1
  /\ IsFiniteSet({1, 2}) /\ Cardinality({1, 2}) = 2
  <1>1. IsFiniteSet(1 .. 3)
    <2>1. 1 \in Int /\ 3 \in Int
      OBVIOUS
    <2> QED
      BY <2>1, FS_Interval
  <1>2. IsFiniteSet({1}) /\ Cardinality({1}) = 1
    BY FS_Singleton
  <1>3. IsFiniteSet({1} \cup {2}) /\ Cardinality({1} \cup {2}) = 2
    <2>1. 2 \notin {1}
      OBVIOUS
    <2>2. /\ IsFiniteSet({1} \cup {2})
          /\ Cardinality({1} \cup {2}) = IF 2 \in {1} THEN Cardinality({1}) ELSE Cardinality({1}) + 1
      BY <1>2, FS_AddElement
    <2> QED
      BY <1>2, <2>1, <2>2
  <1>4. {1} \cup {2} = {1, 2}
    OBVIOUS
  <1> QED
    BY <1>1, <1>2, <1>3, <1>4

LEMMA NoMore ==
  ASSUME NEW S, IsFiniteSet(S), NEW T \in SUBSET S, Cardinality(S) <= Cardinality(T)
  PROVE  S = T
  <1>1. IsFiniteSet(T) /\ Cardinality(T) <= Cardinality(S)
    BY FS_Subset
  <1>2. Cardinality(S) \in Nat /\ Cardinality(T) \in Nat
    BY <1>1, FS_CardinalityType
  <1>3. Cardinality(S) = Cardinality(T)
    BY <1>1, <1>2
  <1> QED
    BY <1>3, FS_Subset

LEMMA OnlyFirst ==
  ASSUME NEW S \in SUBSET (1 .. 3)
  PROVE  /\ 1 \in S /\ Cardinality(S) <= 1 => S = {1}
         /\ 1 \in S /\ 2 \in S /\ Cardinality(S) <= 2 => S = {1, 2}
  <1>1. IsFiniteSet(S)
    BY Small, FS_Subset
  <1>2. ASSUME 1 \in S, Cardinality(S) <= 1 PROVE S = {1}
    BY <1>1, <1>2, Small, NoMore
  <1>3. ASSUME 1 \in S, 2 \in S, Cardinality(S) <= 2 PROVE S = {1, 2}
    <2>1. {1, 2} \in SUBSET S /\ Cardinality(S) <= Cardinality({1, 2})
      BY <1>3, Small
    <2> QED
      BY <1>1, <2>1, NoMore
  <1> QED
    BY <1>2, <1>3

LEMMA TokensAreCounted ==
  ASSUME NEW ins, NEW outs, TokensBalance(ins, outs)
  PROVE  Cardinality({j \in DOMAIN outs : Carries(outs[j])})
           <= Cardinality({i \in DOMAIN ins : Carries(ins[i].out)})
  BY DEF TokensBalance

(***************************************************************************)
(* A transaction some inputs of which are the pool's.  The hypotheses of   *)
(* all lemmas below.                                                       *)
(***************************************************************************)
Passes(ins, db, wb, o0, o1, o2) ==
    /\ ins \in Inputs /\ db \in DBranch(ins) /\ wb \in WBranch(ins)
    /\ InputsPass(ins, db, wb)
    /\ o0 \in Outputs(ins) /\ Output0Passes(ins, db, wb, o0)
    /\ o1 \in Outputs(ins) /\ Output1Passes(ins, db, wb, o1)
    /\ o2 \in Outputs(ins)
    /\ Accept(ins, wb, <<o0, o1, o2>>)

\* Nothing from outside carries the category or lies at W's locking.
LEMMA OutsideIsOther ==
  ASSUME NEW c \in Outside
  PROVE  ~Carries(c.out) /\ ~OwnMutable(c.out) /\ c.out.lock # "W"
  BY DEF Outside, Coin, Output, NoToken, Nft, Carries, OwnMutable

LEMMA InputsAre ==
  ASSUME NEW ins \in Inputs
  PROVE  /\ \E k \in 1 .. MaxInputs : DOMAIN ins = 0 .. k - 1
         /\ 0 \in DOMAIN ins
         /\ \A i \in DOMAIN ins : ins[i] \in utxos \cup Outside
         /\ \E i \in DOMAIN ins : ins[i] \in utxos
         /\ \A i, j \in DOMAIN ins : ins[i] \in utxos /\ ins[i] = ins[j] => i = j
  BY DEF Inputs

LEMMA OutputsHaveValues ==
  ASSUME NEW ins, NEW o \in Outputs(ins)
  PROVE  o.value \in Nat
  BY DEF Outputs, Values, Output

\* Which inputs can be read as the pool's.
LEMMA OwnInputs ==
  ASSUME NEW cd, NEW cw, Pair(utxos, cd, cw), NEW ins \in Inputs, NEW i \in DOMAIN ins
  PROVE  /\ Carries(ins[i].out) <=> ins[i] \in {cd, cw}
         /\ OwnMutable(ins[i].out) => ins[i] \in {cd, cw}
         /\ OwnMutable(ins[i].out) /\ PrefixOf(ins[i].out) = 68 => ins[i] = cd
         /\ OwnMutable(ins[i].out) /\ PrefixOf(ins[i].out) = 87 => ins[i] = cw
         /\ ins[i].out.lock = "W" => ins[i] = cw
  <1>1. ins[i] \in {cd, cw} \cup Outside
    BY InputsAre DEF Pair
  <1>2. CASE ins[i] \in Outside
    <2>1. ~Carries(ins[i].out) /\ ~OwnMutable(ins[i].out) /\ ins[i].out.lock # "W"
      BY <1>2, OutsideIsOther
    <2>2. Carries(cd.out) /\ Carries(cw.out)
      BY DEF Pair, IsDCoin, IsWCoin, OwnMutable, Carries
    <2> QED
      BY <2>1, <2>2
  <1>3. CASE ins[i] \in {cd, cw}
    BY <1>3 DEF Pair, IsDCoin, IsWCoin, OwnMutable, Carries
  <1> QED
    BY <1>1, <1>2, <1>3

\* What the scripts of the pool's inputs then require.
LEMMA DReadsInput ==
  ASSUME NEW cd, NEW cw, Pair(utxos, cd, cw), NEW ins, NEW db, NEW wb, NEW o0, NEW o1, NEW o2,
         Passes(ins, db, wb, o0, o1, o2), NEW j \in DOMAIN ins, ins[j] = cd
  PROVE  /\ j = 0 /\ ins[0] = cd
         /\ DReads(ins, db, 0) /\ DPins0(ins, db, o0) /\ DPins1(ins, db, o1)
         /\ db.branch = "deposit" => db.C \in Leaf
  <1>1. j \in At(ins, "D")
    BY DEF Pair, IsDCoin, At
  <1>2. DReads(ins, db, j) /\ DPins0(ins, db, o0) /\ DPins1(ins, db, o1)
    BY <1>1 DEF Passes, InputsPass, Output0Passes, Output1Passes
  <1>3. j = 0
    BY <1>2 DEF DReads
  <1>4. db \in [branch : {"deposit"}, C : Leaf] \cup [branch : {"flush"}]
    BY <1>1 DEF Passes, DBranch
  <1> QED
    BY <1>2, <1>3, <1>4

LEMMA WReadsInput ==
  ASSUME NEW cd, NEW cw, Pair(utxos, cd, cw), NEW ins, NEW db, NEW wb, NEW o0, NEW o1, NEW o2,
         Passes(ins, db, wb, o0, o1, o2), NEW j \in DOMAIN ins, ins[j] = cw
  PROVE  /\ WReads(ins, wb, j) /\ WPins0(ins, wb, j, o0) /\ WPins1(ins, wb, j, o1)
         /\ wb.branch = "withdraw" => wb.n \in Note /\ wb.s \in Slot
  <1>1. j \in At(ins, "W")
    BY DEF Pair, IsWCoin, At
  <1>2. WReads(ins, wb, j) /\ WPins0(ins, wb, j, o0) /\ WPins1(ins, wb, j, o1)
    BY <1>1 DEF Passes, InputsPass, Output0Passes, Output1Passes
  <1>3. wb \in [branch : {"withdraw"}, n : Note, s : Slot] \cup [branch : {"flush"}]
    BY <1>1 DEF Passes, WBranch
  <1> QED
    BY <1>2, <1>3

\* The outputs that carry the category, when as many tokens are spent.
LEMMA CoinsMade ==
  ASSUME NEW h, NEW o0, NEW o1, NEW o2
  PROVE  /\ {Coin(<<h, k - 1>>, <<o0, o1, o2>>[k]) : k \in {1}} = {Coin(<<h, 0>>, o0)}
         /\ {Coin(<<h, k - 1>>, <<o0, o1, o2>>[k]) : k \in {1, 2}}
              = {Coin(<<h, 0>>, o0), Coin(<<h, 1>>, o1)}
  <1>1. 1 - 1 = 0 /\ 2 - 1 = 1 /\ <<o0, o1, o2>>[1] = o0 /\ <<o0, o1, o2>>[2] = o1
    OBVIOUS
  <1> QED
    BY <1>1, Zenon

LEMMA Created ==
  ASSUME NEW ins, NEW wb, NEW o0, NEW o1, NEW o2, Accept(ins, wb, <<o0, o1, o2>>), Carries(o0),
         NEW spent, spent = {i \in DOMAIN ins : Carries(ins[i].out)}
  PROVE  /\ Cardinality(spent) = 1 =>
              \E n0 : n0.out = o0 /\ utxos' = (utxos \ Range(ins)) \cup {n0}
         /\ Cardinality(spent) = 2 /\ Carries(o1) =>
              \E n0, n1 : n0.out = o0 /\ n1.out = o1 /\ utxos' = (utxos \ Range(ins)) \cup {n0, n1}
  <1> DEFINE outs == <<o0, o1, o2>>
             made == {k \in DOMAIN outs : Carries(outs[k])}
  <1>1. /\ DOMAIN outs = 1 .. 3 /\ outs[1] = o0 /\ outs[2] = o1
        /\ made \in SUBSET (1 .. 3) /\ 1 \in made /\ (Carries(o1) => 2 \in made)
    OBVIOUS
  <1>2. Cardinality(made) <= Cardinality(spent)
    BY TokensAreCounted DEF Accept
  <1>3. utxos' = (utxos \ Range(ins)) \cup {Coin(<<height, k - 1>>, outs[k]) : k \in made}
    BY DEF Accept
  <1>4. \A h, o : Coin(h, o).out = o
    BY DEF Coin
  <1>5. ASSUME Cardinality(spent) = 1
        PROVE  \E n0 : n0.out = o0 /\ utxos' = (utxos \ Range(ins)) \cup {n0}
    <2>1. Cardinality(made) <= 1
      BY <1>2, <1>5
    <2>2. made = {1}
      <3> HIDE DEF made
      <3> QED
        BY <1>1, <2>1, OnlyFirst
    <2>3. utxos' = (utxos \ Range(ins)) \cup {Coin(<<height, 0>>, o0)}
      <3>1. {Coin(<<height, k - 1>>, outs[k]) : k \in {1}} = {Coin(<<height, 0>>, o0)}
        BY CoinsMade
      <3> HIDE DEF made, outs
      <3> QED
        BY <1>3, <2>2, <3>1
    <2> QED
      BY <1>4, <2>3
  <1>6. ASSUME Cardinality(spent) = 2, Carries(o1)
        PROVE  \E n0, n1 : n0.out = o0 /\ n1.out = o1 /\ utxos' = (utxos \ Range(ins)) \cup {n0, n1}
    <2>1. Cardinality(made) <= 2
      BY <1>2, <1>6
    <2>2. made = {1, 2}
      <3> HIDE DEF made
      <3> QED
        BY <1>1, <1>6, <2>1, OnlyFirst
    <2>3. utxos' = (utxos \ Range(ins)) \cup {Coin(<<height, 0>>, o0), Coin(<<height, 1>>, o1)}
      <3>1. {Coin(<<height, k - 1>>, outs[k]) : k \in {1, 2}}
              = {Coin(<<height, 0>>, o0), Coin(<<height, 1>>, o1)}
        BY CoinsMade
      <3> HIDE DEF made, outs
      <3> QED
        BY <1>3, <2>2, <3>1
    <2> QED
      BY <1>4, <2>3
  <1> QED
    BY <1>5, <1>6

(***************************************************************************)
(* The three transactions.  D spent on the deposit branch: W is not.       *)
(***************************************************************************)
LEMMA Batch == BATCH * (DELTA + FEE) \in Nat /\ DELTA + FEE \in Nat \ {0}
  BY SizeAssumption, ValueAssumption

LEMMA DepositIs ==
  ASSUME NEW cd, NEW cw, Pair(utxos, cd, cw), NEW ins, NEW db, NEW wb, NEW o0, NEW o1, NEW o2,
         Passes(ins, db, wb, o0, o1, o2), NEW j \in DOMAIN ins, ins[j] = cd, db.branch = "deposit"
  PROVE  /\ db.C \in Leaf /\ DepositAllowed(StateOf(cd.out), db.C)
         /\ o0.token.com = DCom(DepositD(StateOf(cd.out), db.C))
         /\ o0.value = cd.out.value + DELTA + FEE
         /\ payouts' = payouts
         /\ \E n0 : n0.out = o0 /\ Pair(utxos', n0, cw)
  <1>1. /\ ins \in Inputs /\ o0 \in Outputs(ins) /\ Accept(ins, wb, <<o0, o1, o2>>)
        /\ wb \in WBranch(ins)
    BY DEF Passes
  <1>2. /\ j = 0 /\ ins[0] = cd /\ 0 \in DOMAIN ins /\ db.C \in Leaf
        /\ DReads(ins, db, 0) /\ DPins0(ins, db, o0)
    BY DReadsInput
  <1>3. /\ DepositAllowed(StateOf(cd.out), db.C)
        /\ o0.lock = "D" /\ OwnMutable(o0)
        /\ o0.token.com = DCom(DepositD(StateOf(cd.out), db.C))
        /\ o0.value = cd.out.value + DELTA + FEE
    BY <1>2 DEF DReads, DPins0
  <1>4. ASSUME NEW i \in DOMAIN ins, ins[i] = cw PROVE FALSE
    <2>1. WReads(ins, wb, i) /\ WPins0(ins, wb, i, o0)
      BY <1>4, WReadsInput
    <2>2. CASE wb.branch = "flush"
      <3>1. o0.value = cd.out.value - BATCH * (DELTA + FEE)
        BY <1>2, <2>1, <2>2 DEF WPins0
      <3>2. cd.out.value \in Nat
        BY DEF Pair, IsDCoin
      <3> QED
        BY <1>3, <3>1, <3>2, Batch, ValueAssumption
    <2>3. CASE wb.branch = "withdraw"
      BY <1>2, <2>1, <2>3 DEF WReads, WWithdrawReads, At, Pair, IsDCoin
    <2> QED
      BY <2>1, <2>2, <2>3 DEF WReads
  <1>5. payouts' = payouts
    <2>1. At(ins, "W") = {}
      BY <1>1, <1>4, OwnInputs DEF At
    <2>2. wb.branch = "none"
      BY <1>1, <2>1 DEF WBranch, NoBranch
    <2> QED
      BY <1>1, <2>2 DEF Accept
  <1> DEFINE spent == {i \in DOMAIN ins : Carries(ins[i].out)}
  <1>6. spent = {0} /\ Cardinality(spent) = 1
    <2>1. \A i \in DOMAIN ins : Carries(ins[i].out) <=> i = 0
      <3> TAKE i \in DOMAIN ins
      <3>1. Carries(ins[i].out) <=> ins[i] \in {cd, cw}
        BY <1>1, OwnInputs
      <3>2. ins[i] = cd => i = 0
        BY <1>1, <1>2, InputsAre DEF Pair
      <3> QED
        BY <1>2, <1>4, <3>1, <3>2
    <2>2. spent = {0}
      BY <1>2, <2>1
    <2> QED
      BY <2>2, FS_Singleton
  <1>7. Carries(o0)
    BY <1>3 DEF OwnMutable, Carries
  <1>8. PICK n0 : n0.out = o0 /\ utxos' = (utxos \ Range(ins)) \cup {n0}
    <2> HIDE DEF spent
    <2> QED
      BY <1>1, <1>6, <1>7, Created DEF spent
  <1>9. utxos \ Range(ins) = {cw}
    <2>1. cd \in Range(ins) /\ cw \notin Range(ins)
      BY <1>2, <1>4 DEF Range
    <2> QED
      BY <2>1 DEF Pair
  <1>10. IsDCoin(n0)
    <2>1. PrefixOf(o0) = 68
      BY <1>3 DEF PrefixOf, DCom
    <2>2. o0.value \in Nat
      BY <1>1, OutputsHaveValues
    <2> QED
      BY <1>3, <1>8, <2>1, <2>2 DEF IsDCoin
  <1>11. Pair(utxos', n0, cw)
    BY <1>8, <1>9, <1>10 DEF Pair
  <1> QED
    BY <1>2, <1>3, <1>5, <1>8, <1>11

LEMMA FlushIs ==
  ASSUME NEW cd, NEW cw, Pair(utxos, cd, cw), NEW ins, NEW db, NEW wb, NEW o0, NEW o1, NEW o2,
         Passes(ins, db, wb, o0, o1, o2), NEW j \in DOMAIN ins, ins[j] = cd, db.branch = "flush"
  PROVE  /\ FlushAllowed(StateOf(cd.out))
         /\ o0.token.com = DCom(FlushD(StateOf(cd.out)))
         /\ o0.value = cd.out.value - BATCH * (DELTA + FEE)
         /\ o1.token.com = WCom(FlushW(StateOf(cw.out), FlushD(StateOf(cd.out)).leaves))
         /\ o1.value = cw.out.value + BATCH * DELTA
         /\ payouts' = payouts
         /\ \E n0, n1 : n0.out = o0 /\ n1.out = o1 /\ Pair(utxos', n0, n1)
  <1>1. /\ ins \in Inputs /\ o0 \in Outputs(ins) /\ o1 \in Outputs(ins)
        /\ Accept(ins, wb, <<o0, o1, o2>>)
    BY DEF Passes
  <1>2. /\ j = 0 /\ ins[0] = cd /\ 0 \in DOMAIN ins
        /\ DReads(ins, db, 0) /\ DPins0(ins, db, o0) /\ DPins1(ins, db, o1)
    BY DReadsInput
  <1>3. /\ FlushAllowed(StateOf(cd.out))
        /\ 1 \in DOMAIN ins /\ ins[1] = cw
        /\ o0.lock = "D" /\ OwnMutable(o0)
        /\ o0.token.com = DCom(FlushD(StateOf(cd.out)))
        /\ o0.value = cd.out.value - BATCH * (DELTA + FEE)
    <2>1. DFlushReads(ins)
      BY <1>2 DEF DReads
    <2>2. 1 \in DOMAIN ins /\ ins[1] = cw
      BY <1>1, <2>1, OwnInputs DEF DFlushReads
    <2> QED
      BY <1>2, <2>1, <2>2 DEF DFlushReads, DPins0
  <1>4. /\ o1.lock = "W" /\ OwnMutable(o1)
        /\ o1.token.com = WCom(FlushW(StateOf(cw.out), FlushD(StateOf(cd.out)).leaves))
        /\ o1.value = cw.out.value + BATCH * DELTA
    BY <1>2, <1>3 DEF DPins1, Pair, IsWCoin
  <1>5. payouts' = payouts
    <2>1. WReads(ins, wb, 1)
      BY <1>3, WReadsInput
    <2>2. wb.branch # "withdraw"
      <3>1. CASE wb.branch = "withdraw"
        BY <1>2, <2>1, <3>1 DEF WReads, WWithdrawReads, At, Pair, IsDCoin
      <3> QED
        BY <3>1
    <2> QED
      BY <1>1, <2>2 DEF Accept
  <1> DEFINE spent == {i \in DOMAIN ins : Carries(ins[i].out)}
  <1>6. Cardinality(spent) = 2
    <2>1. \A i \in DOMAIN ins : Carries(ins[i].out) <=> i \in {0, 1}
      <3> TAKE i \in DOMAIN ins
      <3>1. Carries(ins[i].out) <=> ins[i] \in {cd, cw}
        BY <1>1, OwnInputs
      <3>2. (ins[i] = cd => i = 0) /\ (ins[i] = cw => i = 1)
        BY <1>1, <1>2, <1>3, InputsAre DEF Pair
      <3> QED
        BY <1>2, <1>3, <3>1, <3>2
    <2>2. spent = {0} \cup {1}
      BY <1>2, <1>3, <2>1
    <2>3. IsFiniteSet({0}) /\ Cardinality({0}) = 1
      BY FS_Singleton
    <2>4. Cardinality({0} \cup {1}) = IF 1 \in {0} THEN Cardinality({0}) ELSE Cardinality({0}) + 1
      BY <2>3, FS_AddElement
    <2>5. 1 \notin {0}
      OBVIOUS
    <2> QED
      BY <2>2, <2>3, <2>4, <2>5
  <1>7. Carries(o0) /\ Carries(o1)
    BY <1>3, <1>4 DEF OwnMutable, Carries
  <1>8. PICK n0, n1 : n0.out = o0 /\ n1.out = o1 /\ utxos' = (utxos \ Range(ins)) \cup {n0, n1}
    <2> HIDE DEF spent
    <2> QED
      BY <1>1, <1>6, <1>7, Created DEF spent
  <1>9. utxos \ Range(ins) = {}
    <2>1. cd \in Range(ins) /\ cw \in Range(ins)
      BY <1>2, <1>3 DEF Range
    <2> QED
      BY <2>1 DEF Pair
  <1>10. IsDCoin(n0) /\ IsWCoin(n1)
    <2>1. PrefixOf(o0) = 68 /\ PrefixOf(o1) = 87
      BY <1>3, <1>4 DEF PrefixOf, DCom, WCom
    <2>2. o0.value \in Nat /\ o1.value \in Nat
      BY <1>1, OutputsHaveValues
    <2> QED
      BY <1>3, <1>4, <1>8, <2>1, <2>2 DEF IsDCoin, IsWCoin
  <1>11. Pair(utxos', n0, n1)
    BY <1>8, <1>9, <1>10 DEF Pair
  <1> QED
    BY <1>3, <1>4, <1>5, <1>8, <1>11

LEMMA WithdrawIs ==
  ASSUME NEW cd, NEW cw, Pair(utxos, cd, cw), NEW ins, NEW db, NEW wb, NEW o0, NEW o1, NEW o2,
         Passes(ins, db, wb, o0, o1, o2), NEW j \in DOMAIN ins, ins[j] = cw,
         \A i \in DOMAIN ins : ins[i] # cd
  PROVE  /\ wb.n \in Note /\ wb.s \in Slot /\ WithdrawAllowed(StateOf(cw.out), wb.n, wb.s)
         /\ o0.token.com = WCom(WithdrawW(StateOf(cw.out), wb.n))
         /\ o0.value = cw.out.value - DELTA /\ o0.value \in Nat
         /\ payouts' = Append(payouts, NfOf[wb.n])
         /\ \E n0 : n0.out = o0 /\ Pair(utxos', cd, n0)
  <1>1. ins \in Inputs /\ o0 \in Outputs(ins) /\ Accept(ins, wb, <<o0, o1, o2>>)
    BY DEF Passes
  <1>2. WReads(ins, wb, j) /\ WPins0(ins, wb, j, o0)
    BY WReadsInput
  <1>3. wb.branch = "withdraw" /\ wb.n \in Note /\ wb.s \in Slot
    <2>1. ~WFlushReads(ins, j)
      <3>1. 0 \in DOMAIN ins
        BY <1>1, InputsAre
      <3> QED
        BY <1>1, <3>1, OwnInputs DEF WFlushReads
    <2> QED
      BY <1>2, <2>1, WReadsInput DEF WReads
  <1>4. /\ WithdrawAllowed(StateOf(cw.out), wb.n, wb.s)
        /\ o0.lock = "W" /\ OwnMutable(o0)
        /\ o0.token.com = WCom(WithdrawW(StateOf(cw.out), wb.n))
        /\ o0.value = cw.out.value - DELTA
    BY <1>2, <1>3 DEF WReads, WWithdrawReads, WPins0
  <1>5. payouts' = Append(payouts, NfOf[wb.n])
    BY <1>1, <1>3 DEF Accept
  <1> DEFINE spent == {i \in DOMAIN ins : Carries(ins[i].out)}
  <1>6. Cardinality(spent) = 1
    <2>1. \A i \in DOMAIN ins : Carries(ins[i].out) <=> i = j
      <3> TAKE i \in DOMAIN ins
      <3>1. Carries(ins[i].out) <=> ins[i] \in {cd, cw}
        BY <1>1, OwnInputs
      <3>2. ins[i] = cw => i = j
        BY <1>1, InputsAre DEF Pair
      <3> QED
        BY <3>1, <3>2
    <2>2. spent = {j}
      BY <2>1
    <2> QED
      BY <2>2, FS_Singleton
  <1>7. Carries(o0)
    BY <1>4 DEF OwnMutable, Carries
  <1>8. PICK n0 : n0.out = o0 /\ utxos' = (utxos \ Range(ins)) \cup {n0}
    <2> HIDE DEF spent
    <2> QED
      BY <1>1, <1>6, <1>7, Created DEF spent
  <1>9. utxos \ Range(ins) = {cd}
    <2>1. cw \in Range(ins) /\ cd \notin Range(ins)
      BY DEF Range
    <2> QED
      BY <2>1 DEF Pair
  <1>10. o0.value \in Nat
    BY <1>1, OutputsHaveValues
  <1>11. IsWCoin(n0)
    <2>1. PrefixOf(o0) = 87
      BY <1>4 DEF PrefixOf, WCom
    <2> QED
      BY <1>4, <1>8, <1>10, <2>1 DEF IsWCoin
  <1>12. Pair(utxos', cd, n0)
    BY <1>8, <1>9, <1>11 DEF Pair
  <1> QED
    BY <1>3, <1>4, <1>5, <1>8, <1>10, <1>12

(***************************************************************************)
(* Every transaction is one of the three.                                  *)
(***************************************************************************)
\* What the pool reads of its two outputs, before and after.
LEMMA ReadBefore ==
  ASSUME NEW cd, NEW cw, Pair(utxos, cd, cw)
  PROVE  TheD = cd.out /\ TheW = cw.out
  <1>1. /\ (CHOOSE c \in utxos : PrefixOf(c.out) = 68) = cd
        /\ (CHOOSE c \in utxos : PrefixOf(c.out) = 87) = cw
    BY PairIsRead
  <1> QED
    BY <1>1 DEF TheD, TheW

LEMMA ReadAfter ==
  ASSUME NEW cd, NEW cw, Pair(utxos', cd, cw)
  PROVE  TheD' = cd.out /\ TheW' = cw.out
  <1>1. /\ (CHOOSE c \in utxos' : PrefixOf(c.out) = 68) = cd
        /\ (CHOOSE c \in utxos' : PrefixOf(c.out) = 87) = cw
    BY PairIsRead
  <1> QED
    BY <1>1 DEF TheD, TheW

LEMMA TransactionIs ==
  ASSUME NEW cd, NEW cw, Pair(utxos, cd, cw), NEW ins, NEW db, NEW wb, NEW o0, NEW o1, NEW o2,
         Passes(ins, db, wb, o0, o1, o2)
  PROVE  Inv' /\ OnChain!Next
  <1>1. \/ \E j \in DOMAIN ins : ins[j] = cd
        \/ (\A i \in DOMAIN ins : ins[i] # cd) /\ \E j \in DOMAIN ins : ins[j] = cw
    <2>1. ins \in Inputs
      BY DEF Passes
    <2>2. PICK j \in DOMAIN ins : ins[j] \in utxos
      BY <2>1, InputsAre
    <2> QED
      BY <2>2 DEF Pair
  <1>2. TheD = cd.out /\ TheW = cw.out
    BY ReadBefore
  <1>3. ASSUME NEW j \in DOMAIN ins, ins[j] = cd PROVE Inv' /\ OnChain!Next
    <2>1. CASE db.branch = "deposit"
      <3>1. /\ db.C \in Leaf /\ DepositAllowed(StateOf(cd.out), db.C)
            /\ o0.token.com = DCom(DepositD(StateOf(cd.out), db.C))
            /\ o0.value = cd.out.value + DELTA + FEE /\ payouts' = payouts
        BY <1>3, <2>1, DepositIs
      <3>2. PICK n0 : n0.out = o0 /\ Pair(utxos', n0, cw)
        BY <1>3, <2>1, DepositIs
      <3>3. TheD' = o0 /\ TheW' = cw.out
        BY <3>2, ReadAfter
      <3>4. StateOf(TheD)' = DepositD(StateOf(cd.out), db.C) /\ StateOf(TheW)' = StateOf(cw.out)
        BY <3>1, <3>3 DEF StateOf, DCom
      <3>5. OnChain!Deposit(db.C)
        BY <1>2, <3>1, <3>3, <3>4
           DEF OnChain!Deposit, OnChain!DepositAllowed, OnChain!DepositD, DepositAllowed, DepositD
      <3>6. Inv'
        BY <3>2 DEF Inv, Pair
      <3> QED
        BY <3>1, <3>5, <3>6 DEF OnChain!Next
    <2>2. CASE db.branch = "flush"
      <3>1. /\ FlushAllowed(StateOf(cd.out))
            /\ o0.token.com = DCom(FlushD(StateOf(cd.out)))
            /\ o0.value = cd.out.value - BATCH * (DELTA + FEE)
            /\ o1.token.com = WCom(FlushW(StateOf(cw.out), FlushD(StateOf(cd.out)).leaves))
            /\ o1.value = cw.out.value + BATCH * DELTA
            /\ payouts' = payouts
        BY <1>3, <2>2, FlushIs
      <3>2. PICK n0, n1 : n0.out = o0 /\ n1.out = o1 /\ Pair(utxos', n0, n1)
        BY <1>3, <2>2, FlushIs
      <3>3. TheD' = o0 /\ TheW' = o1
        BY <3>2, ReadAfter
      <3>4. /\ StateOf(TheD)' = FlushD(StateOf(cd.out))
            /\ StateOf(TheW)' = FlushW(StateOf(cw.out), FlushD(StateOf(cd.out)).leaves)
        BY <3>1, <3>3 DEF StateOf, DCom, WCom
      <3>5. OnChain!Flush
        BY <1>2, <3>1, <3>3, <3>4
           DEF OnChain!Flush, OnChain!FlushAllowed, OnChain!FlushD, OnChain!FlushW,
               FlushAllowed, FlushD, FlushW
      <3>6. Inv'
        BY <3>2 DEF Inv, Pair
      <3> QED
        BY <3>5, <3>6 DEF OnChain!Next
    <2>3. DReads(ins, db, 0)
      BY <1>3, DReadsInput
    <2> QED
      BY <2>1, <2>2, <2>3 DEF DReads
  <1>4. ASSUME NEW j \in DOMAIN ins, ins[j] = cw, \A i \in DOMAIN ins : ins[i] # cd
        PROVE  Inv' /\ OnChain!Next
    <2>1. /\ wb.n \in Note /\ wb.s \in Slot /\ WithdrawAllowed(StateOf(cw.out), wb.n, wb.s)
          /\ o0.token.com = WCom(WithdrawW(StateOf(cw.out), wb.n))
          /\ o0.value = cw.out.value - DELTA /\ o0.value \in Nat
          /\ payouts' = Append(payouts, NfOf[wb.n])
      BY <1>4, WithdrawIs
    <2>2. PICK n0 : n0.out = o0 /\ Pair(utxos', cd, n0)
      BY <1>4, WithdrawIs
    <2>3. TheD' = cd.out /\ TheW' = o0
      BY <2>2, ReadAfter
    <2>4. StateOf(TheW)' = WithdrawW(StateOf(cw.out), wb.n) /\ StateOf(TheD)' = StateOf(cd.out)
      BY <2>1, <2>3 DEF StateOf, WCom
    <2>5. cw.out.value >= DELTA
      <3>1. cw.out.value \in Nat
        BY DEF Pair, IsWCoin
      <3> QED
        BY <2>1, <3>1, ValueAssumption
    <2>6. wb.s \in OnChain!Slot
      BY <2>1 DEF OnChain!Slot, Slot
    <2>7. OnChain!WithdrawAllowed(StateOf(cw.out), wb.n, wb.s)
      BY <2>1 DEF OnChain!WithdrawAllowed, WithdrawAllowed, OnChain!Z, Z, OnChain!Range, Range
    <2>8. OnChain!Withdraw(wb.n, wb.s)
      BY <1>2, <2>1, <2>3, <2>4, <2>5, <2>7
         DEF OnChain!Withdraw, OnChain!WithdrawW, WithdrawW
    <2>9. Inv'
      BY <2>2 DEF Inv, Pair
    <2> QED
      BY <2>1, <2>6, <2>8, <2>9 DEF OnChain!Next
  <1> QED
    BY <1>1, <1>3, <1>4

LEMMA NextPasses ==
  ASSUME CovenantNext
  PROVE  \E ins, db, wb, o0, o1, o2 : Passes(ins, db, wb, o0, o1, o2)
  BY DEF CovenantNext, Passes

LEMMA Step == Inv /\ [CovenantNext]_covenantVars => Inv' /\ [OnChain!Next]_OnChain!vars
  <1> SUFFICES ASSUME Inv, [CovenantNext]_covenantVars PROVE Inv' /\ [OnChain!Next]_OnChain!vars
    OBVIOUS
  <1>1. CASE CovenantNext
    BY <1>1, NextPasses, TransactionIs DEF Inv
  <1>2. CASE UNCHANGED covenantVars
    BY <1>2 DEF covenantVars, Inv, OnChain!vars, TheD, TheW
  <1> QED
    BY <1>1, <1>2

\* However many outputs at the pool's lockings and of other categories there
\* are, the pool's tokens are one D and one W.
THEOREM OneDOneW == CovenantSpec => []OneOfEach
  <1>1. Inv => OneOfEach
    BY DEF Inv, Pair, IsDCoin, IsWCoin, OneOfEach
  <1> QED
    BY <1>1, InitInv, Step, PTL DEF CovenantSpec

\* Every transaction the scripts and the token rules let through is a deposit,
\* a flush or a withdrawal of Pool, whose theorems therefore hold of the chain.
THEOREM CovenantImplementsPool == CovenantSpec => ImplementsPool
  <1> QED
    BY InitInv, Step, PTL DEF CovenantSpec, ImplementsPool, OnChain!Spec
=============================================================================
