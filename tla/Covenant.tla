------------------------------ MODULE Covenant ------------------------------
(***************************************************************************)
(* The pool as the chain sees it: outputs that carry tokens of the pool's  *)
(* category, and transactions, any transaction, that spend them.  Pool.tla *)
(* has three actions because the scripts of D and W let nothing else       *)
(* through; this module has the scripts (d/dcov.mjs buildD and flushBlob,  *)
(* w/wcov.mjs buildW, the checks r/gena.mjs makes on a transaction's       *)
(* inputs and outputs) and the token rules, and claims just that.          *)
(*                                                                         *)
(* A commitment is its prefix byte and the state it hashes.  Outputs that  *)
(* do not carry the category can be had at will, so they are not kept.     *)
(***************************************************************************)
EXTENDS PoolState

CONSTANTS
    D_VALUE, W_VALUE,   \* the values of the two genesis outputs
    NWORKER,            \* 4: the workers of a flush, inputs 2 to 5
    N_IN                \* 6: the inputs of a withdrawal, R's five and W

ASSUME GenesisAssumption == D_VALUE \in Nat /\ W_VALUE \in Nat
ASSUME GraphAssumption == NWORKER \in Nat /\ N_IN \in Nat \ {0, 1}

VARIABLES
    utxos,      \* the unspent outputs that carry CAT, with their outpoints
    height,     \* the number of transactions that spent or made such outputs
    payouts     \* history: the nullifiers paid, in chain order
covenantVars == <<utxos, height, payouts>>

(***************************************************************************)
(* Outputs.                                                                *)
(***************************************************************************)
DCom(d) == [prefix |-> 68, state |-> d]
WCom(w) == [prefix |-> 87, state |-> w]
Nft(cat, cap, com) == [cat |-> cat, cap |-> cap, com |-> com]
NoToken == Nft("none", "none", DCom(EmptyD))
Output(lock, token, value) == [lock |-> lock, token |-> token, value |-> value]
Coin(op, out) == [op |-> op, out |-> out]

\* Category CAT || 0x01.
OwnMutable(out) == out.token.cat = "CAT" /\ out.token.cap = "mutable"
StateOf(out) == out.token.com.state
PrefixOf(out) == out.token.com.prefix

\* Outputs anybody can make: R's, a worker's, a plain one, and the states of
\* another pool, at a plain locking or at this pool's.
Outside ==
    LET other == {Nft("OTHER", "mutable", com) : com \in {DCom(EmptyD), WCom(EmptyW)}}
        outs  == {Output(lock, NoToken, 0) : lock \in {"R", "Worker", "Plain"}}
                   \cup {Output("Plain", t, 0) : t \in other}
                   \cup {Output("D", t, 0) : t \in other}
    IN  {Coin(<<>>, out) : out \in outs}

(***************************************************************************)
(* A transaction has inputs ins[0], ins[1], ... as the scripts count them. *)
(* Its spender selects the branch of D and of W; SMT paths, ring siblings  *)
(* and queue preimages follow from the state the commitment hashes.        *)
(***************************************************************************)
At(ins, lock) == {i \in DOMAIN ins : ins[i].out.lock = lock}

NoBranch == {[branch |-> "none"]}
DBranch(ins) ==
    IF At(ins, "D") = {} THEN NoBranch
    ELSE [branch : {"deposit"}, C : Leaf] \cup [branch : {"flush"}]
WBranch(ins) ==
    IF At(ins, "W") = {} THEN NoBranch
    ELSE [branch : {"withdraw"}, n : Note, s : Slot] \cup [branch : {"flush"}]

(***************************************************************************)
(* D is input 0 and holds the category's mutable token with prefix 0x44.   *)
(* Output 0 repeats locking and token; the branch fixes the rest of it, a  *)
(* flush also reads W at input 1 and fixes output 1 to the last byte.      *)
(***************************************************************************)
DFlushReads(ins) ==
    /\ FlushAllowed(StateOf(ins[0].out))
    /\ 1 \in DOMAIN ins /\ OwnMutable(ins[1].out) /\ PrefixOf(ins[1].out) = 87
    /\ \A k \in 2 .. NWORKER + 1 : k \in At(ins, "Worker")
DReads(ins, b, i) ==
    /\ i = 0
    /\ OwnMutable(ins[i].out) /\ PrefixOf(ins[i].out) = 68
    /\ \/ b.branch = "deposit" /\ DepositAllowed(StateOf(ins[i].out), b.C)
       \/ b.branch = "flush" /\ DFlushReads(ins)

\* Mutant: output 0 may have any locking.
DPins0AnyLock(ins, b, out) ==
    /\ OwnMutable(out)
    /\ \/ /\ b.branch = "deposit"
          /\ out.token.com = DCom(DepositD(StateOf(ins[0].out), b.C))
          /\ out.value = ins[0].out.value + DELTA + FEE
       \/ /\ b.branch = "flush"
          /\ out.token.com = DCom(FlushD(StateOf(ins[0].out)))
          /\ out.value = ins[0].out.value - BATCH * (DELTA + FEE)
DPins0(ins, b, out) ==
    /\ out.lock = "D" /\ OwnMutable(out)
    /\ \/ /\ b.branch = "deposit"
          /\ out.token.com = DCom(DepositD(StateOf(ins[0].out), b.C))
          /\ out.value = ins[0].out.value + DELTA + FEE
       \/ /\ b.branch = "flush"
          /\ out.token.com = DCom(FlushD(StateOf(ins[0].out)))
          /\ out.value = ins[0].out.value - BATCH * (DELTA + FEE)

DPins1(ins, b, out) ==
    b.branch = "flush" =>
        /\ out.lock = ins[1].out.lock /\ OwnMutable(out)
        /\ out.token.com =
              WCom(FlushW(StateOf(ins[1].out), FlushD(StateOf(ins[0].out)).leaves))
        /\ out.value = ins[1].out.value + BATCH * DELTA

(***************************************************************************)
(* W: to flush, it must be input 1 next to D, and D's value must go down   *)
(* by a batch; of output 1's commitment it compares the first 33 bytes. To *)
(* withdraw, it must be the last of N_IN inputs, R the first.              *)
(***************************************************************************)
WFlushReads(ins, i) ==
    /\ i = 1 /\ OwnMutable(ins[i].out)
    /\ OwnMutable(ins[0].out) /\ PrefixOf(ins[0].out) = 68
WWithdrawReads(ins, b, i) ==
    /\ DOMAIN ins = 0 .. N_IN - 1 /\ i = N_IN - 1
    /\ 0 \in At(ins, "R")
    /\ OwnMutable(ins[i].out) /\ PrefixOf(ins[i].out) = 87
    /\ WithdrawAllowed(StateOf(ins[i].out), b.n, b.s)
WReads(ins, b, i) ==
    \/ b.branch = "flush" /\ WFlushReads(ins, i)
    \/ b.branch = "withdraw" /\ WWithdrawReads(ins, b, i)

\* Mutant: the flush branch does not look at D's value.
WPins0AnyValue(ins, b, i, out) ==
    \/ b.branch = "flush"
    \/ /\ b.branch = "withdraw"
       /\ out.lock = "W" /\ OwnMutable(out)
       /\ out.token.com = WCom(WithdrawW(StateOf(ins[i].out), b.n))
       /\ out.value = ins[i].out.value - DELTA
WPins0(ins, b, i, out) ==
    \/ /\ b.branch = "flush"
       /\ out.value = ins[0].out.value - BATCH * (DELTA + FEE)
    \/ /\ b.branch = "withdraw"
       /\ out.lock = "W" /\ OwnMutable(out)
       /\ out.token.com = WCom(WithdrawW(StateOf(ins[i].out), b.n))
       /\ out.value = ins[i].out.value - DELTA

WPins1(ins, b, i, out) ==
    b.branch = "flush" =>
        /\ out.lock = "W" /\ OwnMutable(out)
        /\ PrefixOf(out) = PrefixOf(ins[i].out)
        /\ StateOf(out).keys = StateOf(ins[i].out).keys
        /\ out.value = ins[i].out.value + BATCH * DELTA

(***************************************************************************)
(* R, in the final transaction of a withdrawal: all inputs but the last    *)
(* are R's, the last is the pool's W; a payout follows output 0 and has no *)
(* token.  In the other transaction all inputs are R's.                    *)
(***************************************************************************)
RReads(ins, i) ==
    LET last == Cardinality(DOMAIN ins) - 1
    IN  \/ At(ins, "R") = DOMAIN ins
        \/ /\ last = N_IN - 1 /\ At(ins, "R") = 0 .. last - 1
           /\ OwnMutable(ins[last].out) /\ PrefixOf(ins[last].out) = 87
RPins1(out) == out.token = NoToken

(***************************************************************************)
(* Every input's script on the inputs and on outputs 0 and 1.              *)
(***************************************************************************)
InputsPass(ins, db, wb) ==
    /\ \A i \in At(ins, "D") : DReads(ins, db, i)
    /\ \A i \in At(ins, "W") : WReads(ins, wb, i)
    /\ \A i \in At(ins, "R") : RReads(ins, i)
Output0Passes(ins, db, wb, out) ==
    /\ At(ins, "D") # {} => DPins0(ins, db, out)
    /\ \A i \in At(ins, "W") : WPins0(ins, wb, i, out)
Output1Passes(ins, db, wb, out) ==
    /\ At(ins, "D") # {} => DPins1(ins, db, out)
    /\ \A i \in At(ins, "W") : WPins1(ins, wb, i, out)
    /\ At(ins, "R") # {} => RPins1(out)

(***************************************************************************)
(* The token rules of the chain: the category has no minting token, so a   *)
(* token in an output replaces one that was spent, and a mutable one a     *)
(* mutable one.  (That an immutable one keeps its commitment is left out.) *)
(***************************************************************************)
Carries(out) == out.token.cat = "CAT"
TokensBalance(ins, outs) ==
    LET Spent(P(_))   == Cardinality({i \in DOMAIN ins : P(ins[i].out)})
        Created(P(_)) == Cardinality({j \in DOMAIN outs : P(outs[j])})
    IN  Created(Carries) <= Spent(Carries) /\ Created(OwnMutable) <= Spent(OwnMutable)

(***************************************************************************)
(* The transactions: any inputs, one of them with a token of the category; *)
(* any three outputs whose commitments and values can be reached from the  *)
(* tokens spent.  Further outputs could carry no token.                    *)
(***************************************************************************)
MaxInputs == IF N_IN > NWORKER + 2 THEN N_IN ELSE NWORKER + 2
Inputs ==
    {ins \in UNION {[0 .. k - 1 -> utxos \cup Outside] : k \in 1 .. MaxInputs} :
        /\ \E i \in DOMAIN ins : ins[i] \in utxos
        /\ \A i, j \in DOMAIN ins : ins[i] \in utxos /\ ins[i] = ins[j] => i = j}

Tokens(ins) == {ins[i].out : i \in {k \in DOMAIN ins : ins[k] \in utxos}}
Commitments(ins) ==
    LET ds == {StateOf(x) : x \in {y \in Tokens(ins) : PrefixOf(y) = 68}}
        ws == {StateOf(x) : x \in {y \in Tokens(ins) : PrefixOf(y) = 87}}
        roots == {Z} \cup {FlushD(d).leaves : d \in ds}
    IN  {DCom(d) : d \in ds \cup {DepositD(d, C) : d \in ds, C \in Leaf} \cup {FlushD(d) : d \in ds}}
        \cup {WCom(w) : w \in ws \cup {WithdrawW(w, n) : w \in ws, n \in Note}
                               \cup {FlushW(w, r) : w \in ws, r \in roots}}
Values(ins) ==
    {x.value + v : x \in Tokens(ins),
                   v \in {0, DELTA + FEE, -(BATCH * (DELTA + FEE)), BATCH * DELTA, -DELTA}} \cap Nat
Outputs(ins) ==
    LET tokens == {Nft("CAT", cap, com) : cap \in {"mutable", "immutable"}, com \in Commitments(ins)}
    IN  {Output(lock, token, value) : lock \in {"D", "W", "Plain"}, token \in tokens,
                                      value \in Values(ins)}
        \cup {Output("Plain", NoToken, value) : value \in Values(ins)}

Genesis == <<Output("D", Nft("CAT", "mutable", DCom(EmptyD)), D_VALUE),
             Output("W", Nft("CAT", "mutable", WCom(EmptyW)), W_VALUE)>>

CovenantInit ==
    /\ utxos = {Coin(<<0, j - 1>>, Genesis[j]) : j \in 1 .. 2}
    /\ height = 1
    /\ payouts = <<>>

Accept(ins, wb, outs) ==
    /\ TokensBalance(ins, outs)
    /\ utxos' = (utxos \ Range(ins))
                   \cup {Coin(<<height, j - 1>>, outs[j]) : j \in {k \in DOMAIN outs : Carries(outs[k])}}
    /\ height' = height + 1
    /\ payouts' = IF wb.branch = "withdraw"
                   THEN Append(payouts, NfOf[wb.n]) ELSE payouts

CovenantNext ==
    \E ins \in Inputs : \E db \in DBranch(ins), wb \in WBranch(ins) :
        /\ InputsPass(ins, db, wb)
        /\ \E o0 \in Outputs(ins) :
              /\ Output0Passes(ins, db, wb, o0)
              /\ \E o1 \in Outputs(ins) :
                    /\ Output1Passes(ins, db, wb, o1)
                    /\ \E o2 \in Outputs(ins) : Accept(ins, wb, <<o0, o1, o2>>)

CovenantSpec == CovenantInit /\ [][CovenantNext]_covenantVars
-----------------------------------------------------------------------------
\* SOUNDNESS-T9 L1: whatever transactions are sent, the outputs that carry the
\* category are one D and one W, each at its own locking, mutable, and with a
\* commitment of its own kind.
OneOfEach ==
    \E cd, cw \in utxos :
        /\ utxos = {cd, cw}
        /\ cd.out.lock = "D" /\ OwnMutable(cd.out) /\ PrefixOf(cd.out) = 68
        /\ cw.out.lock = "W" /\ OwnMutable(cw.out) /\ PrefixOf(cw.out) = 87

\* The scripts let through deposits, flushes and withdrawals as Pool.tla has
\* them, and nothing else: no mixture of branches, no second D or W, no other
\* pool's state in the place of this one's.
TheD == (CHOOSE c \in utxos : PrefixOf(c.out) = 68).out
TheW == (CHOOSE c \in utxos : PrefixOf(c.out) = 87).out
OnChain == INSTANCE Pool WITH
    d <- StateOf(TheD), w <- StateOf(TheW),
    dValue <- TheD.value, wValue <- TheW.value
ImplementsPool == OnChain!Spec
=============================================================================
