---------------------------- MODULE CovenantChain ----------------------------
(***************************************************************************)
(* The covenant chain of src/chunked/pairing (bn254) and                   *)
(* src/chunked/bls12-381: chunk k is the locking bytecode L_k, one         *)
(* transaction each.  A minting NFT (the baton) at L_0 starts a thread, a  *)
(* mutable NFT that carries the hash of the state from chunk to chunk; the *)
(* last chunk leaves an immutable NFT, the verdict.  The model is the      *)
(* ledger of all tokens of the category C under the consensus rules:       *)
(* anybody may publish any transaction the scripts allow.                  *)
(***************************************************************************)
EXTENDS Chunks, Sequences, SequencesExt, FiniteSets

CONSTANTS
    Commitment, Empty,  \* NFT commitments, and the empty one
    Hash,       \* Hash[s]: hash256 of the fixed-width limbs of s
    NoArg,      \* what an input of another locking pushes
    Issue,      \* Issue: the outputs the category genesis may make
    MAX_TX,     \* bound: transactions
    MAX_FT,     \* bound: fungible tokens in one output
    MAX_OUTS    \* bound: outputs of a transaction without a chunk

FREE == N               \* every locking that is not one of the chunks
Lock == 0..N
Output ==
    [lock : Lock, nft : {"none"}, commit : {Empty}, ft : 0..MAX_FT]
        \cup [lock : Lock, nft : {"immutable", "mutable", "minting"},
              commit : Commitment \cup {Empty}, ft : 0..MAX_FT]

ASSUME CovenantAssumption ==
    /\ Empty \notin Commitment
    /\ Hash \in [State -> Commitment]
    /\ \A s, t \in State : Hash[s] = Hash[t] => s = t
    /\ Issue \subseteq Seq(Output)
    /\ {MAX_TX, MAX_FT, MAX_OUTS} \subseteq Nat

VARIABLES
    txs,    \* the ledger: the transactions, each with inputs, pushes, outputs
    utxo    \* the outputs not spent, as <<transaction, index>>
vars == <<txs, utxo>>

Out(p) == txs[p[1]].outs[p[2]]
Made == UNION {{<<t, i>> : i \in DOMAIN txs[t].outs} : t \in DOMAIN txs}

\* OP_UTXOTOKENCATEGORY and OP_OUTPUTTOKENCATEGORY: the category with the
\* capability appended; fungible tokens alone read as an immutable NFT.
TokenCategory(o) ==
    CASE o.nft = "minting"   -> "C02"
      [] o.nft = "mutable"   -> "C01"
      [] o.nft = "immutable" -> "C"
      [] o.nft = "none"      -> IF o.ft > 0 THEN "C" ELSE ""

(***************************************************************************)
(* The script of chunk k, for an input that pushes a and spends o, in a     *)
(* transaction of n inputs.                                                *)
(***************************************************************************)
OutputCount(k, n) == n = IF k = Genesis THEN 2 ELSE 1

\* Mutants: covIn forgotten; the verdict not required; the baton's locking not
\* pinned; output 1 checked as output 0.
SpendsAnyState(k, a, o) ==
    TokenCategory(o) = IF k = Genesis THEN "C02" ELSE "C01"
RunsToTheEnd(k, a) ==
    /\ k = Genesis => a.in \in Statement /\ a.out \in Start[a.in]
    /\ k \in 1..N - 2 => <<a.in, a.out>> \in Step[k]
Leaves1Anywhere(k, o) ==
    k = Genesis => TokenCategory(o) = "C02" /\ o.commit = Empty
Leaves1Thread(k, o) ==
    k = Genesis => TokenCategory(o) = "C01" /\ o.lock = Genesis + 1

InputCount(n) == n = 1

\* The token that is spent; covIn, for all but the genesis.
Spends(k, a, o) ==
    IF k = Genesis THEN TokenCategory(o) = "C02" /\ o.commit = Empty
                 ELSE TokenCategory(o) = "C01" /\ o.commit = Hash[a.in]

Runs(k, a) ==
    /\ k = Genesis => a.in \in Statement /\ a.out \in Start[a.in]
    /\ k \in 1..N - 2 => <<a.in, a.out>> \in Step[k]
    /\ k = Terminal => a.in \in Accept

\* Output 0: covOut and the successor's locking, or the verdict.
Leaves0(k, a, o) ==
    IF k = Terminal
    THEN TokenCategory(o) = "C" /\ o.commit = Empty /\ o.lock = Terminal
    ELSE TokenCategory(o) = "C01" /\ o.commit = Hash[a.out] /\ o.lock = k + 1

\* Output 1 of the genesis: the baton again.
Leaves1(k, o) ==
    k = Genesis => TokenCategory(o) = "C02" /\ o.commit = Empty /\ o.lock = Genesis

Takes(k, n, a, o) == InputCount(n) /\ Spends(k, a, o) /\ Runs(k, a)

Leaves(k, a, outs) ==
    /\ OutputCount(k, Len(outs))
    /\ Leaves0(k, a, outs[1])
    /\ k = Genesis => Leaves1(k, outs[2])

(***************************************************************************)
(* The token rules: an NFT comes from a minting NFT, or replaces a mutable *)
(* one, or is an immutable one moved on; fungible tokens are not made.     *)
(***************************************************************************)
MayBecome(o, q) ==
    \/ o.nft = "mutable" /\ q.nft \in {"mutable", "immutable"}
    \/ o.nft = "immutable" /\ q.nft = "immutable" /\ q.commit = o.commit

FtOf(s) == FoldLeft(LAMBDA n, o : n + o.ft, 0, s)

Tokens(spent, outs) ==
    LET nfts == {j \in DOMAIN outs : outs[j].nft # "none"}
    IN  /\ \/ \E i \in DOMAIN spent : spent[i].nft = "minting"
           \/ \E f \in [nfts -> DOMAIN spent] :
                 /\ \A j, l \in nfts : f[j] = f[l] => j = l
                 /\ \A j \in nfts : MayBecome(spent[f[j]], outs[j])
        /\ FtOf(outs) <= FtOf(spent)

(***************************************************************************)
(* A transaction: every input's script accepts it, and so do the token     *)
(* rules.                                                                  *)
(***************************************************************************)
Locks(ins) == [i \in DOMAIN ins |-> Out(ins[i]).lock]
Chunked(ins) == {i \in DOMAIN ins : Locks(ins)[i] # FREE}

\* One or two inputs, and what their scripts are given.
Ins == {<<p>> : p \in utxo}
           \cup {s \in {<<p, q>> : p \in utxo, q \in utxo} : s[1] # s[2]}

Pushes(k) ==
    CASE k = Genesis    -> [in : Statement, out : State]
      [] k \in 1..N - 2 -> {[in |-> e[1], out |-> e[2]] : e \in Step[k]}
      [] k = Terminal   -> {[in |-> s, out |-> s] : s \in State}
      [] k = FREE       -> {NoArg}

Given(ins, i) ==
    LET k == Locks(ins)[i]
    IN  {a \in Pushes(k) : k # FREE => Takes(k, Len(ins), a, Out(ins[i]))}

Args(ins) ==
    IF Len(ins) = 1 THEN {<<a>> : a \in Given(ins, 1)}
    ELSE {<<a, b>> : a \in Given(ins, 1), b \in Given(ins, 2)}

\* Outputs the output checks let through one by one.
Outs(ins, arg) ==
    LET out0 == {o \in Output : \A i \in Chunked(ins) :
                    Leaves0(Locks(ins)[i], arg[i], o)}
        out1 == {o \in Output : \A i \in Chunked(ins) : Leaves1(Locks(ins)[i], o)}
        may(n) == /\ Chunked(ins) = {} => n <= MAX_OUTS
                  /\ \A i \in Chunked(ins) : OutputCount(Locks(ins)[i], n)
    IN  (IF may(1) THEN {<<o>> : o \in out0} ELSE {})
            \cup (IF may(2) THEN {<<o, q>> : o \in out0, q \in out1} ELSE {})

Publish(ins, arg) ==
    /\ Len(txs) < MAX_TX
    /\ \A i \in Chunked(ins) :
          Takes(Locks(ins)[i], Len(ins), arg[i], Out(ins[i]))
    /\ \E outs \in Outs(ins, arg) :
          /\ \A i \in Chunked(ins) : Leaves(Locks(ins)[i], arg[i], outs)
          /\ Tokens([i \in DOMAIN ins |-> Out(ins[i])], outs)
          /\ txs' = Append(txs, [ins |-> ins, arg |-> arg, outs |-> outs])
          /\ utxo' = (utxo \ Range(ins))
                        \cup {<<Len(txs) + 1, j>> : j \in DOMAIN outs}

Next == \E ins \in Ins : \E arg \in Args(ins) : Publish(ins, arg)

\* The category genesis comes first.
Init ==
    /\ \E outs \in Issue : txs = <<[ins |-> <<>>, arg |-> <<>>, outs |-> outs]>>
    /\ utxo = {<<1, j>> : j \in DOMAIN txs[1].outs}

Spec == Init /\ [][Next]_vars

-------------------------------------------------------------------------------
Arg == [in : Statement \cup State, out : State] \cup {NoArg}
Tx == [ins : Seq(Nat \X Nat), arg : Seq(Arg), outs : Seq(Output)]

TypeOK == txs \in Seq(Tx) /\ Len(txs) > 0 /\ utxo \subseteq Made

IsBaton(o) == o.lock = Genesis /\ o.nft = "minting" /\ o.commit = Empty
IsThread(o) == o.lock \in 1..Terminal /\ o.nft = "mutable"
IsVerdict(o) == o.lock = Terminal /\ o.nft = "immutable" /\ o.commit = Empty

\* P1 of pairing/README.md: the category genesis makes no NFT but batons.
P1 == \A outs \in Issue : \A j \in DOMAIN outs :
         outs[j].nft = "none" \/ IsBaton(outs[j])

(***************************************************************************)
(* How a consumer reads a verdict (P2): follow input 0 back, and check     *)
(* that the input of the k-th transaction was locked by L_k and that the   *)
(* first was a minting NFT.  c[k] is the k-th transaction.                 *)
(***************************************************************************)
Walk(p, k, c) ==
    /\ c \in [0..k - 1 -> DOMAIN txs]
    /\ c[k - 1] = p[1]
    /\ \A j \in 0..k - 1 :
          txs[c[j]].ins # <<>> /\ Out(txs[c[j]].ins[1]).lock = j
    /\ \A j \in 1..k - 1 : txs[c[j]].ins[1][1] = c[j - 1]
    /\ TokenCategory(Out(txs[c[0]].ins[1])) = "C02"

Walks(p, k) == {c \in [0..k - 1 -> DOMAIN txs] : Walk(p, k, c)}
StatementOf(c) == txs[c[0]].arg[1].in
Verdicts == {p \in Made : IsVerdict(Out(p))}

\* The statements a consumer who walks back from every verdict accepts.
Judged == {StatementOf(c) : c \in UNION {Walks(p, N) : p \in Verdicts}}

\* Whoever walks back from an output at the last locking and finds the
\* lockings in order reads a statement that was verified, even when the
\* category genesis made other NFTs (P2 without P1).
WalkedIsVerified ==
    \A p \in Made : \A c \in Walks(p, N) : Verified(StatementOf(c))

\* The provenance lemma of pairing/README.md: every NFT of the category is
\* a baton, a verdict, or a thread with a walk back to its genesis, whose
\* commitment is the hash of the state the transaction before computed.
TokensArePlaced ==
    \A p \in Made :
        \/ Out(p).nft = "none"
        \/ IsBaton(Out(p))
        \/ /\ IsThread(Out(p))
           /\ Out(p).commit = Hash[txs[p[1]].arg[1].out]
           /\ Walks(p, Out(p).lock) # {}
        \/ IsVerdict(Out(p)) /\ Walks(p, N) # {}

\* A verdict on the ledger is one for a verified statement, whoever
\* published the transactions (the theorem of pairing/README.md).
VerdictMeansVerified ==
    \A p \in Verdicts : \E c \in Walks(p, N) : Verified(StatementOf(c))

\* A genesis leads to at most one verdict: a thread never forks.
OneVerdictPerGenesis ==
    \A p, q \in Verdicts : \A c \in Walks(p, N), d \in Walks(q, N) :
        c[0] = d[0] => p = q

\* A verdict is a permanent fact: no transaction ever spends it.
VerdictsLast == [][\A p \in utxo : IsVerdict(Out(p)) => p \in utxo']_vars

\* The chain implements the abstract verifier.
V == INSTANCE Verifier WITH verdicts <- Judged
ImplementsVerifier == V!Spec
===============================================================================
