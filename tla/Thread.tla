-------------------------------- MODULE Thread --------------------------------
(***************************************************************************)
(* A withdrawal as R sees it (r/gena.mjs headRole and dispatch, r/ctx.mjs, *)
(* r/layouta.mjs txsA): one proof is verified over two transactions.  tx0  *)
(* spends a minting baton of the thread category, checks the first part of *)
(* the proof and mints an NFT that commits to the transcript; tx1 spends   *)
(* the NFT, derives a transcript of its own, checks the second part, the   *)
(* outputs that get the money, and spends W as its last input.  Neither    *)
(* sees the other; anybody sends either, with any inputs and outputs.      *)
(*                                                                         *)
(* D's side and the two states are Pool's.                                 *)
(***************************************************************************)
EXTENDS PoolState

CONSTANTS
    D_VALUE, W_VALUE,   \* the values of the two genesis outputs
    Payee,              \* what a list of outputs 1, 2, ... can be
    PayTo,              \* PayTo[n]: the outputs the owner of note n proves for
    NCARRIER,           \* R inputs next to input 0: 10 in tx0, 4 in tx1
    NBATON,             \* minting batons made at the genesis of the category
    MAX_TX0             \* bound: transactions of kind 0

ASSUME GenesisAssumption == D_VALUE \in Nat /\ W_VALUE \in Nat
ASSUME ThreadAssumption ==
    /\ PayTo \in [Note -> Payee]
    /\ NCARRIER \in Nat
    /\ NBATON \in Nat \ {0}

VARIABLES
    d, w, dValue, wValue, payouts,  \* as in Pool
    utxos,      \* the unspent outputs that carry the thread category
    verified,   \* history: the transcripts tx0s accepted, in chain order
    paid        \* history: the transcript and the outputs of each tx1
poolVars == <<d, w, dValue, wValue, payouts>>
vars == <<d, w, dValue, wValue, payouts, utxos, verified, paid>>

ThePool == INSTANCE Pool

(***************************************************************************)
(* Transcripts.  HEAD hashes the statement and the proof's messages into   *)
(* one digest G; G is the transcript.  bad holds the parts whose checks it *)
(* fails: part 0 is the AIR identity and queries 0 to 20, part 1 queries   *)
(* 21 to 23.  A transcript that fails one part only can be ground for any  *)
(* statement; one that fails none proves knowledge of a note under root,   *)
(* and only the owner makes those, for the outputs of his choice.          *)
(***************************************************************************)
Part == 0 .. 1
Roots == {SubSeq(d.leaves, 1, BATCH * e) : e \in 1 .. w.epoch}
Sound(t) ==
    t.bad = {} => \E n \in Note \cap Range(t.root) : NfOf[n] = t.nf /\ PayTo[n] = t.ctx
Transcripts ==
    {t \in [nf : Nullifier, root : Roots, ctx : Payee, bad : SUBSET Part] : Sound(t)}

(***************************************************************************)
(* Tokens and outputs.  A thread commitment is its kind byte and the hash  *)
(* of the transcript; a baton's is not looked at, here nor in HEAD.        *)
(***************************************************************************)
Commit(k, t) == <<k, t>>
NoCom == <<>>
Nft(cat, cap, com) == [cat |-> cat, cap |-> cap, com |-> com]
Baton == Nft("TCAT", "minting", NoCom)
IsBaton(token) == token.cat = "TCAT" /\ token.cap = "minting"
ThreadNft(t) == Nft("TCAT", "none", Commit(1, t))
NoToken == Nft("none", "none", NoCom)
Output(lock, token) == [lock |-> lock, token |-> token]
Coin(op, out) == [op |-> op, out |-> out]
Carries(out) == out.token.cat = "TCAT"

\* Outputs at R anybody can make: plain ones, and tokens of another category.
Outside(t) ==
    {Coin(<<>>, Output("R", token)) :
        token \in {NoToken, Nft("OTHER", "minting", NoCom), Nft("OTHER", "none", Commit(1, t))}}

(***************************************************************************)
(* dispatch: an NFT with a capability byte at input 0 makes kind 0, else   *)
(* the kind is the first byte of input 0's commitment; the inputs are R's. *)
(***************************************************************************)
Kind(ins) ==
    LET token == ins[0].out.token
    IN  IF token.cap # "none" THEN 0 ELSE IF token.com = NoCom THEN -1 ELSE token.com[1]
Graph(ins, k) == Kind(ins) = k /\ \A i \in DOMAIN ins : ins[i].out.lock = "R"

\* Mutant: the checks of part 0 pass always.
PartPassesOnly1(t, k) == k = 0 \/ k \notin t.bad
PartPasses(t, k) == k \notin t.bad

(***************************************************************************)
(* HEAD of kind 0: a baton comes back in output 0 (with a commitment of    *)
(* the spender's choice, even that of a thread), output 1 is the NFT,      *)
(* no other output has a token.  Nothing is said of tokens at inputs 1 to  *)
(* NCARRIER: they are destroyed.                                           *)
(***************************************************************************)
\* Mutant: output 0 may be anything.
MintsThreadNoBaton(t, outs) ==
    /\ outs[1] = Output("R", ThreadNft(t))
    /\ \A j \in DOMAIN outs \ {0, 1} : outs[j].token = NoToken

SpendsBaton(ins) == IsBaton(ins[0].out.token)
MintsThread(t, outs) ==
    /\ outs[0].lock = "R" /\ IsBaton(outs[0].token)
    /\ outs[1] = Output("R", ThreadNft(t))
    /\ \A j \in DOMAIN outs \ {0, 1} : outs[j].token = NoToken

(***************************************************************************)
(* HEAD of kind 1: input 0 is the NFT of this very transcript, inputs 1 to *)
(* NCARRIER and outputs 1, 2, ... have no token.                           *)
(***************************************************************************)
\* Mutants: the NFT of any transcript; the outputs may have tokens.
SpendsThreadOfAny(ins, t) ==
    /\ ins[0].out.token.cat = "TCAT"
    /\ \A i \in DOMAIN ins \ {0} : ins[i].out.token = NoToken
PassesTokens(outs) == TRUE

SpendsThread(ins, t) ==
    /\ ins[0].out.token = ThreadNft(t)
    /\ \A i \in DOMAIN ins \ {0} : ins[i].out.token = NoToken
NoTokenOut(outs) == \A j \in DOMAIN outs : outs[j].token = NoToken

\* CTXW, which the transcript contains, is the hash of outputs 1, 2, ... of tx1.
\* Mutant: CTXW is not compared.
CtxOfAny(t, payee) == payee \in Payee
CtxOf(t, payee) == t.ctx = payee

\* W reads ROOT and NF from the tail of input 0's unlocking.
WAllows(t, s) ==
    /\ w.slots[s] # Z
    /\ w.slots[s] = t.root
    /\ KeyOf[t.nf] \notin w.keys
    /\ wValue >= DELTA

(***************************************************************************)
(* The token rules: a minting token makes any token of its category; else  *)
(* an output's token is one of the inputs', and no two the same one.       *)
(***************************************************************************)
TokensBalance(ins, outs) ==
    \/ \E i \in DOMAIN ins : IsBaton(ins[i].out.token)
    \/ \A j \in DOMAIN outs :
          LET token == outs[j].token
          IN  token = NoToken \/
              Cardinality({k \in DOMAIN outs : outs[k].token = token})
                 <= Cardinality({i \in DOMAIN ins : ins[i].out.token = token})

\* Spends ins and makes outs; a transaction's number is its place on the chain.
Replace(ins, outs) ==
    /\ TokensBalance(ins, outs)
    /\ utxos' = {c \in utxos : c \notin Range(ins)}
                  \cup {Coin(<<Len(verified) + Len(paid), j>>, outs[j]) :
                           j \in {k \in DOMAIN outs : Carries(outs[k])}}

Inputs(t) ==
    {ins \in [0 .. NCARRIER -> utxos \cup Outside(t)] :
        \A i, j \in DOMAIN ins : ins[i] \in utxos /\ ins[i] = ins[j] => i = j}
Outputs(t) ==
    {Output(lock, token) :
        lock \in {"R", "Plain"},
        token \in {NoToken, Baton, Nft("TCAT", "minting", Commit(1, t)), ThreadNft(t)}}

Init ==
    /\ ThePool!Init
    /\ utxos = {Coin(<<-1, j>>, Output("R", Baton)) : j \in 1 .. NBATON}
    /\ verified = <<>>
    /\ paid = <<>>

\* tx0 with three outputs; CTXW is not compared with anything here.
Tx0(t) ==
    /\ Len(verified) < MAX_TX0
    /\ PartPasses(t, 0)
    /\ \E outs \in [0 .. 2 -> Outputs(t)] :
          /\ MintsThread(t, outs)
          /\ \E ins \in Inputs(t) :
                Graph(ins, 0) /\ SpendsBaton(ins) /\ Replace(ins, outs)
    /\ verified' = Append(verified, t)
    /\ UNCHANGED <<poolVars, paid>>

\* tx1: its output 0 is the next W; outs are outputs 1, 2, ...
Tx1(t, payee) ==
    /\ PartPasses(t, 1)
    /\ CtxOf(t, payee)
    /\ \E s \in Slot : WAllows(t, s)
    /\ \E ins \in Inputs(t) :
          /\ Graph(ins, 1) /\ SpendsThread(ins, t)
          /\ \E outs \in [1 .. 1 -> Outputs(t)] : NoTokenOut(outs) /\ Replace(ins, outs)
    /\ w' = [w EXCEPT !.keys = @ \cup {KeyOf[t.nf]}]
    /\ wValue' = wValue - DELTA
    /\ payouts' = Append(payouts, t.nf)
    /\ paid' = Append(paid, [t |-> t, to |-> payee])
    /\ UNCHANGED <<d, dValue, verified>>

\* D's branches do not look at the thread.
DepositOrFlush ==
    /\ ThePool!Flush \/ \E C \in Leaf : ThePool!Deposit(C)
    /\ UNCHANGED <<utxos, verified, paid>>

Next ==
    \/ DepositOrFlush
    \/ \E t \in Transcripts : Tx0(t)
    \/ \E t \in Transcripts, payee \in Payee : Tx1(t, payee)

Spec == Init /\ [][Next]_vars
-----------------------------------------------------------------------------
(***************************************************************************)
(* Properties                                                              *)
(***************************************************************************)
ThreadOf(c) == c.out.token.com[2]
Batons == {c \in utxos : c.out.token.cap = "minting"}
Threads == utxos \ Batons

\* SOUNDNESS-T8 Lemma 10: W pays only for a transcript all parts of which were
\* verified, the first in a tx0 and the second in tx1, although tx0 never saw
\* tx1's proof and a transcript failing one part can be had for any statement.
PaidIsVerified ==
    \A i \in DOMAIN paid : paid[i].t.bad = {} /\ paid[i].t \in Range(verified)

\* SOUNDNESS-T9 L7: the money for a nullifier goes where the owner of a note in
\* the tree wanted it, whoever built the transactions and from whichever W.
PaidAsIntended ==
    \A i \in DOMAIN paid :
        \E n \in Note \cap Range(d.leaves) :
            NfOf[n] = payouts[i] /\ PayTo[n] = paid[i].to

\* A tx0 is good for one tx1: for every transcript, the NFTs alive and the
\* payments made are at most as many as the tx0s that verified it.
OneTx1PerTx0 ==
    \A t \in Range(verified) \cup {paid[i].t : i \in DOMAIN paid} \cup {ThreadOf(c) : c \in Threads} :
        Cardinality({c \in Threads : ThreadOf(c) = t}) + Cardinality({i \in DOMAIN paid : paid[i].t = t})
            <= Cardinality({i \in DOMAIN verified : verified[i] = t})

\* SOUNDNESS-T9 assumption T is kept by R itself: what carries the category
\* stays under R, no baton is ever added, and the last one cannot be destroyed
\* (tx0 destroys a second baton put at a later input), so a tx0 is possible as
\* long as the chain goes on.
BatonsKept ==
    /\ \A c \in utxos : c.out.lock = "R"
    /\ Cardinality(Batons) \in 1 .. NBATON

\* To the pool a pair of transactions is one withdrawal: tx0 changes nothing,
\* and tx1 pays a note that lies under a root in the ring.
ImplementsPool == ThePool!Spec
=============================================================================
