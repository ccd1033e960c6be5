--------------------------------- MODULE Node ---------------------------------
(***************************************************************************)
(* Wallets and keepers around the chain (node/s3.ts, node/s4.ts).  Each of *)
(* them keeps a copy of D and W with their outpoints, builds transactions  *)
(* from it, sends them, and moves the copy on.  D and W are one output     *)
(* each, so transactions conflict; the node keeps the first it sees, a     *)
(* miner may prefer another, a block may be undone, and anybody may take   *)
(* the worker outputs of a flush.  The loser reads the tip and builds      *)
(* again; a withdrawal whose root has left the ring is proved again.       *)
(***************************************************************************)
EXTENDS PoolState

CONSTANTS
    Client,     \* wallets and keepers
    OwnerOf,    \* OwnerOf[n]: the client that deposits and withdraws note n
    NoNote,     \* what a flush is for
    MAX_TX,     \* bound: transactions built
    MAX_TAKE,   \* bound: worker outputs taken by others
    MAX_REORG   \* bound: blocks undone

ASSUME ClientAssumption ==
    Note = Leaf /\ OwnerOf \in [Note -> Client] /\ NoNote \notin Note
ASSUME BoundAssumption == {MAX_TX, MAX_TAKE, MAX_REORG} \subseteq Nat

VARIABLES
    txs,        \* every transaction built; its number is its txid
    chain,      \* the confirmed ones, in chain order
    tipLen,     \* how many of them are in the last block
    mempool,    \* the node's unconfirmed ones, in the order it took them
    copy,       \* copy[c]: the states and outpoints client c builds from
    job,        \* job[c]: the transaction c is working on
    proof,      \* proof[n]: the root that n's proof is for, Z before the first
    takes, reorgs
vars == <<txs, chain, tipLen, mempool, copy, job, proof, takes, reorgs>>
clientVars == <<copy, job, proof>>

(***************************************************************************)
(* Transactions and outpoints.  Output "D" or "W" of transaction i is      *)
(* <<"D", i>> or <<"W", i>>, 0 being the genesis; <<"worker", i>> are the  *)
(* outputs mined for flush i.  A transaction fixes the states it makes.    *)
(***************************************************************************)
Out(name, i) == <<name, i>>
Tx(kind, n, ins, d, w, root) ==
    [kind |-> kind, note |-> n, ins |-> ins, d |-> d, w |-> w, root |-> root]
Makes(t) ==
    CASE t.kind = "deposit"  -> {"D"}
      [] t.kind = "flush"    -> {"D", "W"}
      [] t.kind = "withdraw" -> {"W"}
      [] t.kind = "take"    -> {}

DAt(op) == IF op[2] = 0 THEN EmptyD ELSE txs[op[2]].d
WAt(op) == IF op[2] = 0 THEN EmptyW ELSE txs[op[2]].w
Input(t, name) == CHOOSE op \in t.ins : op[1] = name

(***************************************************************************)
(* The covenants: they compare the states made with the states spent.      *)
(***************************************************************************)
DepositScript(t) ==
    LET d == DAt(Input(t, "D"))
    IN  DepositAllowed(d, t.note) /\ t.d = DepositD(d, t.note)
FlushScript(t) ==
    LET d == DAt(Input(t, "D"))
        w == WAt(Input(t, "W"))
    IN  FlushAllowed(d) /\ t.d = FlushD(d) /\ t.w = FlushW(w, FlushD(d).leaves)
WithdrawScript(t) ==
    LET w == WAt(Input(t, "W"))
    IN  /\ \E s \in Slot : w.slots[s] = t.root /\ WithdrawAllowed(w, t.note, s)
        /\ t.w = WithdrawW(w, t.note)
ScriptsPass(t) ==
    CASE t.kind = "deposit"  -> DepositScript(t)
      [] t.kind = "flush"    -> FlushScript(t)
      [] t.kind = "withdraw" -> WithdrawScript(t)
      [] t.kind = "take"    -> TRUE

(***************************************************************************)
(* The node's view after the transactions of list s.                       *)
(***************************************************************************)
Spent(s) == UNION {txs[i].ins : i \in Range(s)}
Made(s) ==
    {Out("D", 0), Out("W", 0)} \cup {Out("worker", i) : i \in DOMAIN txs}
        \cup UNION {{Out(name, i) : name \in Makes(txs[i])} : i \in Range(s)}
Unspent(s) == Made(s) \ Spent(s)
Valid(t, s) == t.ins \subseteq Unspent(s) /\ ScriptsPass(t)

\* Those of list that are still valid after s, in their order.
Revalidate(s, list) ==
    LET kept[j \in 0 .. Len(list)] ==
          IF j = 0 THEN <<>>
          ELSE LET before == kept[j - 1]
               IN  IF Valid(txs[list[j]], s \o before) THEN Append(before, list[j]) ELSE before
    IN  kept[Len(list)]

View == chain \o mempool
TipOf(s) ==
    LET dOp == CHOOSE op \in Unspent(s) : op[1] = "D"
        wOp == CHOOSE op \in Unspent(s) : op[1] = "W"
    IN  [d |-> DAt(dOp), w |-> WAt(wOp), dOp |-> dOp, wOp |-> wOp]

Idle == [id |-> 0, sent |-> FALSE]

Init ==
    /\ txs = <<>> /\ chain = <<>> /\ tipLen = 0 /\ mempool = <<>>
    /\ copy = [c \in Client |-> [d |-> EmptyD, w |-> EmptyW,
                                 dOp |-> Out("D", 0), wOp |-> Out("W", 0)]]
    /\ job = [c \in Client |-> Idle]
    /\ proof = [n \in Note |-> Z]
    /\ takes = 0 /\ reorgs = 0
-----------------------------------------------------------------------------
(***************************************************************************)
(* A client builds from its copy, and only what the copy allows.           *)
(***************************************************************************)
Build(c, t) ==
    /\ job[c] = Idle
    /\ Len(txs) < MAX_TX
    /\ txs' = Append(txs, t)
    /\ job' = [job EXCEPT ![c] = [id |-> Len(txs) + 1, sent |-> FALSE]]
    /\ UNCHANGED <<chain, tipLen, mempool, copy, proof, takes, reorgs>>

BuildDeposit(n) ==
    LET c  == OwnerOf[n]
        my == copy[c]
    IN  /\ n \notin Range(my.d.leaves \o my.d.pending)
        /\ DepositAllowed(my.d, n)
        /\ Build(c, Tx("deposit", n, {my.dOp}, DepositD(my.d, n), EmptyW, Z))

\* The workers are funded in a block of their own before the flush is built.
BuildFlush(c) ==
    LET my == copy[c]
        workers == Out("worker", Len(txs) + 1)
    IN  /\ FlushAllowed(my.d)
        /\ Build(c, Tx("flush", NoNote, {my.dOp, my.wOp, workers},
                       FlushD(my.d), FlushW(my.w, FlushD(my.d).leaves), Z))

BuildWithdraw(n) ==
    LET c  == OwnerOf[n]
        my == copy[c]
    IN  /\ proof[n] # Z
        /\ \E s \in Slot : my.w.slots[s] = proof[n] /\ WithdrawAllowed(my.w, n, s)
        /\ Build(c, Tx("withdraw", n, {my.wOp}, EmptyD, WithdrawW(my.w, n), proof[n]))

\* A proof for the newest root the owner knows of, and a new one when that has
\* left the ring.
\* Mutant: a note is proved once.
ProveOnce(n) ==
    /\ proof[n] = Z
    /\ n \in Range(copy[OwnerOf[n]].d.leaves)
    /\ proof' = [proof EXCEPT ![n] = copy[OwnerOf[n]].d.leaves]
    /\ UNCHANGED <<txs, chain, tipLen, mempool, copy, job, takes, reorgs>>
Prove(n) ==
    LET my == copy[OwnerOf[n]]
    IN  /\ job[OwnerOf[n]] = Idle
        /\ n \in Range(my.d.leaves)
        /\ KeyOf[NfOf[n]] \notin my.w.keys
        /\ proof[n] \notin Range(my.w.slots) \ {Z}
        /\ proof' = [proof EXCEPT ![n] = my.d.leaves]
        /\ UNCHANGED <<txs, chain, tipLen, mempool, copy, job, takes, reorgs>>

\* What a transaction that went through makes of the copy.
\* Mutant: only the outpoints move on.
AdvanceOutpoints(my, i) ==
    LET t == txs[i]
    IN  [my EXCEPT !.dOp = IF "D" \in Makes(t) THEN Out("D", i) ELSE @,
                   !.wOp = IF "W" \in Makes(t) THEN Out("W", i) ELSE @]
Advance(my, i) ==
    LET t == txs[i]
    IN  [d   |-> IF "D" \in Makes(t) THEN t.d ELSE my.d,
         dOp |-> IF "D" \in Makes(t) THEN Out("D", i) ELSE my.dOp,
         w   |-> IF "W" \in Makes(t) THEN t.w ELSE my.w,
         wOp |-> IF "W" \in Makes(t) THEN Out("W", i) ELSE my.wOp]

\* Accepted: a deposit moves the copy at once, a flush or a withdrawal when it
\* is in a block.
Send(c) ==
    LET i == job[c].id
    IN  /\ job[c] # Idle /\ ~job[c].sent
        /\ Valid(txs[i], View)
        /\ mempool' = Append(mempool, i)
        /\ IF txs[i].kind = "deposit"
           THEN /\ copy' = [copy EXCEPT ![c] = Advance(@, i)]
                /\ job' = [job EXCEPT ![c] = Idle]
           ELSE /\ job' = [job EXCEPT ![c] = [id |-> i, sent |-> TRUE]]
                /\ UNCHANGED copy
        /\ UNCHANGED <<txs, chain, tipLen, proof, takes, reorgs>>

Settle(c) ==
    LET i == job[c].id
    IN  /\ job[c].sent /\ i \in Range(chain)
        /\ copy' = [copy EXCEPT ![c] = Advance(@, i)]
        /\ job' = [job EXCEPT ![c] = Idle]
        /\ UNCHANGED <<txs, chain, tipLen, mempool, proof, takes, reorgs>>

\* Refused, or dropped after it was accepted: the client reads the tip.
\* Mutant: once accepted, it is waited for.
LoseRefused(c) ==
    /\ job[c] # Idle /\ ~job[c].sent
    /\ ~Valid(txs[job[c].id], View)
    /\ copy' = [copy EXCEPT ![c] = TipOf(View)]
    /\ job' = [job EXCEPT ![c] = Idle]
    /\ UNCHANGED <<txs, chain, tipLen, mempool, proof, takes, reorgs>>
Lose(c) ==
    LET i == job[c].id
    IN  /\ job[c] # Idle
        /\ IF job[c].sent THEN i \notin Range(View) ELSE ~Valid(txs[i], View)
        /\ copy' = [copy EXCEPT ![c] = TipOf(View)]
        /\ job' = [job EXCEPT ![c] = Idle]
        /\ UNCHANGED <<txs, chain, tipLen, mempool, proof, takes, reorgs>>

Read(c) ==
    /\ job[c] = Idle
    /\ copy[c] # TipOf(View)
    /\ copy' = [copy EXCEPT ![c] = TipOf(View)]
    /\ UNCHANGED <<txs, chain, tipLen, mempool, job, proof, takes, reorgs>>
-----------------------------------------------------------------------------
(***************************************************************************)
(* The network.                                                            *)
(***************************************************************************)
\* A block with the first k transactions of the mempool.
Mine(k) ==
    /\ k \in 1 .. Len(mempool)
    /\ chain' = chain \o SubSeq(mempool, 1, k)
    /\ tipLen' = k
    /\ mempool' = SubSeq(mempool, k + 1, Len(mempool))
    /\ UNCHANGED <<txs, clientVars, takes, reorgs>>

\* A block with a transaction the node does not have: what conflicts with it
\* leaves the mempool, and all that was built on that.
MineOther(i) ==
    /\ i \notin Range(View)
    /\ Valid(txs[i], chain)
    /\ chain' = Append(chain, i)
    /\ tipLen' = 1
    /\ mempool' = Revalidate(chain', mempool)
    /\ UNCHANGED <<txs, clientVars, takes, reorgs>>

\* The last block gives way to an empty one or to one with another transaction;
\* what was in it goes back to the mempool as far as it is still valid.
Requeue(s, undone) == Revalidate(s, undone \o mempool)
Reorg ==
    /\ tipLen > 0
    /\ reorgs < MAX_REORG
    /\ LET base   == SubSeq(chain, 1, Len(chain) - tipLen)
           undone == SubSeq(chain, Len(chain) - tipLen + 1, Len(chain))
           others == {i \in DOMAIN txs \ Range(base) : Valid(txs[i], base)}
       IN  \E block \in {<<>>} \cup {<<i>> : i \in others} :
              /\ chain' = base \o block
              /\ tipLen' = Len(block)
              /\ mempool' = Requeue(chain', undone)
    /\ reorgs' = reorgs + 1
    /\ UNCHANGED <<txs, clientVars, takes>>

\* A worker output is anybody's as soon as it is funded.
Take(i) ==
    LET t == Tx("take", NoNote, {Out("worker", i)}, EmptyD, EmptyW, Z)
    IN  /\ takes < MAX_TAKE
        /\ txs[i].kind = "flush" /\ i \notin Range(chain)
        /\ Len(txs) < MAX_TX
        /\ txs' = Append(txs, t)
        /\ mempool' = IF Valid(t, View) THEN Append(mempool, Len(txs) + 1) ELSE mempool
        /\ takes' = takes + 1
        /\ UNCHANGED <<chain, tipLen, clientVars, reorgs>>

Next ==
    \/ \E n \in Note : BuildDeposit(n) \/ Prove(n) \/ BuildWithdraw(n)
    \/ \E c \in Client : BuildFlush(c) \/ Send(c) \/ Settle(c) \/ Lose(c) \/ Read(c)
    \/ \E k \in 1 .. Len(mempool) : Mine(k)
    \/ \E i \in DOMAIN txs : MineOther(i) \/ Take(i)
    \/ Reorg

Spec == Init /\ [][Next]_vars

\* Clients go on with what they began, keepers flush, owners withdraw, and
\* miners take what is in the mempool.
Fairness ==
    /\ \A c \in Client :
          /\ WF_vars(Send(c)) /\ WF_vars(Settle(c)) /\ WF_vars(Lose(c)) /\ WF_vars(Read(c))
          /\ WF_vars(BuildFlush(c))
    /\ \A n \in Note : WF_vars(Prove(n)) /\ WF_vars(BuildWithdraw(n))
    /\ WF_vars(\E k \in 1 .. Len(mempool) : Mine(k))
FairSpec == Spec /\ Fairness
-----------------------------------------------------------------------------
(***************************************************************************)
(* Properties                                                              *)
(***************************************************************************)
\* The notes of the transactions of one kind on list s, in order.
Notes(s, kind) ==
    LET found[j \in 0 .. Len(s)] ==
          IF j = 0 THEN <<>>
          ELSE IF txs[s[j]].kind = kind THEN Append(found[j - 1], txs[s[j]].note)
               ELSE found[j - 1]
    IN  found[Len(s)]

\* A copy is always the state of the outputs it names, both of them from some
\* chain there was, also after a reorganisation has undone these outputs: so
\* a deposit or a flush is only ever refused for a conflict, never by a script,
\* and reading the tip and building again is all a loser has to do.
CopyIsItsOutputs ==
    /\ \A c \in Client :
        copy[c].d = DAt(copy[c].dOp) /\ copy[c].w = WAt(copy[c].wOp)
    /\ \A i \in DOMAIN txs : txs[i].kind \in {"deposit", "flush"} => ScriptsPass(txs[i])

\* What D and W commit to is the history of the chain they are on, with the
\* mempool and without, whatever blocks were undone and whichever of several
\* builds of one deposit or withdrawal got in.
StateIsHistory ==
    \A s \in {chain, View} :
        LET tip == TipOf(s)
        IN  /\ tip.d.leaves \o tip.d.pending = Notes(s, "deposit")
            /\ tip.w.epoch = Len(Notes(s, "flush"))
            /\ tip.w.keys = {KeyOf[NfOf[n]] : n \in Range(Notes(s, "withdraw"))}

\* On a chain, and on what the node would mine next, a key is paid once: a
\* withdrawal and its rebuilds never both get in, although all of them stay
\* valid for some chain.
PaidOncePerChain ==
    LET paid == Notes(View, "withdraw")
    IN  \A i, j \in DOMAIN paid :
            KeyOf[NfOf[paid[i]]] = KeyOf[NfOf[paid[j]]] => i = j

\* A full queue is flushed and a note in the tree gets its key spent, for good,
\* although the transactions for it conflict, are taken the workers of or undone
\* with their block, or come too late for the root they were proved for.
FlushedInTheEnd ==
    []<>~FlushAllowed(TipOf(chain).d)
PaidInTheEnd ==
    \A n \in Note :
        LET Due == n \in Range(TipOf(chain).d.leaves)
        IN  Due ~> [](Due => KeyOf[NfOf[n]] \in TipOf(chain).w.keys)
=============================================================================
