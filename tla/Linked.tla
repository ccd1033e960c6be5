-------------------------------- MODULE Linked --------------------------------
(***************************************************************************)
(* The linked verifiers: chunked/intratx puts all chunks on the inputs of  *)
(* one transaction, chunked/grouped on a few transactions.  Inside a       *)
(* transaction a chunk compares the state it computes with the bytes its   *)
(* successor input pushes, and pins the successor's locking; between       *)
(* groups the state is the commitment of a mutable NFT (transform.mjs).    *)
(* Anybody may publish any transaction the scripts and the token rules     *)
(* allow.                                                                  *)
(***************************************************************************)
EXTENDS Chunks, Sequences, SequencesExt, FiniteSets

CONSTANTS
    Layouts,        \* the ways the chunks may be laid out, see IsLayout
    Dyn, Stat,      \* the two parts of a state
    Category, NoCat,    \* token categories, and none
    Commitment, Empty,  \* NFT commitments, and the empty one
    Hash,           \* Hash[s]: hash256 of the blob of s
    NoState,        \* what another input computes
    MAX_TX          \* bound: transactions

FREE == N
Lock == 0..N
Output ==
    [lock : Lock, cat : {NoCat}, nft : {"none"}, commit : {Empty}]
        \cup [lock : Lock, cat : Category, nft : {"mutable", "minting"},
              commit : Commitment \cup {Empty}]

\* A layout: its groups, one transaction each, and the group of each chunk; the
\* chunks that check their own position and the input count; the chunk whose
\* push also holds the static state, and those that read it there.  Besides,
\* the outputs there are at first (sequences of), and, as bounds, the outputs
\* transactions make and their number of inputs and outputs.
IsLayout(l) ==
    /\ l.groups \in Nat \ {0} /\ l.groupOf \in [0..Terminal -> 0..l.groups - 1]
    /\ l.groupOf[0] = 0 /\ l.groupOf[Terminal] = l.groups - 1
    /\ \A k \in 1..Terminal : l.groupOf[k] \in {l.groupOf[k - 1], l.groupOf[k - 1] + 1}
    /\ l.indexed \subseteq 0..Terminal
    /\ l.carrier \in 1..Terminal /\ l.borrows \subseteq (l.carrier + 1)..Terminal
    /\ \A k \in l.borrows : l.groupOf[k] = l.groupOf[l.carrier]
    /\ l.issue \subseteq Seq(Output) /\ l.offered \subseteq Output
    /\ {l.maxIn, l.maxOuts} \subseteq Nat

ASSUME LinkedAssumption ==
    /\ \A l \in Layouts :
          /\ IsLayout(l)
          /\ \A k \in l.carrier..N - 2 : \A e \in Step[k] : e[1].stat = e[2].stat
    /\ State = [dyn : Dyn, stat : Stat]
    /\ Empty \notin Commitment /\ NoCat \notin Category
    /\ Hash \in [State -> Commitment]
    /\ \A s, t \in State : Hash[s] = Hash[t] => s = t
    /\ MAX_TX \in Nat

VARIABLES
    layout,         \* the layout the scripts were made for
    txs, utxo       \* the ledger, as in CovenantChain
vars == <<layout, txs, utxo>>

G == layout.groups
GroupOf == layout.groupOf
Indexed == layout.indexed
Carrier == layout.carrier
Borrows == layout.borrows

IsRoot(k) == k = 0 \/ GroupOf[k - 1] # GroupOf[k]
IsTail(k) == k = Terminal \/ GroupOf[k + 1] # GroupOf[k]
Size(g) == Cardinality({k \in 0..Terminal : GroupOf[k] = g})
RootOf(g) == CHOOSE k \in 0..Terminal : IsRoot(k) /\ GroupOf[k] = g

Out(p) == txs[p[1]].outs[p[2]]
Made == UNION {{<<t, i>> : i \in DOMAIN txs[t].outs} : t \in DOMAIN txs}
Spent(ins) == [i \in DOMAIN ins |-> Out(ins[i])]

(***************************************************************************)
(* The script of chunk k on input i of a transaction that spends the       *)
(* outputs s and pushes arg.  First where it stands: the root of a group   *)
(* counts the inputs, a chunk pins its successor.                          *)
(***************************************************************************)
Counts(k, n) == IsRoot(k) \/ k \in Indexed => n = Size(GroupOf[k])

Stands(k, i) == k \in Indexed => k = RootOf(GroupOf[k]) + i - 1

\* Faulty: the successor's locking is not compared, only its existence.
PinsNextUnpinned(k, i, s) == ~IsTail(k) => i < Len(s)

PinsNext(k, i, s) == ~IsTail(k) => i < Len(s) /\ s[i + 1].lock = k + 1

\* Faulty: siblings with a token of the category are let in.
OneThreadOfMany(k, s) == G > 1 /\ IsRoot(k) /\ ~IsTail(k) => s[1].nft = "mutable"

\* tokenThreadMode: the thread is a mutable NFT, and no other input has a
\* token of its category.
OneThread(k, s) ==
    G > 1 /\ IsRoot(k) /\ ~IsTail(k) =>
        /\ s[1].nft = "mutable"
        /\ \A j \in 2..Len(s) : s[j].cat # s[1].cat

\* The state chunk k works on: its own push, with the static part read from
\* the push of the carrier, at a fixed input of the transaction.
CarrierInput == Carrier - RootOf(GroupOf[Carrier]) + 1
Sees(k, i, arg) ==
    IF k \in Borrows
    THEN [dyn |-> arg[i].blob, stat |-> arg[CarrierInput].blob.stat]
    ELSE arg[i].blob

Runs(k, seen, out) ==
    /\ k = Genesis => seen \in Statement /\ out \in Start[seen]
    /\ k \in 1..N - 2 => <<seen, out>> \in Step[k]
    /\ k = Terminal => seen \in Accept

\* covInHash: the root of a later group opens the NFT of the thread.
Opens(k, i, s, arg) ==
    k # 0 /\ IsRoot(k) => s[1].commit = Hash[arg[i].blob]

\* The forward check: the state computed is what the successor pushes.
Forwards(k, i, arg) ==
    ~IsTail(k) => arg[i + 1].blob =
        IF k + 1 \in Borrows THEN arg[i].out.dyn ELSE arg[i].out

\* covout: output 0 carries the thread on to the next group's root.
Hands(k, i, s, arg, o) ==
    IsTail(k) /\ k # Terminal =>
        /\ o.commit = Hash[arg[i].out]
        /\ o.cat = s[1].cat /\ o.nft = s[1].nft
        /\ o.lock = k + 1

\* The last group burns the thread.
Burns(k, n, o) ==
    G > 1 /\ IsRoot(k) /\ ~IsTail(k) /\ GroupOf[k] = G - 1 =>
        n = 1 /\ o.nft = "none"

Position(k, i, s) ==
    Counts(k, Len(s)) /\ Stands(k, i) /\ PinsNext(k, i, s) /\ OneThread(k, s)
Takes(k, i, s, arg) ==
    /\ k \in Borrows => CarrierInput \in DOMAIN s /\ arg[CarrierInput].blob \in State
    /\ Runs(k, Sees(k, i, arg), arg[i].out)
    /\ Opens(k, i, s, arg)
    /\ Forwards(k, i, arg)

(***************************************************************************)
(* The token rules, for each category.                                     *)
(***************************************************************************)
MayBecome(o, q) == o.nft = "mutable" /\ q.nft = "mutable" /\ q.cat = o.cat

Tokens(s, outs) ==
    LET minted(q) == \E i \in DOMAIN s : s[i].nft = "minting" /\ s[i].cat = q.cat
        kept == {j \in DOMAIN outs : outs[j].nft # "none" /\ ~minted(outs[j])}
    IN  \E f \in [kept -> DOMAIN s] :
           /\ \A j, l \in kept : f[j] = f[l] => j = l
           /\ \A j \in kept : MayBecome(s[f[j]], outs[j])

(***************************************************************************)
(* Transactions.                                                           *)
(***************************************************************************)
Chunked(s) == {i \in DOMAIN s : s[i].lock # FREE}

Ins == UNION {{ins \in [1..n -> utxo] : \A i, j \in 1..n : ins[i] = ins[j] => i = j} :
                  n \in 1..layout.maxIn}

\* What an input at lock k may push, and compute from it.
Pushes(k) ==
    CASE k = FREE     -> [blob : State, out : {NoState}]
      [] k = Genesis  -> [blob : Statement, out : State]
      [] k = Terminal -> [blob : IF k \in Borrows THEN Dyn ELSE State, out : {NoState}]
      [] OTHER        -> {[blob |-> IF k \in Borrows THEN e[1].dyn ELSE e[1],
                           out |-> e[2]] : e \in Step[k]}
Arg == [blob : Statement \cup State \cup Dyn, out : State \cup {NoState}]

Args(s) ==
    FoldLeft(LAMBDA all, o : {Append(arg, a) : arg \in all, a \in Pushes(o.lock)},
             {<<>>}, s)

Outs(s, arg) ==
    LET out0 == {o \in layout.offered : \A i \in Chunked(s) : Hands(s[i].lock, i, s, arg, o)}
    IN  {<<o>> : o \in out0}
            \cup (IF layout.maxOuts < 2 THEN {} ELSE {<<o, q>> : o \in out0, q \in layout.offered})

Publish(ins) ==
    LET s == Spent(ins)
    IN  /\ Len(txs) < MAX_TX
        /\ \A i \in Chunked(s) : Position(s[i].lock, i, s)
        /\ \E arg \in Args(s) :
              /\ arg \in Seq(Arg)
              /\ \A i \in Chunked(s) : Takes(s[i].lock, i, s, arg)
              /\ \E outs \in Outs(s, arg) :
                    /\ \A i \in Chunked(s) : Burns(s[i].lock, Len(outs), outs[1])
                    /\ Tokens(s, outs)
                    /\ txs' = Append(txs, [ins |-> ins, arg |-> arg, outs |-> outs])
                    /\ utxo' = (utxo \ Range(ins))
                                  \cup {<<Len(txs) + 1, j>> : j \in DOMAIN outs}

Next == \E ins \in Ins : Publish(ins) /\ UNCHANGED layout

Init ==
    /\ layout \in Layouts
    /\ \E outs \in layout.issue : txs = <<[ins |-> <<>>, arg |-> <<>>, outs |-> outs]>>
    /\ utxo = {<<1, j>> : j \in DOMAIN txs[1].outs}

Spec == Init /\ [][Next]_vars

-------------------------------------------------------------------------------
(***************************************************************************)
(* How a verdict is read: c[g] is the transaction of group g.  Follow the  *)
(* token of input 0 back from the last group, and check each root's        *)
(* locking.                                                                *)
(***************************************************************************)
Input0(t) == Out(txs[t].ins[1])

Walk(c) ==
    /\ \A g \in 0..G - 1 : txs[c[g]].ins # <<>> /\ Input0(c[g]).lock = RootOf(g)
    /\ \A g \in 1..G - 1 :
          /\ txs[c[g]].ins[1][1] = c[g - 1]
          /\ Input0(c[g]).cat = Input0(c[g - 1]).cat
    /\ G > 1 => \A g \in 0..G - 1 : Input0(c[g]).nft = "mutable"

Walks == {c \in [0..G - 1 -> DOMAIN txs] : Walk(c)}
StatementOf(c) == txs[c[0]].arg[1].blob
Judged == {StatementOf(c) : c \in Walks}

\* A transaction that spends the root of a group spends exactly the chunks
\* of that group, in order and from input 0 on, although most chunks check
\* neither their position nor the number of inputs.
RunsWhole ==
    \A t \in DOMAIN txs : \A i \in DOMAIN txs[t].ins :
        LET k == Out(txs[t].ins[i]).lock
        IN  k # FREE /\ IsRoot(k) =>
                /\ i = 1 /\ Len(txs[t].ins) = Size(GroupOf[k])
                /\ \A j \in DOMAIN txs[t].ins : Out(txs[t].ins[j]).lock = k + j - 1

\* The linked verifiers implement the abstract one: whoever reads a verdict
\* reads a statement that was verified, whatever tokens and outputs others
\* have put at the lockings, and a verdict lasts.
V == INSTANCE Verifier WITH verdicts <- Judged
GroupsImplementVerifier == V!Spec
===============================================================================
