# The shielded pool and the chunked verifiers, in TLA+

This directory is a verification project for the repository: TLA+ modules that model its shielded
pool (`src/research/pq-pool`) and its chunked Groth16 verifiers (`src/chunked`), TLC runs that check
them on small instances, and proofs for all values of the parameters. It needs TLC, the TLA+
community modules and TLAPS.

    tlc -config MCPool.cfg MCPool             # one of the runs listed below
    tlapm PoolProofs.tla                      # the proofs

## 1. The system

The repository is a family of on-chain verifiers for Bitcoin Cash (BCH 2026): singleton and chunked
Groth16 verifiers, STARK verifiers, and, on top of one of them, a shielded pool. Most of its lines
generate straight-line field and curve arithmetic. What is left, and what this project is about, has
state, several actors and an order of events: the pool; the ways in which a computation is cut into
scripts that must not be run apart; and the generators' decisions on where to cut.

### 1.1 Inventory

The pool (under `src/research/pq-pool`):

| part | state | operations | correct when |
|---|---|---|---|
| **D covenant** `d/dcov.mjs` buildD, depositCode; `d/dpool.mjs` DState | one output: queue hash (up to 16 leaves), hash of count and frontier, value | deposit, flush | leaves keep their order, each paid for, never more than 16 waiting |
| **flush** `d/dcov.mjs` flushBlob, levelFn, workerBlob; `d/dpool.mjs` flushPlan | frontier (26 nodes), count | four worker programs, new root and frontier | the new root is the root of all leaves, whatever the spender claims |
| **W covenant** `w/wcov.mjs` buildW, flushBranch; `r/pool.mjs` | one output: nullifier root, ring of 16 roots, epoch, value | withdraw, flush | a nullifier is paid once, only against a root in the ring |
| **nullifier set** `w/smt.mjs`, `w/wcov.mjs` smtCode | sparse Merkle tree of depth 64 | absence check and insertion in one walk | absent keys accepted, present ones never, one witness per key |
| **root ring** `w/smt.mjs` ringRoot, ringPath | 16 slots | write slot `epoch mod 16`, open a slot | holds the last 16 roots |
| **R verifier** `r/gena.mjs`, `r/layouta.mjs`, `r/ctx.mjs` | a thread NFT between two transactions | tx0 verifies the first part, tx1 the rest and the payout | tx1 only follows a tx0 of the same proof; outputs are the proved ones |
| **node harness** `node/s3.ts`, `node/s4.ts`, `node/rig.ts` | its copy of D, W and notes; outpoints | build, send, mine, advance, rebuild | the copy follows the chain |
| Poseidon2 `p2/`, prover `prover/` (Rust) | none | permutation; proof generation | equal to the reference vectors |
| n-transaction layout `r/genn.mjs` | none | code generation for a split that `gena.mjs` replaced | - |

The chunked verifiers (under `src/chunked`):

| part | state | operations | correct when |
|---|---|---|---|
| **covenant chain** `pairing/`, `bls12-381/` covenant builders | baton, threads and verdicts of one token category; a thread's commitment is the hash of the state | genesis, middle and last chunk, one transaction each | a verdict on the ledger is one for a verified statement, whoever published |
| **linked and grouped forms** `intratx/transform.mjs`, `grouped/` | pushes of sibling inputs; between groups a mutable NFT | one transaction per group | only whole graphs, in order, on one state |
| **vk_x stage** `shamir/gen_chunks.mjs`, `pairing/gen_vkx_glv.mjs`, `bls12-381/gen_vkx_glv.mjs` | accumulator, scalars | Straus chunks (Shamir, GLV, grouped windows); choice of the halves | emits `IC0 + in0 IC1 + in1 IC2` for all inputs |
| **two-loop vk_x** `twoloop/gen_chunks.mjs`, `src/bn254-vkx/vkx_sim.mjs` | two accumulators, bit positions | double-and-add steps, fold, comparison | accepts the expected point |
| **planners** `pairing/_millermath.mjs` planChunk, `pairing/gen_miller.mjs`, `grouped/` packGroups | cursor, predictions | cut operations in windows, pack chunks in transactions | every window fits, as few as possible, what is bound stays together |
| **two-chart coordinator** `bls12-381/measure_d3_two_chart_binary.mjs` | none: one transaction | workers' blocks, commitment, challenges, delegated code | a transaction that passes states something true |
| miller loop, final exponentiation, field arithmetic | none | arithmetic | equal to the reference libraries |

The rest: STARK, PLONK and hash verifiers (`research/pq-stark*`, `pq-hash`, `pq-wrap`, `plonk-kzg`),
singleton verifiers (`singleton/`), the compiler census (`chunked/rescheduler`), design studies, archive and patches are
arithmetic or measurements, and keep no state.

### 1.2 How the parts interact

* A **deposit** spends D, puts a leaf on the queue and raises D's value by `D + f`.
* A **flush** spends D and W and four worker outputs in one transaction. D's code reads the queue,
  the frontier, W's commitment and the workers' inputs; it fixes D' and W'. W's code trusts D for the
  ring and checks what concerns W: locking, nullifier root, value. The workers hash. `16 D` go to W,
  `16 f` to the keeper.
* A **withdrawal** is two transactions. tx0 verifies one part of a STARK proof and mints an NFT
  that commits to the transcript; tx1 spends it, verifies the rest, and spends W as its last
  input. W reads ROOT and NF from R's input, opens the ring at ROOT, inserts the key of NF
  and gives up one denomination, which R sends to the outputs the proof was made for.
* D and W are single outputs: everybody who wants to deposit, flush or withdraw spends the same one
  and must rebuild after losing a race. There is no operator, and no clock.
* In a **covenant chain** chunk `k` compares the commitment of the NFT it spends with the state it
  was given, and fixes commitment and locking of output 0: the locking of chunk `k + 1` is part of
  its code. The first chunk spends a minting NFT, the baton, and makes it again; the last leaves an
  immutable NFT, the verdict. A consumer follows a verdict's inputs 0 back to a baton.
* In the **linked form** chunks are inputs of one transaction. A chunk compares the state it computed
  with the first push of its successor's unlocking, and pins the successor's locking. Some read a part
  of the state from the push of an earlier sibling. In the **grouped form** there are several
  such transactions, tied by a mutable NFT that the last one burns.
* In the **coordinator** nothing is handed over. Each block finds the payload and total of the block
  before in another input's unlocking, at an offset worked out from lengths it reads; input 0
  hashes all payloads into a root, derives the challenges, and runs code it collects from data
  pushed and dropped by its workers' redeem scripts.
* The **planners** decide from measured or predicted lengths which operations go into one script;
  the generators of the stages and the linked forms are built from their plans.

### 1.3 What is hard about it

* The ring turns while proofs are being made: a root can expire between proving and confirmation.
* No input sees everything: the flush root is computed by four inputs that are tied together by
  claims of the spender only; D trusts W's commitment and W trusts D's value; R trusts W's prefix.
* Two leaves can share a nullifier, two nullifiers a 64-bit key; money is counted per leaf, payments
  per key.
* Edges: the empty and the full queue, the last batch of the tree, empty paths and full paths in the
  SMT, the wrap of the ring.
* Races for D and W, rebuilt withdrawals, proofs sent again, chains of unconfirmed transactions,
  reorganisations, worker outputs that anybody can spend.
* The two transactions of a withdrawal do not see each other: a transcript that fails one part of the
  proof can be made for any statement, so tx1 must only go with a tx0 of the same transcript.
* No chunk sees the chain. Anybody may send tokens to any locking, put chunks next to each other or
  next to foreign inputs, take an NFT out of its place, or start from outputs that were never meant.
* Point addition has cases the formulas do not cover (equal, opposite, infinity), and the curves are
  far too large for a test to meet them by chance.
* A predicted script length may be wrong in either direction, and a wrong cut is found late or never.
* In the coordinator two scripts that read the same bytes at different offsets would commit to one
  thing and compute on another.

`PROJECT.json` lists each of these with its line in the source and the properties that watch it.

## 2. The modules

The pool:

| module | models | uses |
|---|---|---|
| `ShieldedLedger` | what users are promised: deposits in order, a growing prefix of them open, each nullifier paid once, custody | - |
| `PoolState` | the states of D and W as values, and what deposit, flush and withdrawal make of them | - |
| `Pool` | the two outputs and the three transactions; the properties of the pool | `PoolState`, `ShieldedLedger` |
| `Covenant` | any transaction over outputs with the pool's tokens; the checks of D, W and R; token rules | `PoolState`, `Pool` |
| `Frontier` | the flush: programs, worker machine, claims, frontier, the ring entry it replaces; the JS plan | `Ring` |
| `Ring` | the ring of roots behind one hash: what D replaces and W opens with a path; the JS paths (operators) | `Merkle` |
| `Smt` | the nullifier walk with any witness; the JS set | `Merkle` |
| `Merkle` | hashing as an injective pairing, the bits of a number, full trees (operators) | - |
| `Thread` | tx0 and tx1 of a withdrawal, their batons and thread NFTs, with any inputs and outputs | `PoolState`, `Pool` |
| `Node` | wallets and keepers with copies of D and W; mempool, blocks, reorganisations, taken workers | `PoolState` |
| `PoolProofs`, `NodeProofs` | theorems | `Pool`; `Node` and `Covenant`; `Induction` |
| `TreeProofs` | theorems about both hash trees and the ring | `Smt`, `Frontier`, `Induction` |
| `ThreadProofs` | theorems | `Thread` |
| `Induction` | lemmas on induction and recursion up to a number, for any set or function; on slots used in turn | - |

The chunked verifiers:

| module | models | uses |
|---|---|---|
| `Chunks` | a verification cut into N scripts: a start, a relation per chunk, an acceptance | - |
| `Verifier` | what a verifier promises whatever the layout: only verified statements are accepted, for good | `Chunks` |
| `CovenantChain` | one transaction per chunk: baton, thread, verdict, successor pins; the token rules | `Chunks`, `Verifier` |
| `Linked` | chunks on the inputs of one transaction or of a few: pins, counts, forwarding, borrowed state, thread mode | `Chunks`, `Verifier` |
| `ChainProofs` | theorems | `CovenantChain`, `Coordinator`, `Induction` |
| `LinkedProofs` | theorems | `Linked`, `Groups`, `Induction` |
| `Jacobian` | the scripts' point arithmetic, and the curve library's | - |
| `Glv` | how the vectors' builder splits inputs in halves (operators) | `Jacobian` |
| `Vkx` | the Straus chunks of vk_x: three schedules, witness checks, three final forms | `Glv` |
| `TwoLoop` | the two-loop chunks of vk_x; the stage as a whole | `Vkx` |
| `VkxProofs` | theorems about the whole stage and the builder's halves | `TwoLoop`, `Induction` |
| `Windows` | the planner: operations cut in chunks | - |
| `Groups` | the packing of the chunks planned in transactions | `Windows` |
| `Coordinator` | the one-transaction BLS12-381 verifier with code imported from siblings | - |

`MC*` modules are instances for TLC, each of the module after MC (`MCVkx` of `TwoLoop`, `MCPlan` of
`Groups`).

They fit together in layers. `Pool` is the middle of the first half: it says in three actions what the
chain of D and W states does. Above it, `ShieldedLedger` is what that means for users; the refinement
mapping reads `accepted` as tree then queue, `open` as the tree's size, and `custody` as what D and W
hold above genesis, less the fees of the queue. Below it, `Covenant` and `Thread` show that scripts and
token rules really leave these three actions only, first for what passes between D, W and one R
input, then for the two transactions R needs; `Frontier`, `Ring` and `Smt` show that what `PoolState`
treats as values (a root *is* the leaves under it, the nullifier root *is* the set of keys) is what
the scripts compute, although they only see hashes and witnesses chosen by the spender. `Node` takes
the states of `PoolState` and lets people use them, with a chain that may change its mind.

In the second half `Verifier` is the promise, `CovenantChain` and `Linked` are two ways to keep it, and
each implements it for chunks of any content. `Vkx` and `TwoLoop` look into the chunks of one stage;
`Windows` and `Groups` at how chunks and transactions are cut. `Coordinator` is a layout in which
chunks share no state at all.

### 2.1 How state and actions correspond to the code

Pool:

* `d.pending`, `d.leaves` are DState's `pending` and `leaves`. `len` and `chain` are the length and
  hash of `pending`, `count` is `Len(d.leaves)`; `F` is in `Frontier`.
* `w.keys`, `w.slots`, `w.epoch` are WState's fields. The root written by a flush is the sequence of
  leaves under it, so "NF's note lies under ROOT" is `n \in Range(w.slots[s])`: this is the
  statement R proves (`r/gena.mjs`, `prover/src/stmt.rs`).
* A note is a leaf somebody can open; `NfOf` and `KeyOf` are arbitrary functions, so shared
  nullifiers and key collisions occur.
* `Deposit`, `Flush`, `Withdraw` are `depositTx`, `flushTx`, and the W side of tx1 (`wSpend`,
  `nextState`), each with the guards of the scripts in `d/dcov.mjs`, `w/wcov.mjs`. The keeper's and
  the payout outputs carry no pool state; their sum is what leaves `dValue` and `wValue`.
* `Covenant` has one operator for what a script reads of the inputs and one for what it fixes
  of an output (`DReads`, `DPins0`, `DPins1`, `WReads`, `WPins0`, `WPins1`, `RReads`, `RPins1`). A
  transaction is any sequence of inputs over the unspent pool outputs and foreign outputs, with any
  three outputs over the commitments and values that can be reached in one step.
* In `Frontier` a worker program is a sequence of the four worker instructions, `Exec` is the loop in
  `workerBlob`, `LevelFn` the level function; `Flush` lets the spender claim any six nodes, and its
  ring part `Turn` any old entry and siblings out of the nodes of the ring now and before the last
  flush and hashes of nothing. The four unrolled levels of both scripts are `PathNodes`. `leaves` and
  `slots` are what the flushes really put there.
* In `Smt` one turn of the two loops of `smtCode` is `LevelA` or `LevelB`, and `Chains` is the walk
  level by level; `PathFrom` is what `SMT.path` finds from a level up. `Insert` lets the spender send
  any bitmap, L and siblings.
* In `Thread` a transcript is its digest: statement, outputs, and the parts of the proof whose checks
  it fails. One that fails a part can be made for any statement; one that fails none needs a note
  (`Sound`). `Tx0` and `Tx1` are `headRole(0)` and `headRole(1)` with `kindCode` and `rLoop`, over any
  inputs under R or not; `Tx1` contains W's withdraw branch.
* In `Node` every transaction ever built has a number. A client's `job` goes through the calls of
  `s3.ts` and `s4.ts`: `Build*`, `Send`, `Settle` (in the block), `Lose` (`race`), `Read` (`checkD`, `checkW`).
  `Mine` takes any transaction of the mempool next, `MineOther` one that conflicts with it, `Reorg`
  undoes the last block, `Take` spends worker outputs.

Chunked verifiers:

* `txs` and `utxo` are a ledger, a transaction being its inputs, what each input pushes, and its
  outputs. A chunk's locking is its number; the pinned successor hash is the number after it.
* In `CovenantChain` the checks are named by what they look at: `Spends` (token and commitment of the
  input), `Runs`, `Leaves0`, `Leaves1`, `OutputCount`, `InputCount`, from `lifecycleLines` and
  `bindContract`. In `Linked` each operator is one option of `transformChunk` (`expectedInputCount`,
  `nextLockingHash`, `tokenThreadMode`, `externalParams`, `forward`, `covout`, `burn`); which chunk has
  which option is the variable `layout`, fixed at the start, from the configurations in
  `build_vectors_residue.mjs` and `groupedCfg`.
* In `Vkx`, `k` and `r` are the state blob's scalars and accumulator; `FirstChunk`, `MiddleChunk` and
  `FinalChunk` cut the loop anywhere. Point arithmetic is the contracts' (`jacDouble`, `jacAddAffine`
  and the lazily reduced ones, with a `%` that keeps the sign), compared with the library's `add`.
  `TwoLoop` is the chain of `twoloop/gen_chunks.mjs`, with the inputs written into the scripts.
* In `Windows` one step is one turn of the planner's loop; `guess` is the predicted length. In `Groups`
  `specs` says where the whole state crosses and what a binding ties, as `blockedCuts` and `allowed`
  read it.
* In `Coordinator` an unlocking is the bytes of its pushes, one after the other (`Bytes`). Workers find
  data by skipping as many bytes as a push says it has (`Skipped`, `loadPredecessor`), the coordinator by
  lengths it works out from the digits (`Measured`, `rawInput`). `Open`, `PushFrame`, `Submit` assemble
  one transaction block by block and evaluate it. A total over the challenges is the list of what went
  into it (`Absorb`).

Abstractions, all of data: hashes and compressions are injective terms; a proof is its statement and
what it fails; miner fees, funding inputs, byte layouts and script costs are left out. Lane range checks
(`every lane < p`) are the membership of a leaf in `Leaf`. A Groth16 proof is a statement together with
whether some run of all chunks accepts it.

Definitions marked as mutants, before the definition they vary, are the code with one plausible
mistake; `PROJECT.json` says which property finds which.

## 3. The runs

| run | instance | states | asks |
|---|---|---|---|
| `pool` | batches of 2, a ring of 2, room for 3 flushes, four notes (two of one nullifier, two of one key) | 622,083 | does any order of deposits, flushes, withdrawals break the accounts |
| `node` | two wallets with a note each, batches of 2, six transactions, one reorganisation, one taken worker | 198,982 | what conflicts, reorderings and undone blocks do to copies and payments |
| `node_live` | one wallet, two notes, batches of 1, a ring of 1, 12 transactions | 44,969 | does everything get through in the end |
| `thread` | two notes, two payees, two batons, two tx0s, one carrier each | 43,053 | can tx1 follow anything but its own tx0 |
| `covenant` | batches of 1, two workers, two R inputs, up to four inputs of any kind and three outputs | 124 | what else do the scripts let through |
| `frontier` | depth 5, batches of 4, one level for each of workers 2 to 4, a ring of 4, filled up | 511 | can claims and siblings of a spender put a wrong root in the ring |
| `smt` | depth 3, six keys | 193 | can a witness be forged or varied |
| `covenant_chain` | three chunks, two statements, one baton, a fungible token, seven transactions | 77,531 | can a verdict appear that nothing verified |
| `linked` | four chunks; one group with two borrowing chunks, and two groups with forged threads and minting NFTs | 74,239 | can siblings, positions or threads be mixed |
| `vkx` | a curve of 19 points over F_13, halves of 4 bits, inputs of 5, all cuts, halves, inverses | 82,701 | do the chunks compute vk_x at every edge, does the builder find the best halves |
| `plan` | six operations of three costs, two or three per window, all predictions, seams and bindings | 184,974 | do bad guesses cost chunks or transactions |
| `coordinator` | five blocks on four inputs, three statements, three code pages, four sets of coins | 328,324 | can two readings of one transaction differ |

No run checks for deadlock: a full tree whose notes are all paid, a chain with its verdict, a build that
is done, and a bound reached have all stopped.

Why the bounds are enough. The ring must wrap for the slot arithmetic to matter: two slots and three
flushes do that, and leave a root that has expired while its leaves are still there. The capacity
`MAX_COUNT` is reached in `pool` and `frontier`, and the queue fills up after it. Batches of two tell
order and off-by-one errors of the queue apart. In `frontier` every pattern of the three
path-level bits occurs, among them the one with no zero bit; a level per worker makes both cuts
matter, and eight flushes wrap its ring. In `smt` the keys include siblings at each level, so empty,
full and gapped bitmaps occur. In `covenant` four inputs are what a flush needs there and one more than
a withdrawal; the third output is there for a token to escape to. `node` needs six transactions
for two deposits, their rebuilds, a flush and a withdrawal; `node_live` needs twelve for two notes, each
proved and built again after a flush took its root, one flush lost to a taken worker and one block undone.
In `thread` two batons and two tx0s are what mixing needs; a baton that comes back may carry the
commitment of a thread, because the scripts look at its category and capability only. `covenant_chain` has room for two whole
runs, or one and everything a foreign transaction can do next to it: each chunk transaction has at most
two inputs, one more than the scripts let a chunk have. In `linked` four chunks
make two groups with a root and a tail each, or one with a carrier and two readers. In `vkx` the two keys
are chosen so that sums meet equal, opposite and infinite points; on 19 points every pair of
inputs of the two loops is tried, and windows that do not divide the bits; TLC evaluates there what the
proofs assume of field, curve, endomorphism and tables. In `plan` windows have one
to three operations and transactions one to three chunks. In `coordinator` two blocks share an
input, both of a length that depends on the statement.

### 3.1 Properties

Each is stated in words above its definition. By hazard:

* *Money and order*: `Solvency`, `NoDoublePayout`, `StillProvable`, `RingIsHistory`, `ImplementsLedger`
  (`Pool`); `OneOfEach`, `ImplementsPool` (`Covenant`); `PaidIsVerified`, `PaidAsIntended`, `OneTx1PerTx0`,
  `BatonsKept`, `ImplementsPool` (`Thread`).
* *Witnesses and claims*: `RingIsTheTrees`, `FrontierIsTheTree`, `OpenedIsInTheRing`, `PlanIsAccepted`
  (`Frontier`); `RootIsTheSet`, `OneEncoding`, `PathIsAccepted` (`Smt`).
* *Conflicts, reorganisations, retries*: `CopyIsItsOutputs`, `StateIsHistory`, `PaidOncePerChain`,
  `FlushedInTheEnd`, `PaidInTheEnd` (`Node`).
* *Chunks out of their place*: `TokensArePlaced`, `VerdictMeansVerified`, `OneVerdictPerGenesis`,
  `ImplementsVerifier` (`CovenantChain`); `RunsWhole`, `GroupsImplementVerifier` (`Linked`).
* *Edges of the arithmetic*: `EmittedIsVkx`, `ReferenceIsAccepted`, `BestHalves` (`Vkx`),
  `AcceptsUnlessAbsorbed` (`TwoLoop`).
* *Cuts*: `FewestTransactions`, `BoundSpansTogether` (`Groups`).
* *Two readings, imported code*: `VerdictIsTrue`, `CodeIsTheProgram`, `HonestIsAccepted`
  (`Coordinator`).

Defined and proved, but not run, because a stronger one is: `Conservation`, `PaidWasDeposited`,
`DepositOrder`, `ExpiredStaysExpired` (`Pool`), `WalkedIsVerified`, `VerdictsLast` (`CovenantChain`).

What the runs showed that is worth knowing:

* The fold of the two-loop chain adds to its accumulator without asking whether it is infinity, and
  infinity absorbs what is added. Where `IC0 + in0 IC1` is infinity the chain computes infinity
  and the generator throws; `vkx_sim.mjs:36` says of the addition that it "assumes neither is
  infinity". `AcceptsUnlessAbsorbed` says exactly when. It never accepts a wrong point.
* The plain affine form of the last Straus chunk has no encoding of infinity: for inputs whose vk_x
  is infinity no inverse passes. The token and unit forms have one.
* A flush of a batch of empty leaves leaves the root as it was, so that one root may stand in two
  slots of the ring: a withdrawal may then name either, and `OpenedIsInTheRing` is about the slot.
* The terminal merge of the window planner never changes the number of windows as long as the
  terminal chunk saves at most one operation (`WindowsAssumption`).
* In `Linked` a walk back means something only if it also checks that the token of each group's
  input 0 is a mutable NFT of one category; `Walk` does.

### 3.2 Fairness

Only `node_live` has liveness properties. `FairSpec` of `Node` assumes that clients go on with what
they began (send, settle, notice a loss, read the tip), that a keeper flushes a full queue and owners
prove and withdraw, and that miners mine something from a mempool that stays non-empty. The code
justifies the keeper by the fee (a flush pays its sender `16 f`, and anybody may send it: `doFlush` in
`node/s4.ts`), the owner by interest, the client by the harness being a loop. All of it is weak
fairness: a note that lies in the tree can be proved all the time, although against changing
roots. That a loser reads the tip again is more than the harness does after its race test
(`s3.ts` race), where it ends. Nobody is assumed to deposit, so a queue of fewer than 16 leaves may
wait for ever, and nobody is assumed to stop taking workers or undoing blocks: without the bounds
`MAX_TAKE` and `MAX_REORG` whoever pays for it could hold up flushes for ever. The bound on transactions
is high enough that it is not what ends a behaviour.

## 4. What is proved

In `PoolProofs`, for every value of the constants that satisfies the
named assumptions (`LeafAssumption`, `SizeAssumption`, `ValueAssumption`, `GenesisAssumption`: batch and
ring sizes positive, the capacity a whole number of batches, a positive denomination):

| theorem | property | inductive invariant |
|---|---|---|
| `TypeCorrect`, `ConservationHolds` | `TypeOK`, `Conservation` | `Accounts`: the two together |
| `PaidOnce`, `PaidForADeposit` | `NoDoublePayout`, `PaidWasDeposited` | `Payments`: these with `TypeOK` and `SlotsInTree` |
| `PoolIsSolvent` | `Solvency` | `Accounts` and `Payments`, and a counting lemma |
| `RingHoldsTheHistory`, `NoteStaysProvable` | `RingIsHistory`, `StillProvable` | `History`: `RingIsHistory` with `TypeOK` |
| `OrderIsKept`, `ExpiredRootsStayOut` | `DepositOrder`, `ExpiredStaysExpired` | `TypeOK`, then step by step |
| `PoolImplementsLedger` | `ImplementsLedger` | all of the above |

The argument. That `dValue` stays a natural number in a flush needs its balance, so types and balances
are one invariant. A payment is for a leaf of a root in the ring; that it is for a leaf of the
tree needs `SlotsInTree` (whatever is in a slot was flushed). No key is paid twice because the key
set is the set of keys paid. Solvency is then counting: the tree has as many leaves as
`Len(d.leaves)`, each key paid or owed is the key of some leaf, and the paid ones are as many as
the payouts, so at least as many leaves are left as keys are owed (`TreeKeys` lemmas). The ring is
shown slot by slot: flush `e` writes slot `e mod RING`, and two different flushes among the last
`RING` never share a slot. The newest root contains the whole tree, so every note is provable. For
the refinement, a deposit is `Accept`, a flush is `Open`, a withdrawal is `Pay`, and `Solvency`
together with `PaidOnce` gives the guards of `Pay`.

In `NodeProofs` and `ThreadProofs`, the scripts of the pool, for every batch size, any number of
workers, batons, notes and transcripts, and the assumptions those modules name:

| theorem | property | inductive invariant |
|---|---|---|
| `OneDOneW` | `OneOfEach` | `Inv`: one D, one W with values that are natural numbers, no other token |
| `CovenantImplementsPool` | `ImplementsPool` | `Inv` |
| `PaidVerified`, `PaidIntended` | `PaidIsVerified`, `PaidAsIntended` | `ThreadInv` |
| `BatonsAreKept` | `BatonsKept` | `ThreadInv`, and counting |
| `OnePaymentPerVerification` | `OneTx1PerTx0` | `ThreadInv`, and counting |
| `ThreadImplementsPool` | `ImplementsPool` | `ThreadInv` |

A transaction of `Covenant` spends D or not and W or not. If it spends neither, no token of the
category goes in and none comes out. If it spends one, its script wants the other as well or fixes its
own successor; tokens are not made, so as many come out as went in, and the outputs that the
scripts fix are all of them. That leaves a deposit, a flush and a withdrawal. `ThreadInv` says that each
coin of R is a baton or the NFT of a transcript whose first part a tx0 verified, and that each payment
was for a transcript of which a tx0 verified the first part and tx1 the rest, made for that payee. What tx1 adds is
sound because one transcript passed both. The count of NFTs and payments of a transcript never passes
the count of its tx0s: tx0 adds one to both sides, tx1 moves one from the NFTs to the payments, and an
NFT that is lost only lowers the left side. Since both modules implement `Pool`, the theorems about `Pool`
hold of them.

In `TreeProofs`, for any depth, any set of keys of that many bits, and any bitmap, `L` and siblings a
spender can send (`KeyAssumption`):

| theorem | property | rests on |
|---|---|---|
| `NoSecondSpend` | `RootIsTheSet` | `IInv`: the root is that of the keys paid, as many as payments, with `OneEncoding` |
| `WitnessIsUnique` | `OneEncoding` | `IInv` |
| `PathsAreAccepted` | `PathIsAccepted` | `IInv` and `PathWalks` |

The work is in three lemmas about operators. Soundness (`WitnessIsPath`) goes from the root down: the old
chain ends in W's root, a pair is the hash of one pair only, so at each level the chain holds the node
above the key and the sibling sent is the node's sibling. At the leaf the chain holds `Z`, so the key is
absent, and bit `l` of the bitmap is set exactly where the sibling is not `Z`. Loop A does not hash the old
chain; there the check of `L` says that the bitmap has no bit below, and the first sent sibling
is not `Z` (without that check a node of the chain could be `Z` next to a sibling `Z`, or the bitmap be
varied). `NewRoot` says that whoever walks with the real siblings ends in the root of the set with the
key: inserting a key changes no sibling of its path (`SiblingsStay`). Completeness (`PathWalks`) goes from
the leaf up with the reference's path. The invariant needs nothing of what other spenders sent, since
the state is a root alone.

Also in `TreeProofs`, for any leaves, any depth, batch and cuts of the path between the workers, any ring
and any batches in any order (`ShapeAssumption`, `RingAssumption`):

| theorem | property | rests on |
|---|---|---|
| `TreeInvariant` | - | `TreeInv` itself |
| `RingIsTheTreesAlways` | `RingIsTheTrees` | `TreeInv` |
| `FrontierIsTheTreeAlways` | `FrontierIsTheTree` | `TreeInv` |
| `OpenedIsInTheRingAlways` | `OpenedIsInTheRing` | `TreeInv` and `PathIsRing` |
| `PlanIsAcceptedAlways` | `PlanIsAccepted` | `TreeInv`, `WorkersAre` and `PlanEnters` |

A flush is four programs whose text depends on the claims, and the proof reads it in layers. A program
of any length run after another continues on its stack (`RunJoined`), so a piece of program is known by
what it pushes: the code of a subtree pushes its node (`SubtreePushes`), and one path level turns the
node below into the node above and, at the lowest level without a carry, fails unless the claimed `X` is
the node entering there (`LevelGives`). By induction on the levels a worker's region gives the node of
the path at its end, fails iff `X` is wrong in it, and leaves the frontier D wants of these levels
(`RegionIs`). `WorkersAre` puts the four together: all accept iff every claim is the node of the honest
path, so no claim can be shifted from one worker to the next. This much holds of any frontier. That the
path is the tree's needs the invariant: the node at level `l` is the node of the *larger* tree above the
batch (`PathInTree`), since what is to its left is old and in the frontier (`OldNodes`) and what is to
its right is empty (`NoNodes`). Adding a batch carries into level `l` iff every bit below is set
(`AddBatch`), which is when `levelFn` clears or sets an entry (`FrontierAdvances`). The ring is the
soundness of a path again, from the root down (`PathIsRing`), and completeness with one entry changed
(`RingReplaced`). `TreeInv` adds to the properties that `slots` holds, slot by slot, the root of the one
flush of the last `RING` that wrote there: the next flush is the only writer of its slot in the new
window and takes no other from it (`WritersAre`, by arithmetic modulo `RING`), and old roots stay the
roots of a prefix of the leaves (`HeldMoves`). No property alone is inductive: the frontier's needs that
the leaves come in whole batches, the ring's that the root is that of the tree.

In `NodeProofs`, for any clients and notes, any batch and ring sizes, any bounds on transactions, taken workers
and reorganisations (`ClientAssumption`, `BoundAssumption` and those of `PoolState`):

| theorem | property | inductive invariant |
|---|---|---|
| `NodeInvariant` | - | `IInv` itself |
| `CopiesAreTheirOutputs` | `CopyIsItsOutputs` | `IInv` |
| `HistoryIsState` | `StateIsHistory` | `IInv`, then induction along the chain |
| `OnePayment` | `PaidOncePerChain` | the same |

None of the three is inductive. `IInv` adds what they leave out: transactions that were built and lost
are still there and may be taken into a block later. So it says of *every* transaction that it spends
outputs of the right kind that some transaction made, and that what was built from a copy passes the
scripts (`Built`); and of the chain with its mempool that it is a good list (`Good`): each transaction
is valid after those before it. All else follows from goodness. A good list leaves one output of D and
one of W (`Tips`), and the states of those two are its history (`Told`), both by induction on its length
(`TipsAppend`, `ToldAppend`, `GoodTold`). A key is paid once since each withdrawal on the list found it
absent in the state its predecessor on the list left. A block, a conflict, a reorganisation and a new
transaction each make a list from another by cutting it off or revalidating what was behind, and
revalidation after a good list gives a good list (`RevalidateIs`). Transactions are never changed, so a copy stays
that of its outputs whatever happens to the chain (`Grown`, `HoldsKept`).

`Induction` is what these modules stand on. Their models have recursive functions (the tree's
levels, a walk, the run of a program, what revalidation keeps). `Least` and `UpTo` are induction up to a number for a set given
as such, and `Recursion` is that a function defined by recursion up to a number exists and satisfies its
equation. Each recursive function gets one lemma that states its equation (`NodeIs`, `ChainsIs`,
`PathFromIs`, `RowsIs`, `TraceIs`, `CodeIs`, `LevelsIs`, `PlanIs`, `RevalidateIs`, `NotesIs`,
`TotalsIs`, `FewestIs`, `LastJoinedIs`, `FilledIs`, `SkippedIs`, `MeasuredIs`), and proofs
go on from there. `NearbyEpochsDiffer` and `RoundLater` are about a number modulo the size of the ring,
and serve the ring of `Pool` as well.

In `ChainProofs`, for any number of chunks (`ChunksAssumption`: at least three), any relations between
states, any tokens in the category genesis, any bounds (`CovenantAssumption`: hashes do not collide):

| theorem | property | rests on |
|---|---|---|
| `WalkSound` | `WalkedIsVerified` | `LedgerOK` |
| `Provenance` | `TokensArePlaced`, under `P1` | `LedgerOK` and the property itself |
| `VerdictSound` | `VerdictMeansVerified`, under `P1` | the two above |
| `VerdictsStay` | `VerdictsLast` | `LedgerOK` |
| `OneVerdictEach` | `OneVerdictPerGenesis` | `LedgerOK` and `SpentOnce` (no output is spent twice) |
| `ChainImplementsVerifier` | `ImplementsVerifier` | `LedgerOK` and `WalkSound` |

`P1` is the assumption of `chunked/pairing/README.md` that the category genesis makes no NFT but
batons. The argument is the one written there, by induction along the ledger. `LedgerOK` says of each
transaction what its scripts and the token rules checked when it was published, with inputs that refer
to earlier ones: the ledger only grows, so such facts stay. Given them, two neighbours of a walk agree
on a state, because one fixed the commitment and the other compared it, and hashes are injective
(`WalkSeam`); N of them are a run of all chunks (`WalkVerifies`). A new NFT either comes from a
mutable one, and then from the thread's one output by the pin on input 0, or from a baton, and then from
the genesis chunk, which fixes both its outputs (`NewIsPlaced`). Without `P1` the first half still
holds, which is `WalkSound`, and so does `OneVerdictEach`: each transaction of a walk spends output 1 of
the one before, so two walks of one genesis never part (`WalksAgree`).

In `LinkedProofs`, for any number of chunks and any layout that satisfies `IsLayout` (`LinkedAssumption`:
hashes do not collide, and the static part of a state does not change from the carrier on):

| theorem | property | rests on |
|---|---|---|
| `GroupsRunWhole` | `RunsWhole` | `LedgerOK` and the shape of layouts |
| `LinkedImplementsVerifier` | `GroupsImplementVerifier` | `LedgerOK` and `GroupsRunWhole`'s lemma |

No chunk but the root counts the inputs, and most do not check their own position. The root of a group
pins its successor, which pins its own, up to the tail (`Chain`); if the root stood at another input
than the first, the tail would lie beyond the number of inputs the root counted (`WholeGroup`). With the
position of each chunk fixed, what it reads of its neighbours is theirs. Inside a group a chunk works on
what the chunk before computed: it pushes it, or it pushes the dynamic part and reads the static part
from the carrier, and that part is still what the chunk before computed (`StaticKept`, `Inside`).
Between groups the tail hands the thread to output 1, no sibling has a token of that category, and a token
of the category therefore comes from the thread: the next root's input is output 1 (`ThreadIsOutput1`,
`Across`). Put together, a walk is a run of all chunks.

There too, for any number of operations, any costs, predictions and seams, and any one binding, where
each operation fits a chunk of its own and the terminal chunk saves at most one operation
(`WindowsAssumption`, `GroupsAssumption`):

| theorem | property | inductive invariant |
|---|---|---|
| `PlanInvariant` | - | `PlanInv` itself |
| `FewestTransactionsAlways` | `FewestTransactions` | `PlanInv` |
| `BoundSpansTogetherAlways` | `BoundSpansTogether` | `PlanInv` |

Both plans are greedy, and one argument serves both. `BestSoFar` says that the parts made reach as far as
any plan of as many parts: none reaches the last cut with fewer, and none reaches a later one with as
few. Only the first half is asked for, and only at the end. One more part keeps it if no good part
begins at or before the last cut and ends beyond the new one (`BestNext`). For windows that is because a
window that starts later or ends sooner costs less (`ShorterFits`), the terminal's discount included, so that
the longest that fits from here ends last; `PlanChunkIs` shows that the search finds the longest, grown or
shrunk from any prediction. For groups costs alone do not decide, as a group that cannot be cut may
be too long: a group that starts earlier and ends beyond the cut taken contains that cut and the chunk
that overflowed, so it is too long and could be cut (`FullGroup`).

Also in `ChainProofs`, for any number of inputs and blocks, any frames on the inputs, any windows,
rooms and program, any coins, redeem scripts and payloads offered:

| theorem | property | rests on |
|---|---|---|
| `CoordinatorInvariant` | - | `CoordinatorInv` itself |
| `CodeIsTheProgramAlways` | `CodeIsTheProgram` | `CoordinatorInv` |
| `VerdictIsTrueAlways` | `VerdictIsTrue` | `CoordinatorInv` and the property before |
| `HonestIsAcceptedAlways` | `HonestIsAccepted` | `CoordinatorInv` |

`CoordinatorAssumption` asks what the builder asks: each block is pushed in one place, input 0 has one
block and no window in it (nor in the last block), and the program fills all rooms with a rest for the
first worker (`_coordinator_head.mjs:79`). A relation holds only of payloads of the lengths that the
digits of the statement give. Hashes are terms, hence injective.

The properties speak of a transaction that has been evaluated, so the invariant is what evaluation
leaves: header, statement, redeem scripts and frames have the shape their actions give them (`Built`),
and the verdict is what all scripts say of them (`VerdictGiven`). Since the scripts only read, they say the
same after the verdict as before (the `Same...` lemmas). The rest is about byte strings.

* *Code.* One digest binds all lockings together, and each has a fixed length; so the strings agree piece
  by piece (`JoinedSame`, `BinderBinds`), and a coin locked with a worker's script is spent with it. The
  coordinator cuts what it takes for redeem scripts from the end of each unlocking, where they are,
  whatever is pushed before (`CutOut`, `ScriptsAre`). The pages lie next to each other in the program
  (`Adjacent`, by induction over the carriers), so that the rooms in order and the overflow are the
  program (`PagesJoin`, `ImportedIs`).
* *Readings.* An input is its frames one behind the other (`OwnIs`), and after `o` frames the next one
  comes. A worker that trusts the lengths pushed gets there (`FrameAtIs`); the coordinator does
  because each payload has the length it expects, which the block itself has checked from the same
  digits read elsewhere (`LengthsAgree`, `RawInputIs`). Hence both find each payload as it was pushed
  (`ReadingsAre`); the exact length of input 0 keeps its one frame at its place (`RootFrameIs`).
* *Truth.* The total of block `b` is then the list of the links of blocks `1 .. b` (`LinksAre`), each
  with the payload before, the statement and the challenges. The coordinator has derived these from
  the root over just the payloads it read: the challenges were drawn after everything they are about
  (`DrawnIs`), and the equation decides the relations.
* *Acceptance.* Conversely, with the lengths of a true relation every check finds what it wants.

In `VkxProofs`, for every prime field, curve, key and schedule of the kind below, any cut in chunks, any
halves and inverses a spender may offer:

| theorem | property | rests on |
|---|---|---|
| `StageIsInvariant` | - | `StageInv` itself: `StrausInv` or `TwoLoopInv` |
| `EmittedIsVkxAlways` | `EmittedIsVkx` | `StageInv` |
| `ReferenceIsAcceptedAlways` | `ReferenceIsAccepted` | `StageInv` |
| `AcceptsUnlessAbsorbedAlways` | `AcceptsUnlessAbsorbed` | `StageInv` |
| `BestHalvesAlways` | `BestHalves`, if the builder throws on none of `INPUTS` | `StageInv` |

What is assumed of the constants is named and evaluated by TLC on the instance of `vkx`: `P` has
inverses and is 1 mod 3 (`FieldAssumption`); chord and tangent make the multiples of `BASE` a group of
order `N`, on which neither coordinate is ever 0 (`CurveAssumption`: both groups of odd prime order that the
code uses are such, BN254's whole curve and BLS12-381's subgroup, as a point with `x = 0` has
order 3 and one with `y = 0` order 2); the endomorphism multiplies by `LAM` (`EndomorphismAssumption`);
keys are not infinity and sizes fit (`ScheduleAssumption`, `WindowAssumption`); no table entry has `x = 0`,
on which the generator throws (`TablesAssumption`). Nothing is assumed of the inputs of a spender.

* *Formulas.* `Stands(p, a)` says that the triple `p` stands for the affine point `a`, and `Sound` that its
  ordinate is not zero either, not even at infinity, which the unit form divides by. Every `vmMod`
  expression is congruent to a polynomial (`Operations`, `Reduced`; for the lazily reduced pair `Carry` shows
  that what is lifted by multiples of `P` never goes negative). Both doublings and all three additions
  then come down to one fact, that the third point of a line is what the formula makes it (`ThirdStands`,
  from `Tangent` and `Chord`), plus the edges: equal points are doubled, opposite ones go
  through the general formula and come out with `Z = 0` and an ordinate that is not zero
  (`OppositeStands`), an infinite accumulator is replaced (`JacAddAffineIs`, `JacAddGroupedIs`). For the two
  loops' unguarded addition, a finite operand is needed (`AddBlockIs`): an infinite one stays infinite.
* *Exponents.* Between chunks the accumulator stands for `Expo(vk, sched, k, w)` times `BASE`: the sum over
  the groups of the top `w` bits of each scalar there, times the multiple its point is of (`StrausInv`).
  One position doubles that and adds the position's bits (`ExpoIs`, with `SumDone`, `DigitsAre`, `TableIs`),
  so a loop over any window carries it from its first position to its last (`LoopIs`), and where the
  cuts are does not matter. With all bits done it is the mix of the scalars; as halves that
  pass are congruent to the input modulo `N` (`BindsIs`), the point is `vk_x` (`TotalIs`, `LastIs`).
* *Forms.* An accepted inverse is the inverse (`Cancel`), so each of the three forms is the
  point's (`AffineFormIs`, `UnitFormIs`, `FinalIs`); the reference inverse is accepted (`ReferenceIs`).
* *Two loops.* `Halfway`: after `i` iterations `R` stands for `x mod 2^i` times the point, and the base for
  `2^i` times it, which is finite since no point is its own opposite. `R` is infinite while the bits so far are
  zero, and is then replaced. The fold does not ask that question of its left side: the sum is wrong exactly when
  `IC0 + in0 IC1` is infinity and `in1 IC2` is not (`Absorbed`).
* *Halves.* The remainders of Euclid's algorithm and their cofactors are vectors of the lattice of pairs
  `(x, y)` with `x + y LAM = 0 mod N`, neighbours having determinant `N` or `-N` (`EuclidKeeps`); so the two
  the builder takes are a basis (`BasisIs`), and whatever rounding and moving make of the seed, it is
  congruent to its input (`SeedIs`). If other halves in the box differ from the seed by `(dx, dy)`, Cramer's rule
  gives the coefficients, integers because the difference is in the lattice, and within the bounds
  the search uses because `|dx|` and `|dy|` are below `GLV_BOUND` (`Cramer`, `WithinReach`). So the candidates
  are all halves that pass, and no others (`CandidatesAre`). Of finitely many scores one is not bettered
  (`Lexical`, coordinate by coordinate), and it is read back as the pair it is the score of (`JointIs`). That the
  builder does not throw on an input is a hypothesis, `splits(n)`: it tests the box itself
  (`gen_vkx_glv.mjs:95`), and the size of the seed depends on the curve.

Only model-checked: liveness (`FlushedInTheEnd`, `PaidInTheEnd` of `Node`) under `FairSpec`, as the prover
has no `ENABLED`. Induction over sequences and trees of any shape is out of the prover's reach; what
is proved of recursive definitions here is of functions over `0 .. n`, by `Induction`.

## 5. Not modelled

* The arithmetic of the Miller loop, the final exponentiation, the STARK verifiers and provers, the
  Poseidon2 permutation, the stack compiler: straight-line computations compared with reference vectors
  by the repository. In `CovenantChain` and `Linked` they are the relation `Step`.
* Of the covenant chain: satoshi values; the older chains whose chunks do not pin a successor. Of the
  linked form: external bindings byte by byte, exact frames, witnesses and padding, layouts
  without pins, outputs with an immutable NFT or with fungible tokens only (no check of its scripts
  turns on them). Transactions with no chunk are bounded (`MAX_OUTS`), and so are the tokens a genesis
  may make (`Issue`, `issue`) and the outputs offered.
* Of the vk_x stage: the legacy layouts, which take the first accumulator from the caller (the loops
  start from infinity, (0, 1, 0), as in the stage-bound builders), the projective hand-off, the carried proof tuple, the shared table carrier of the
  BLS builder.
* Of the planners: compiling and measuring a candidate is a cost per operation. The size of a chunk is
  what its window costs, because inputs are padded until their bytes pay for their operations.
* Of the coordinator: the layouts with an unfused coordinator, the authentication of table records,
  the quotient split over two inputs, the prefix cache, padding. Totals are lists, challenges are terms,
  so the soundness error of the polynomial identity is out of sight.
* Of R: the checks of the STARK itself (`Sound` stands for them); the n-transaction layout `genn.mjs`,
  which `gena.mjs` replaced.
* Of the node harness: the log file and the cross-checks with libauth, which keep no state.
* Singleton verifiers, the rescheduler census, design studies, archive, patches: no state.
* Privacy: what an observer can learn is no property of the states.

Most lines of the repository are such arithmetic, measurement scripts that assemble and price
variants of it, and generated contracts, so that the modules map to a small part of its lines. It
is the part with state, several actors or an order of events.

## 6. Plan

Done: the pool from its states to its chain, its users and its scripts; the chunked verifiers'
layouts, one of their stages, their planners; the proofs of `Pool`, `Covenant`, `Thread`,
`CovenantChain` and `Linked`, each of which implements its abstract specification; the proofs of `Smt`,
`Frontier`, `Node`, `Groups` and `Coordinator`; the proofs of the vk_x stage, from the point formulas to the
builder's halves.

Next:

1. `Coordinator`: the authentication of table records and the split of the quotient.
2. The external bindings and exact frames of the linked form, byte by byte.
