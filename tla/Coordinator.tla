----------------------------- MODULE Coordinator -----------------------------
(***************************************************************************)
(* The one-transaction verifier of chunked/bls12-381, in the layout that   *)
(* fuses the coordinator with block 4 on input 0.  Every other input is a  *)
(* worker with one or two blocks of the computation.  Nothing is handed    *)
(* over: the scripts read each other's unlocking bytecode at offsets they  *)
(* work out for themselves, and input 0 runs code it finds in the redeem   *)
(* scripts of its workers.                                                 *)
(*                                                                         *)
(* Bytes are sequences of tokens.  A push is one token for its length and  *)
(* then the data.  Hashes are terms, so no two inputs have the same one.   *)
(***************************************************************************)
EXTENDS Integers, SequencesExt

CONSTANTS
    W,          \* worker inputs 1..W; input 0 is the coordinator
    LAST,       \* the last block, the first being 1
    Frames,     \* Frames[i]: the blocks on input i, in order
    Windowed,   \* blocks whose payload is shorter for a zero window
    First,      \* the worker that carries the overflow of the program
    Carrier,    \* the workers with room for code, in the order they are filled
    Room,       \* Room[w]: the width of that room
    Program,    \* the delegated coordinator: a sequence of tokens
    Statements, \* digits of the two public inputs, per windowed block
    Relation,   \* <<statement, payloads>> for which every relation holds
    Payload,    \* Payload[b]: bound: what a transaction pushes for block b
    Quotient,   \* bound: quotient polynomials pushed
    Opened,     \* bound: <<statement, payloads>> a header commits to
    Coins,      \* bound: the worker coins there are, lockings of 1..W
    Foreign     \* bound: redeem scripts that are no worker's

Block == 1..LAST
InputOf(b) == CHOOSE i \in 0..W : b \in ToSet(Frames[i])
Ordinal(b) == CHOOSE o \in DOMAIN Frames[InputOf(b)] : Frames[InputOf(b)][o] = b

\* Tokens, and what is made of them.
Byte(n) == <<"byte", n>>
Evaluation(links) == <<"eval", links>>
HashOf(tag, x) == <<"hash", tag, x>>
Bytestring(x) == x \in Seq(ToSet(x))
Drops(x, n) == SubSeq(x, n + 1, Len(x))
Push(x) == <<Byte(Len(x))>> \o x
P2sh(redeem) == <<<<"op_hash256">>, HashOf("redeem", redeem)>>
LOCKING == 2        \* the 35 bytes of a P2SH32 locking

\* The last k of a sequence of byte strings, one after the other; all of them.
LastJoined(xs) ==
    LET x[k \in 0..Len(xs)] == IF k = 0 THEN <<>> ELSE xs[Len(xs) - k + 1] \o x[k - 1]
    IN  x
Joined(xs) == LastJoined(xs)[Len(xs)]

-----------------------------------------------------------------------------
(* The redeem scripts: where the pages of the program are put.              *)

\* What the rooms of the first j carriers hold, the page of the j-th, the rest.
Filled == LET f[j \in 0..Len(Carrier)] == IF j = 0 THEN 0 ELSE f[j - 1] + Room[Carrier[j]]
          IN  f
Page(j) == SubSeq(Program, Filled[j - 1] + 1, Filled[j])
Overflow == SubSeq(Program, Filled[Len(Carrier)] + 1, Len(Program))

\* A worker's script: the data it pushes and drops, then its code.
Redeem(w) ==
    LET data == IF w = First THEN Overflow
                ELSE IF w \in ToSet(Carrier)
                     THEN Page(CHOOSE j \in DOMAIN Carrier : Carrier[j] = w) ELSE <<>>
    IN  Push(data) \o <<<<"code", w>>>>
RootRedeem == <<<<"coordinator">>>>
Digest == Joined([w \in 1..W |-> P2sh(Redeem(w))])

-----------------------------------------------------------------------------
VARIABLES
    coins,      \* the lockings of the worker coins
    opening,    \* header, statement, quotient and redeem scripts pushed
    frames,     \* the payloads and evaluations pushed so far, by block
    verdict     \* "none", then "accepted" or "rejected"
coordinatorVars == <<coins, opening, frames, verdict>>

NONE == [header |-> <<>>]

HEADER == 4         \* root, quotient root, beta, alpha
STATEMENT == 1
EVAL == 1
QUOTIENT == 1
FIXED == 1          \* payload of a block without windows
SHORT == 1          \* and of one with, its window zero
LONG == 2           \* or not
ARGUMENTS == (HEADER + 1) + (STATEMENT + 1)

\* A block's own length, from the digits of both scalars.
OwnLength(s, b) ==
    IF b \notin Windowed THEN FIXED ELSE IF s[b] = <<0, 0>> THEN SHORT ELSE LONG

\* The pages fill the rooms, and the relations hold of payloads of the lengths
\* the blocks want.
ASSUME CoordinatorAssumption ==
    /\ W \in Nat \ {0} /\ LAST \in Nat \ {0} /\ Frames \in [0..W -> Seq(Block)]
    /\ \A b \in Block : \E i \in 0..W : b \in ToSet(Frames[i])
    /\ \A i, j \in 0..W : \A o \in DOMAIN Frames[i], p \in DOMAIN Frames[j] :
          Frames[i][o] = Frames[j][p] => i = j /\ o = p
    /\ Len(Frames[0]) = 1 /\ Windowed \subseteq Block \ (ToSet(Frames[0]) \cup {LAST})
    /\ First \in 1..W /\ Carrier \in Seq(1..W) /\ First \notin ToSet(Carrier)
    /\ \A i, j \in DOMAIN Carrier : Carrier[i] = Carrier[j] => i = j
    /\ Room \in [ToSet(Carrier) -> Nat \ {0}]
    /\ Bytestring(Program) /\ Filled[Len(Carrier)] < Len(Program)
    /\ Statements \subseteq [Windowed -> {0, 1} \X {0, 1}]
    /\ \A b \in Block : \A x \in Payload[b] : Bytestring(x)
    /\ \A x \in Quotient \cup Foreign : Bytestring(x)
    /\ \A c \in Coins : Bytestring(c) /\ Len(c) = W /\ \A w \in 1..W : Bytestring(c[w])
    /\ \A r \in Relation :
          Len(r[3]) = QUOTIENT /\ \A b \in Block : Len(r[2][b]) = OwnLength(r[1], b)

\* The unlocking bytecode of input i: what it pushes, the redeem script last.
Frame(b) ==
    IF b \in DOMAIN frames THEN Push(frames[b].payload) \o Push(frames[b].eval) ELSE <<>>
Own(i) == Joined([o \in DOMAIN Frames[i] |-> Frame(Frames[i][o])])
Bytes(i) ==
    IF i = 0
    THEN Push(opening.header) \o Push(opening.statement)
            \o Own(0) \o Push(opening.quotient) \o Push(RootRedeem)
    ELSE Own(i) \o Push(opening.redeem[i])

\* The frames of an input: a payload push and an evaluation push per block.
FramesOf(i) == IF i = 0 THEN Drops(Bytes(0), ARGUMENTS) ELSE Bytes(i)
After(raw, n) == Drops(raw, n + 1 + EVAL + 1)
ReadAt(raw, n) ==
    [payload |-> SubSeq(raw, 2, n + 1), eval |-> SubSeq(raw, n + 3, n + 2 + EVAL)]

\* The length a push says it has.
Width(raw) == IF raw # <<>> /\ raw[1][1] = "byte" THEN raw[1][2] ELSE 0
SkipFrame(raw) == After(raw, Width(raw))

-----------------------------------------------------------------------------
(* The blocks.  Worker scripts read header and statement from input 0.      *)

Header == SubSeq(Bytes(0), 2, HEADER + 1)
StatementRead == Bytes(0)[ARGUMENTS][2]

\* The raw bytes when n frames are skipped.
Skipped(frame1, n) ==
    LET raw[o \in 0..n] == IF o = 0 THEN frame1 ELSE SkipFrame(raw[o - 1])
    IN  raw[n]

\* Mutant: the frames before it are not skipped.
FrameAtFirst(b) == FramesOf(InputOf(b))
\* Where block b's frame starts for the block after it, in another input, and
\* what that block reads there: a Regular block goes by the length pushed, the
\* others by the digits.
FrameAt(b) == Skipped(FramesOf(InputOf(b)), Ordinal(b) - 1)
LoadPredecessor(s, b) ==
    ReadAt(FrameAt(b), IF b + 1 \in Windowed THEN Width(FrameAt(b)) ELSE OwnLength(s, b))

\* In one input the frame is still on the stack.
Predecessor(s, b) ==
    IF b = 1 THEN [payload |-> <<>>, eval |-> <<Evaluation(<<>>)>>]
    ELSE IF InputOf(b - 1) = InputOf(b) THEN frames[b - 1] ELSE LoadPredecessor(s, b - 1)

\* The running relation total, as the data of the relations added to it; a
\* read that is no such total counts as an empty one.
Links(eval) == IF eval # <<>> /\ eval[1][1] = "eval" THEN eval[1][2] ELSE <<>>
Absorb(b, payload) ==
    LET before == Predecessor(StatementRead, b)
        link == [statement |-> StatementRead, beta |-> Header[3], alpha |-> Header[4],
                 state |-> before.payload, payload |-> payload]
    IN  <<Evaluation(Append(Links(before.eval), link))>>

BlockPasses(b) ==
    /\ Len(frames[b].payload) = OwnLength(StatementRead, b)
    /\ Len(frames[b].eval) = EVAL
    /\ frames[b].eval = Absorb(b, frames[b].payload)

-----------------------------------------------------------------------------
(* The coordinator.                                                          *)

\* Mutant: the lockings are only bound together.
BinderUnsized == Joined(coins) = Digest
\* Every worker coin is the P2SH coin of its own script.
Binder ==
    /\ \A w \in 1..W : Len(coins[w]) = LOCKING
    /\ Joined(coins) = Digest

FrameGuard ==
    Len(Bytes(0)) = ARGUMENTS + (FIXED + 1) + (EVAL + 1) + (QUOTIENT + 1) + 1 + Len(RootRedeem)

\* The code it runs: the last bytes of an unlocking are its redeem script.
RedeemOf(w) == Drops(Bytes(w), Len(Bytes(w)) - Len(Redeem(w)))
Load(w, n) == SubSeq(RedeemOf(w), 2, n + 1)
Imported ==
    Joined([j \in DOMAIN Carrier |-> Load(Carrier[j], Len(Page(j)))])
        \o Load(First, Len(Overflow))

\* Mutant: the second public input is forgotten.
BlockLengthOfOne(s, b) ==
    IF b \notin Windowed THEN FIXED ELSE IF s[b][1] = 0 THEN SHORT ELSE LONG
\* A length from the sum of the digits, and the frames found with it.
BlockLength(s, b) ==
    IF b \notin Windowed THEN FIXED ELSE IF s[b][1] + s[b][2] = 0 THEN SHORT ELSE LONG
Measured(s, blocks, frame1, n) ==
    LET raw[o \in 0..n] ==
          IF o = 0 THEN frame1 ELSE After(raw[o - 1], BlockLength(s, blocks[o]))
    IN  raw[n]
RawInput(s, b) ==
    Measured(s, Frames[InputOf(b)], FramesOf(InputOf(b)), Ordinal(b) - 1)
Committed(s, b) == ReadAt(RawInput(s, b), BlockLength(s, b)).payload
Framed(s, b) ==
    LET raw == RawInput(s, b)  n == BlockLength(s, b)
    IN  Len(raw) >= n + 2 /\ raw[1] = Byte(n) /\ raw[n + 2] = Byte(EVAL)

Root(s, payloads) == HashOf("root", <<s, payloads>>)
QuotientRead == SubSeq(After(FramesOf(0), FIXED), 2, QUOTIENT + 1)

\* The delegated program: frames, commitment, challenges.
Delegated ==
    LET h == opening.header  s == opening.statement[1][2]
    IN  /\ Len(h) = HEADER /\ Len(opening.statement) = STATEMENT
        /\ \A b \in Block : Framed(s, b)
        /\ h[1] = Root(s, [b \in Block |-> Committed(s, b)])
        /\ h[2] = HashOf("qroot", QuotientRead)
        /\ h[3] = HashOf("beta", h[1])
        /\ h[4] = HashOf("alpha", <<h[1], h[2]>>)

\* The final total against the quotient.  The equation decides the relations
\* when the challenges were drawn after everything it is about; otherwise who
\* writes the transaction may know a solution.
FinalTotal == Links(LoadPredecessor(StatementRead, LAST).eval)
Drawn(links, quotient) ==
    LET root == Root(links[1].statement, [b \in Block |-> links[b].payload])
    IN  /\ Len(links) = LAST
        /\ \A b \in 2..LAST : links[b].state = links[b - 1].payload
        /\ \A b \in Block :
            /\ links[b].statement = links[1].statement
            /\ links[b].beta = HashOf("beta", root)
            /\ links[b].alpha = HashOf("alpha", <<root, HashOf("qroot", quotient)>>)
QuotientPasses ==
    /\ Len(opening.quotient) = QUOTIENT
    /\ Drawn(FinalTotal, opening.quotient) =>
        <<FinalTotal[1].statement, [b \in Block |-> FinalTotal[b].payload],
          opening.quotient>> \in Relation

\* Code that is not the coordinator's may do anything.
RootPasses ==
    /\ FrameGuard /\ Binder
    /\ \A w \in 1..W : Len(Bytes(w)) >= Len(Redeem(w))
    /\ Imported = Program =>
        /\ Delegated /\ QuotientPasses
        /\ \A b \in ToSet(Frames[0]) : BlockPasses(b)

-----------------------------------------------------------------------------
(* The transaction.                                                          *)

\* A P2SH coin wants the script it commits to and runs it; any other coin can
\* be spent at will, and so can one locked with somebody else's script.
Spendable(w, redeem) ==
    Len(coins[w]) = LOCKING /\ coins[w][1] = <<"op_hash256">> => coins[w] = P2sh(redeem)
WorkerPasses(w) ==
    \A v \in 1..W : coins[w] = P2sh(Redeem(v)) =>
        v = w /\ \A b \in ToSet(Frames[w]) : BlockPasses(b)

CoordinatorInit ==
    /\ coins \in Coins
    /\ opening = NONE /\ frames = <<>> /\ verdict = "none"

\* Somebody starts a transaction: the arguments of input 0, the redeem scripts.
\* The challenges may be the ones of what the header commits to, or invented.
Open ==
    /\ opening = NONE
    /\ \E s \in Statements, committed \in Opened, q, pushed \in Quotient,
          redeem \in [1..W -> {Redeem(w) : w \in 1..W} \cup Foreign] :
        LET root == Root(committed[1], committed[2])
            qroot == HashOf("qroot", q)
        IN  /\ \A w \in 1..W : Spendable(w, redeem[w])
            /\ \E beta \in {HashOf("beta", root), Byte(0)},
                  alpha \in {HashOf("alpha", <<root, qroot>>), Byte(0)} :
                opening' = [header |-> <<root, qroot, beta, alpha>>,
                            statement |-> <<<<"statement", s>>>>,
                            quotient |-> pushed, redeem |-> redeem]
    /\ UNCHANGED <<coins, frames, verdict>>

\* The next block's frame, with the total of this payload or of another.
PushFrame ==
    LET b == Len(frames) + 1
    IN  /\ opening # NONE /\ b <= LAST
        /\ \E payload, other \in Payload[b] :
            frames' = Append(frames, [payload |-> payload, eval |-> Absorb(b, other)])
        /\ UNCHANGED <<coins, opening, verdict>>

\* Every input's script runs; one that fails fails the transaction.
Submit ==
    /\ Len(frames) = LAST /\ verdict = "none"
    /\ verdict' = IF RootPasses /\ \A w \in 1..W : WorkerPasses(w) THEN "accepted" ELSE "rejected"
    /\ UNCHANGED <<coins, opening, frames>>

CoordinatorNext == Open \/ PushFrame \/ Submit
CoordinatorSpec == CoordinatorInit /\ [][CoordinatorNext]_coordinatorVars
-----------------------------------------------------------------------------
Stated == opening.statement[1][2]
Payloads == [b \in Block |-> frames[b].payload]

\* An accepted transaction states something true: the challenges were drawn
\* from the very bytes the workers computed on, statement included.
VerdictIsTrue ==
    verdict = "accepted" => \E r \in Relation : r[1] = Stated

\* An accepted transaction ran the coordinator's code and every worker's:
\* nobody else's script stood in a worker's place, and the pages were read
\* from redeem scripts and not from data.
CodeIsTheProgram ==
    verdict = "accepted" =>
        /\ Imported = Program
        /\ \A w \in 1..W : opening.redeem[w] = Redeem(w)

\* The transaction of an honest prover is accepted, whichever windows are zero.
HonestIsAccepted ==
    /\ verdict # "none"
    /\ <<Stated, Payloads, opening.quotient>> \in Relation
    /\ \A w \in 1..W : coins[w] = P2sh(Redeem(w))
    /\ \A b \in Block : frames[b].eval = Absorb(b, frames[b].payload)
    /\ LET root == Root(Stated, Payloads)  qroot == HashOf("qroot", opening.quotient)
       IN  opening.header = <<root, qroot, HashOf("beta", root), HashOf("alpha", <<root, qroot>>)>>
    => verdict = "accepted"
===============================================================================
