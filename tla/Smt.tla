--------------------------------- MODULE Smt ---------------------------------
(***************************************************************************)
(* The nullifier set as W's script sees it (w/wcov.mjs smtCode): a root,   *)
(* and a spender who sends a key's path in compressed form.  The script    *)
(* walks the path twice at once, from an absent leaf to a root that must   *)
(* be W's, and from a present leaf to the new root; below the first sent   *)
(* sibling it hashes only the second chain.                                *)
(*                                                                         *)
(* 8-byte fields are DEPTH bits wide, and the spender may send any bitmap, *)
(* any L and any siblings.                                                 *)
(***************************************************************************)
EXTENDS Merkle, Sequences, FiniteSets, Functions

CONSTANTS
    DEPTH,      \* 64
    Keys        \* the keys nullifiers hash to

ASSUME KeyAssumption == DEPTH \in Nat \ {0} /\ Keys \subseteq 0 .. Two[DEPTH] - 1

VARIABLES
    nfRoot,     \* what W commits to
    spent,      \* history: the keys of the withdrawals accepted
    accepted,   \* history: how many withdrawals were accepted
    last        \* history: the key and the witness of the last one
vars == <<nfRoot, spent, accepted, last>>

\* The present leaf; the absent one is Z, which no SHA-256 is.
ONE == <<Z>>
H(l, r) == IF l = Z /\ r = Z THEN Z ELSE Pair(l, r)
\* The two children in order, x on the path of a key whose bit is d.
Ordered(d, x, sib) == IF d = 1 THEN Pair(sib, x) ELSE Pair(x, sib)

(***************************************************************************)
(* The set, as the JS reference stores it: node l, i covers the keys k     *)
(* with Shift(k, l) = i.                                                   *)
(***************************************************************************)
Node(S) ==
    LET N[l \in 0 .. DEPTH] ==
          IF l = 0 THEN [i \in 0 .. Two[DEPTH] - 1 |-> IF i \in S THEN ONE ELSE Z]
          ELSE [i \in 0 .. Two[DEPTH - l] - 1 |-> H(N[l - 1][2 * i], N[l - 1][2 * i + 1])]
    IN  N
RootOf(S) == Node(S)[DEPTH][0]

Sibling(S, K, l) ==
    LET i == Shift(K, l) IN Node(S)[l][IF i % 2 = 0 THEN i + 1 ELSE i - 1]

\* SMT.path: the siblings that are not Z, level 0 first, the bitmap of their
\* levels and the lowest of these (DEPTH if none).  P[l] is what levels l and
\* up give, with bit l of the bitmap as its lowest.
PathFrom(S, K) ==
    LET P[l \in 0 .. DEPTH] ==
          IF l = DEPTH THEN [B |-> 0, L |-> DEPTH, S |-> <<>>]
          ELSE IF Sibling(S, K, l) = Z
          THEN [B |-> 2 * P[l + 1].B, L |-> P[l + 1].L, S |-> P[l + 1].S]
          ELSE [B |-> 2 * P[l + 1].B + 1, L |-> l, S |-> <<Sibling(S, K, l)>> \o P[l + 1].S]
    IN  P
Path(S, K) == PathFrom(S, K)[0]

(***************************************************************************)
(* smtCode.  L is right iff B + 2^DEPTH ends in exactly L zero bits.       *)
(***************************************************************************)
LowBit(B, L) ==
    /\ L \in 0 .. DEPTH
    /\ (B + Two[DEPTH]) % Two[L] = 0 /\ Bit(B + Two[DEPTH], L) = 1

\* Loop A, one level: q holds the two chains and the siblings left; the sibling is
\* Z, and only the new chain is hashed.
LevelA(q, l, K) == [ok |-> q.ok, O |-> q.O, N |-> Ordered(Bit(K, l), q.N, Z), S |-> q.S]

\* Loop B, one level: a sibling is taken if its bit is set, and then it must be
\* there and must not be Z.
\* Mutants: a sent sibling may be Z; the old chain skips empty levels.
LevelAnySibling(q, l, K, B) ==
    LET taken == Bit(B, l) = 1
        sib   == IF taken /\ q.S # <<>> THEN Head(q.S) ELSE Z
    IN  [ok |-> q.ok /\ (taken => q.S # <<>>),
         O  |-> Ordered(Bit(K, l), q.O, sib),
         N  |-> Ordered(Bit(K, l), q.N, sib),
         S  |-> IF taken /\ q.S # <<>> THEN Tail(q.S) ELSE q.S]
LevelOldStays(q, l, K, B) ==
    LET taken == Bit(B, l) = 1
        sib   == IF taken /\ q.S # <<>> THEN Head(q.S) ELSE Z
    IN  [ok |-> q.ok /\ (taken => q.S # <<>> /\ sib # Z),
         O  |-> IF taken THEN Ordered(Bit(K, l), q.O, sib) ELSE q.O,
         N  |-> Ordered(Bit(K, l), q.N, sib),
         S  |-> IF taken /\ q.S # <<>> THEN Tail(q.S) ELSE q.S]

LevelB(q, l, K, B) ==
    LET taken == Bit(B, l) = 1
        sib   == IF taken /\ q.S # <<>> THEN Head(q.S) ELSE Z
    IN  [ok |-> q.ok /\ (taken => q.S # <<>> /\ sib # Z),
         O  |-> Ordered(Bit(K, l), q.O, sib),
         N  |-> Ordered(Bit(K, l), q.N, sib),
         S  |-> IF taken /\ q.S # <<>> THEN Tail(q.S) ELSE q.S]

\* The walk of a witness, level by level: whether it is well formed so far, and
\* the two chains.
Chains(K, B, L, S) ==
    LET q[l \in 0 .. DEPTH] ==
          IF l = 0 THEN [ok |-> TRUE, O |-> Z, N |-> ONE, S |-> S]
          ELSE IF l <= L THEN LevelA(q[l - 1], l - 1, K)
          ELSE LevelB(q[l - 1], l - 1, K, B)
    IN  q
Walk(K, B, L, S) == Chains(K, B, L, S)[DEPTH]
\* Mutant: the old root is not compared.
AcceptsAnyRoot(root, K, B, L, S) ==
    LowBit(B, L) /\ Walk(K, B, L, S).ok /\ Walk(K, B, L, S).S = <<>>
Accepts(root, K, B, L, S) ==
    /\ LowBit(B, L)
    /\ LET q == Walk(K, B, L, S) IN q.ok /\ q.S = <<>> /\ q.O = root

(***************************************************************************)
(* A withdrawal, as far as nfRoot goes: any witness that W accepts.        *)
(***************************************************************************)
\* What a spender can send: nodes of the tree, leaves, and hashes of nothing.
Sendable ==
    {Z, ONE, Pair(Z, Z)} \cup UNION {Range(Node(spent)[l]) : l \in 0 .. DEPTH - 1}

Init ==
    /\ nfRoot = Z
    /\ spent = {}
    /\ accepted = 0
    /\ last = <<>>

Insert(K) ==
    \E B \in 0 .. Two[DEPTH] - 1, L \in 0 .. DEPTH, n \in 0 .. DEPTH :
        /\ LowBit(B, L)
        /\ \E S \in [1 .. n -> Sendable] :
              /\ Accepts(nfRoot, K, B, L, S)
              /\ nfRoot' = Walk(K, B, L, S).N
              /\ last' = [K |-> K, B |-> B, L |-> L, S |-> S]
        /\ spent' = spent \cup {K}
        /\ accepted' = accepted + 1

Next == \E K \in Keys : Insert(K)
Spec == Init /\ [][Next]_vars
-----------------------------------------------------------------------------
\* SOUNDNESS-T9 L2: the root W commits to is that of the set of keys paid,
\* whatever bitmap and siblings the spenders sent, and every withdrawal that was
\* accepted added a key to it: no witness makes a present key look absent.
RootIsTheSet == nfRoot = RootOf(spent) /\ accepted = Cardinality(spent)

\* w/smt.mjs: one encoding.  The witness of the last withdrawal is the path the
\* reference computes, so a third party cannot vary it.
OneEncoding ==
    last # <<>> =>
        LET p == Path(spent \ {last.K}, last.K)
        IN  last.B = p.B /\ last.L = p.L /\ last.S = p.S

\* The reference's path of an absent key is always accepted, and gives the root
\* with that key added: no spender of a fresh note is refused.
PathIsAccepted ==
    \A K \in Keys \ spent :
        LET p == Path(spent, K)
        IN  /\ Accepts(nfRoot, K, p.B, p.L, p.S)
            /\ Walk(K, p.B, p.L, p.S).N = RootOf(spent \cup {K})
=============================================================================
