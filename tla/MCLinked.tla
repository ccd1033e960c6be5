------------------------------- MODULE MCLinked -------------------------------
(***************************************************************************)
(* Four chunks.  The statements differ in the static part of the state,    *)
(* which only the last chunk judges.                                       *)
(***************************************************************************)
EXTENDS Linked

CONSTANTS good, bad, a, b, c, p, q, C, D

St(d, s) == [dyn |-> d, stat |-> s]
MCState == [dyn : {a, b, c}, stat : {p, q}]
MCStart == [s \in {good, bad} |-> {St(a, IF s = good THEN p ELSE q)}]
MCStep == [k \in 1..2 |->
    {<<St(IF k = 1 THEN a ELSE b, s), St(IF k = 1 THEN b ELSE c, s)>> : s \in {p, q}}]
MCAccept == {St(c, p)}
MCCommitment == {<<"hash256", s>> : s \in State}
MCHash == [s \in State |-> <<"hash256", s>>]

Plain(k) == [lock |-> k, cat |-> NoCat, nft |-> "none", commit |-> Empty]
Nft(k, cat, nft, com) == [lock |-> k, cat |-> cat, nft |-> nft, commit |-> com]

Plains == {Plain(k) : k \in Lock}

\* intratx: one group; the last two chunks borrow the static state.
OneGroup ==
    [groups |-> 1, groupOf |-> [k \in 0..3 |-> 0], indexed |-> {3},
     carrier |-> 1, borrows |-> {2, 3},
     issue |-> {<<Plain(0), Plain(1), Plain(2), Plain(3), Plain(FREE), Plain(FREE)>>},
     offered |-> Plains, maxIn |-> 4, maxOuts |-> 1]

\* grouped: two groups of two, a thread at the first root, and minting NFTs
\* of its category or of another one at a later chunk.  Others put plain outputs
\* anywhere and NFTs of either category where the second group starts, with the
\* state of the bad statement or the good one.
TwoGroups ==
    [groups |-> 2, groupOf |-> [k \in 0..3 |-> k \div 2], indexed |-> {0, 2},
     carrier |-> 1, borrows |-> {},
     issue |->
        {<<Nft(0, C, "mutable", Empty), Plain(1), Nft(1, m, "minting", Empty), Plain(3),
           Nft(2, C, "mutable", Hash[St(b, p)])>> : m \in {C, D}},
     offered |->
        Plains \cup {Nft(2, m, nft, Hash[St(b, s)]) :
                         m \in {C, D}, nft \in {"mutable", "minting"}, s \in {p, q}},
     maxIn |-> 2, maxOuts |-> 2]

MCLayouts == {OneGroup, TwoGroups}
===============================================================================
