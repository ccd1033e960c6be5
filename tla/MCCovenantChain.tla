--------------------------- MODULE MCCovenantChain ---------------------------
(***************************************************************************)
(* Three chunks; the bad statement gets as far as the last one.            *)
(***************************************************************************)
EXTENDS CovenantChain

CONSTANTS good, bad, a, b, x, y, ha, hb, hx, hy

MCStart == [s \in {good, bad} |-> IF s = good THEN {a} ELSE {x}]
MCStep == [k \in 1..1 |-> {<<a, b>>, <<x, y>>}]
MCHash == [s \in State |->
    CASE s = a -> ha [] s = b -> hb [] s = x -> hx [] s = y -> hy]

Nft(cap, lock, ft) == [lock |-> lock, nft |-> cap, commit |-> Empty, ft |-> ft]

\* One baton, with a fungible token of the category on it, or on an output
\* of anybody's.
MCIssue == {<<Nft("minting", Genesis, 1)>>,
            <<Nft("minting", Genesis, 0), Nft("none", FREE, 1)>>}
===============================================================================
