------------------------------- MODULE Verifier -------------------------------
(***************************************************************************)
(* What a chunked verifier promises, however its chunks are laid out over  *)
(* inputs and transactions: a statement is accepted only when some run of  *)
(* all its chunks, in order and on matching states, accepts it.            *)
(***************************************************************************)
EXTENDS Chunks

VARIABLE verdicts   \* the statements accepted so far

Init == verdicts = {}

\* The verdicts of one transaction.
Judge(S) ==
    /\ S \subseteq {s \in Statement : Verified(s)}
    /\ verdicts' = verdicts \cup S

Next == \E S \in SUBSET Statement : Judge(S)
Spec == Init /\ [][Next]_verdicts
===============================================================================
