-------------------------------- MODULE Chunks --------------------------------
(***************************************************************************)
(* A Groth16 verification cut into N scripts.  Chunk 0 starts from the     *)
(* statement, chunk k in 1..N-2 takes the state of the one before, chunk   *)
(* N-1 gives the verdict.  A chunk is a relation: witnesses are pushed     *)
(* with the transaction and are not part of the state.                     *)
(***************************************************************************)
EXTENDS Integers

CONSTANTS
    N,          \* number of chunks
    Statement,  \* public inputs and proof tuples
    State,      \* what a chunk hands to the next
    Start,      \* Start[s]: the states chunk 0 may compute for s
    Step,       \* Step[k]: pairs <<before, after>> chunk k computes
    Accept      \* the states the last chunk accepts

ASSUME ChunksAssumption ==
    /\ N \in Nat /\ N >= 3
    /\ Start \in [Statement -> SUBSET State]
    /\ Step \in [1..(N - 2) -> SUBSET (State \X State)]
    /\ Accept \subseteq State

Genesis == 0
Terminal == N - 1

\* One whole computation for statement s: the states between the chunks.
Computes(s, tr) ==
    /\ tr[Genesis] \in Start[s]
    /\ \A k \in 1..(N - 2) : <<tr[k - 1], tr[k]>> \in Step[k]
    /\ tr[N - 2] \in Accept

Verified(s) == \E tr \in [0..(N - 2) -> State] : Computes(s, tr)
===============================================================================
