--------------------------- MODULE ShieldedLedger ---------------------------
(***************************************************************************)
(* What the pool promises its users, without covenants, queue or ring: a   *)
(* list of accepted deposits, a growing part of it that is open for        *)
(* withdrawal, the nullifiers paid, and the sats held for note holders.    *)
(* One denomination comes in with each deposit and goes out with each      *)
(* nullifier paid, never twice for one nullifier and never before the      *)
(* deposit is open.                                                        *)
(***************************************************************************)
EXTENDS Integers, Sequences, Functions

CONSTANTS Leaf, Note, Nullifier, NfOf, DELTA

VARIABLES
    accepted,   \* every leaf deposited, in order
    open,       \* how many of them can be withdrawn
    paid,       \* the nullifiers paid
    custody     \* sats held for note holders

vars == <<accepted, open, paid, custody>>

Init ==
    /\ accepted = <<>>
    /\ open = 0
    /\ paid = {}
    /\ custody = 0

Accept(C) ==
    /\ accepted' = Append(accepted, C)
    /\ custody' = custody + DELTA
    /\ UNCHANGED <<open, paid>>

Open ==
    /\ open' \in open + 1 .. Len(accepted)
    /\ UNCHANGED <<accepted, paid, custody>>

Pay(n) ==
    /\ \E i \in 1 .. open : accepted[i] = n
    /\ NfOf[n] \notin paid
    /\ paid' = paid \cup {NfOf[n]}
    /\ custody' = custody - DELTA
    /\ custody' >= 0
    /\ UNCHANGED <<accepted, open>>

Next ==
    \/ \E C \in Leaf : Accept(C)
    \/ Open
    \/ \E n \in Note : Pay(n)

Spec == Init /\ [][Next]_vars
=============================================================================
