------------------------------ MODULE Groups ------------------------------
(***************************************************************************)
(* How the chunks of a verifier are packed in transactions (packGroups of  *)
(* src/chunked/grouped): greedily, as many chunks as fit the target size,  *)
(* but cut only where a chunk hands its whole state to the next unchanged  *)
(* and no binding crosses the cut: a chunk that reads the pushed bytes of  *)
(* another must be spent in the same transaction.  The chunks are those    *)
(* module Windows plans; what the transactions then check is module Linked.*)
(***************************************************************************)
EXTENDS Windows

CONSTANTS PER_INPUT_OV, \* bytes of an input besides its unlocking
          TARGET        \* bytes a transaction should have at most

ASSUME GroupsAssumption == PER_INPUT_OV \in Nat /\ TARGET \in Nat \ {0}

VARIABLES specs,    \* what the chunks hand on: in links, those whose out-state
                    \* is the next one's in-state; in span, the chunks a binding
                    \* ties, <<>> for none.  Itself <<>> before the plan is done
          groups    \* the last chunk of each group made

CHUNKS == Len(los) - 1
links  == specs.links
span   == specs.span

start == IF groups = <<>> THEN 1 ELSE groups[Len(groups)] + 1

(* Mutant: the cut right before the target of the binding is let through.  *)
BlockedButLast(i) == span # <<>> /\ i >= span[1] /\ i < span[2] - 1

blocked(i) == span # <<>> /\ i >= span[1] /\ i < span[2]
allowed(i) == i < CHUNKS /\ ~blocked(i) /\ i \in links

(* An input is padded until its bytes pay for its operations: its size is  *)
(* what its window costs.                                                  *)
size(i) == operationCost(los[i], los[i + 1])
filled == Totals(CHUNKS, [i \in 1..CHUNKS |-> size(i) + PER_INPUT_OV])
bytes(from, to) == filled[to] - filled[from - 1]

(* The first chunk that finds the group too long and a cut behind it.      *)
overflows(i) ==
  /\ bytes(start, i) > TARGET
  /\ \E j \in start..i - 1 : allowed(j)

lastAllowed(i) ==
  CHOOSE j \in start..i - 1 : allowed(j) /\ \A h \in j + 1..i - 1 : ~allowed(h)

PlanInit == WindowsInit /\ specs = <<>> /\ groups = <<>>

(* The plan is done: its chunks, with any seams and any one binding.       *)
BuildSpecs ==
  /\ lo = OPS /\ specs = <<>>
  /\ \E L \in SUBSET (1..CHUNKS - 1),
        s \in {<<>>} \cup {c \in (1..CHUNKS) \X (1..CHUNKS) : c[1] < c[2]} :
       specs' = [links |-> L, span |-> s]
  /\ UNCHANGED <<planVars, groups>>

Cut(end) == groups' = Append(groups, end) /\ UNCHANGED <<planVars, specs>>

(* A group that would grow too long ends at the last cut passed.           *)
CloseGroup ==
  /\ specs # <<>>
  /\ \E i \in start..CHUNKS :
       /\ overflows(i) /\ \A j \in start..i - 1 : ~overflows(j)
       /\ Cut(lastAllowed(i))

(* The rest of the chunks, too long or not, if no cut comes in time.       *)
LastGroup ==
  /\ specs # <<>>
  /\ start <= CHUNKS
  /\ \A i \in start..CHUNKS : ~overflows(i)
  /\ Cut(CHUNKS)

PlanNext ==
  \/ PlanWindow /\ UNCHANGED <<specs, groups>>
  \/ BuildSpecs \/ CloseGroup \/ LastGroup

PlanSpec == PlanInit /\ [][PlanNext]_<<planVars, specs, groups>>

---------------------------------------------------------------------------
firstOf(g) == IF g = 1 THEN 1 ELSE groups[g - 1] + 1

(* Two chunks tied by a binding are spent in one transaction, and between  *)
(* two groups the whole state crosses: the thread NFT that carries it can. *)
BoundSpansTogether ==
  \A g \in DOMAIN groups :
    /\ firstOf(g) <= groups[g]
    /\ groups[g] < CHUNKS =>
         /\ groups[g] \in links
         /\ span # <<>> => ~(span[1] <= groups[g] /\ groups[g] < span[2])

(* A group from..to nobody could cut to make it fit, or that fits.         *)
Reasonable(from, to) ==
  bytes(from, to) <= TARGET \/ \A j \in from..to - 1 : ~allowed(j)

(* Every such group that begins behind a cut, or with the first chunk.     *)
reasonableGroups ==
  {g \in (0..CHUNKS) \X (1..CHUNKS) : (g[1] = 0 \/ allowed(g[1])) /\ Reasonable(g[1] + 1, g[2])}

(* The chunks and then the transactions are as few as can be: besides the  *)
(* windows, the groups are reasonable, and no other way to cut makes fewer,*)
(* although a group the seams leave too long is accepted.                  *)
FewestTransactions ==
  /\ FewestWindows
  /\ \A g \in DOMAIN groups : Reasonable(firstOf(g), groups[g])
  /\ specs # <<>> /\ start > CHUNKS => Len(groups) = Fewest(CHUNKS, reasonableGroups)[CHUNKS]
=============================================================================
