----------------------------- MODULE Windows -----------------------------
(***************************************************************************)
(* How the generators cut a stage's operations into the windows the chunks *)
(* run (planChunk of src/chunked/pairing/_millermath.mjs and the loop of   *)
(* gen_miller.mjs): greedily, each window as long as its compiled chunk    *)
(* stays within the operation-cost target, starting the search at a length *)
(* predicted from the windows before, and measuring the terminal chunk,    *)
(* whose layout is cheaper, once more when the search stops just short.    *)
(* Compiling and measuring a candidate is external: here its cost is a     *)
(* fixed part, the operations' costs, and the discount of the terminal.    *)
(***************************************************************************)
EXTENDS Integers, Sequences, FiniteSetsExt

CONSTANTS OPS,        \* operations of the stage
          COSTS,      \* what one operation may cost
          FIXED,      \* cost of a chunk besides its operations
          DISCOUNT,   \* how much cheaper the terminal chunk is
          OP_TARGET   \* cost a chunk may have

(* Every operation fits a chunk of its own, and what the terminal chunk    *)
(* saves is at most an operation.                                          *)
ASSUME WindowsAssumption ==
  /\ OPS \in Nat \ {0} /\ {FIXED, DISCOUNT, OP_TARGET} \subseteq Nat
  /\ \A c \in COSTS : c \in Nat \ {0} /\ FIXED + c <= OP_TARGET /\ DISCOUNT <= c

VARIABLES cost,     \* of each operation
          los,      \* where the windows emitted so far start, and the next
          seeded    \* whether a window was measured to predict from

planVars == <<cost, los, seeded>>

lo == los[Len(los)]

(* What the first i of n items weigh, for each i.                          *)
Totals(n, weight) ==
  LET t[i \in 0..n] == IF i = 0 THEN 0 ELSE t[i - 1] + weight[i]
  IN  t

total == Totals(OPS, cost)
operationCost(from, to) ==
  FIXED + total[to] - total[from] - (IF to = OPS THEN DISCOUNT ELSE 0)

fits(from, to) == operationCost(from, to) <= OP_TARGET

(* The longest run of candidates that fit, counted up from one; its        *)
(* predecessor where that one does not.                                    *)
upFrom(hi) == CHOOSE h \in hi - 1..OPS : /\ \A i \in hi..h : fits(lo, i)
                                         /\ h = OPS \/ ~fits(lo, h + 1)

(* The first candidate that fits, counted down to one operation; lo where  *)
(* none does.                                                              *)
downFrom(hi) == CHOOSE h \in lo..hi : /\ h = lo \/ fits(lo, h)
                                      /\ \A i \in h + 1..hi : ~fits(lo, i)

(* Mutant: a prediction that fits is taken as it is.                       *)
PlanAsPredicted(guess) ==
  IF ~seeded THEN upFrom(lo + 1)
  ELSE IF fits(lo, guess) THEN guess ELSE downFrom(guess - 1)

(* The end of the window, lo for none: linear growth for the first window, *)
(* then the prediction adjusted up or down.                                *)
planChunk(guess) ==
  IF ~seeded THEN upFrom(lo + 1)
  ELSE IF fits(lo, guess) THEN upFrom(guess + 1) ELSE downFrom(guess - 1)

(* One operation short of the end, the terminal chunk is measured.         *)
merged(hi) == IF hi = OPS - 1 /\ fits(lo, OPS) THEN OPS ELSE hi

WindowsInit == cost \in [1..OPS -> COSTS] /\ los = <<0>> /\ seeded = FALSE

(* One turn of the planner's loop.  The prediction is a running average of *)
(* measured costs: any length.  Throws when no window fits.                *)
PlanWindow ==
  /\ lo < OPS
  /\ \E guess \in lo + 1..OPS :
       LET hi == merged(planChunk(guess))
       IN  hi > lo /\ los' = Append(los, hi)
  /\ seeded' = TRUE
  /\ UNCHANGED cost

---------------------------------------------------------------------------
(* The fewest parts the first i of n items can be cut in, when j+1..k may  *)
(* be a part where <<j, k>> is good; n + 1 where there is no way.          *)
Fewest(n, good) ==
  LET f[i \in 0..n] ==
        IF i = 0 THEN 0
        ELSE Min({1 + f[j] : j \in {k \in 0..i - 1 : <<k, i>> \in good}} \cup {n + 1})
  IN  f

fittingWindows == {w \in (0..OPS) \X (0..OPS) : fits(w[1], w[2])}

(* Whatever the predictions, the planner always finds a window, each one   *)
(* stays within the target, and the plan has as few as any cut of the      *)
(* operations: a chunk is a transaction, or an input, that somebody pays   *)
(* for.                                                                    *)
FewestWindows ==
  /\ lo < OPS => \A guess \in lo + 1..OPS : planChunk(guess) > lo
  /\ \A i \in 2..Len(los) : los[i - 1] < los[i] /\ fits(los[i - 1], los[i])
  /\ lo = OPS => Len(los) - 1 = Fewest(OPS, fittingWindows)[OPS]
=============================================================================
