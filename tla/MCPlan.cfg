CONSTANTS
  OPS = 6
  COSTS = {2, 3, 5}
  FIXED = 1
  DISCOUNT = 2
  OP_TARGET = 7
  PER_INPUT_OV = 1
  TARGET = 14
SPECIFICATION PlanSpec
INVARIANTS FewestTransactions BoundSpansTogether
\* The last group ends the build.
CHECK_DEADLOCK FALSE
