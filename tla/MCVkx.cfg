CONSTANTS
  P = 13
  B = 2
  BASE <- MC_BASE
  N = 19
  ITERS = 4
  BITS = 5
  GROUPS = 2
  K = 2
  VKS <- MC_VKS
  INPUTS <- MC_INPUTS
  OFFERED <- MC_OFFERED
SPECIFICATION StageSpec
INVARIANTS EmittedIsVkx ReferenceIsAccepted AcceptsUnlessAbsorbed BestHalves
\* A chain ends with its last chunk.
CHECK_DEADLOCK FALSE
