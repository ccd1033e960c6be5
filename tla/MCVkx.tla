------------------------------- MODULE MCVkx -------------------------------
(* The curve y^2 = x^3 + 2 over F_13, of 19 points.  One key whose IC2 is a *)
(* multiple of IC1 that makes window sums meet their opposite, another of   *)
(* equal IC1 and IC2, whose IC0 is opposite to IC1; inputs 0, 1, -1 and two *)
(* more (the two loops: all inputs, and chunks that do not divide the bits).*)
EXTENDS TwoLoop

MC_BASE == <<1, 4>>
MC_VKS == {<<3, 1, 2>>, <<18, 1, 1>>}
MC_INPUTS == {0, 1, 7, 9, 18}
MC_OFFERED == -1..GLV_BOUND
=============================================================================
