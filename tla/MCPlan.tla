------------------------------- MODULE MCPlan -------------------------------
(* Six operations of cost 2, 3 or 5, windows of one to three operations, a  *)
(* terminal chunk cheaper by as much as the cheapest operation; three or    *)
(* fewer chunks fit a transaction.                                          *)
EXTENDS Groups
=============================================================================
