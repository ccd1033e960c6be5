-------------------------------- MODULE MCSmt --------------------------------
(***************************************************************************)
(* A tree of depth 3.  Six of the eight keys occur, among them pairs that  *)
(* are siblings at each level, so bitmaps with gaps, full and empty occur. *)
(***************************************************************************)
EXTENDS Smt

MCKeys == {0, 1, 2, 4, 6, 7}
=============================================================================
