--------------------------- MODULE MCSegmentBuilder ---------------------------
(***************************************************************************)
(* Small instances of SegmentBuilder: ticks every 2 s, a gap beyond 3 s, a *)
(* segment cut at 4 s, and a horizon long enough for a cut, a sleep and a  *)
(* restart in one run.                                                     *)
(***************************************************************************)
EXTENDS SegmentLedger

Symmetry == Permutations(App)
=============================================================================
