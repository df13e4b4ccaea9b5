--------------------------- MODULE MCLedStateBuffer ---------------------------
(***************************************************************************)
(* LedStateBuffer for TLC: four slots, so that the indices wrap and three  *)
(* reports may wait, and two values of a report.                           *)
(***************************************************************************)
EXTENDS LedStateBuffer
=============================================================================
