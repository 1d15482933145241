--------------------------- MODULE MCDistribution ---------------------------
(***************************************************************************)
(* Small instances of Distribution for TLC.                                *)
(***************************************************************************)
EXTENDS Distribution
=============================================================================
