----------------------------- MODULE MCJobInputs -----------------------------
(***************************************************************************)
(* Small instances of JobInputs for TLC.                                   *)
(***************************************************************************)
EXTENDS JobInputs, TLC

JobSymmetry == Permutations(Requests)
=============================================================================
