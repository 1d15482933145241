--------------------------- MODULE MCStreamWorker ---------------------------
(***************************************************************************)
(* Small instances of StreamWorker for TLC.                                *)
(***************************************************************************)
EXTENDS StreamWorker, TLC

\* Workers are interchangeable, and so are operators; messages are not.
WorkerSymmetry == Permutations(Workers)
OperatorSymmetry == Permutations(Operators)

=============================================================================
