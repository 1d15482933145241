----------------------------- MODULE MCPipeline -----------------------------
(***************************************************************************)
(* Small instances of Pipeline for TLC.                                    *)
(***************************************************************************)
EXTENDS Pipeline, TLC

\* Jobs are interchangeable, and so are the processes of each service.
JobSymmetry == Permutations(Jobs)
PipelineSymmetry ==
  Permutations(Jobs) \cup Permutations(Renderers) \cup Permutations(Distributors)

=============================================================================
