----------------------------- MODULE MCPipeline -----------------------------
(* Small instances of the pipeline for TLC. *)
EXTENDS PipelineInvariant, TLC

(* Sound for the safety runs: no definition tells one worker from another. *)
Symmetry == Permutations(Workers)
=============================================================================
