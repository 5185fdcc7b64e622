------------------------------- MODULE MCSite -------------------------------
(* Small instances of the pipeline with its pages for TLC. *)
EXTENDS Site, TLC

(* Sound for a safety run: no definition tells one worker from another. *)
Symmetry == Permutations(Workers)
=============================================================================
