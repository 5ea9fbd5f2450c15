-------------------------- MODULE MCGenerationJobs --------------------------
(* Instances of GenerationJobs for TLC: handlers and readers are            *)
(* interchangeable model values.                                           *)
EXTENDS GenerationSafety, TLC

Symmetry == Permutations(Handlers) \cup Permutations(Readers)
=============================================================================
