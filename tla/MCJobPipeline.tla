---------------------------- MODULE MCJobPipeline ----------------------------
(* Instances of JobPipeline small enough for TLC. *)
EXTENDS JobPipeline, TLC

(* Identifiers of jobs, and of workers, are interchangeable. *)
Symmetric == Permutations(Workers) \cup Permutations(Jobs)
=============================================================================
