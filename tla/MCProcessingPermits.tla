------------------------- MODULE MCProcessingPermits -------------------------
(* Instances of ProcessingPermits small enough for TLC. *)
EXTENDS ProcessingPermits, TLC

(* Workers and jobs are interchangeable in the safety runs. *)
Symmetric == Permutations(Workers) \cup Permutations(Jobs)
=============================================================================
