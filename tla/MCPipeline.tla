----------------------------- MODULE MCPipeline -----------------------------
(***************************************************************************)
(* Model values and symmetry for the runs of module Pipeline.              *)
(***************************************************************************)
EXTENDS Pipeline, TLC

(* The requests are interchangeable: safety runs only.                     *)
RequestSymmetry == Permutations(Requests)
=============================================================================
