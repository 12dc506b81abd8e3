--------------------------- MODULE MCProduceClient --------------------------
(***************************************************************************)
(* Model values for the runs of module ProduceClient.                      *)
(***************************************************************************)
EXTENDS ProduceClient, TLC

CONSTANTS c1, c2, c3

ThreePipes == 1 .. 3
FivePipes == 1 .. 5

(* c1 and c3 are interchangeable: both without a sequence number.          *)
CallerSymmetry == Permutations(Callers \ Idempotent)
=============================================================================
