----------------------------- MODULE MCCallClient ---------------------------
(***************************************************************************)
(* Model values for the runs of module CallClient.                         *)
(***************************************************************************)
EXTENDS CallClient, TLC

CONSTANTS c1, c2, c3

FiveStreams == 1 .. 5

(* c1 is a createTopic with all its settings, the others make one request. *)
OneIsCreateTopic == [c \in Callers |-> IF c = c1 THEN 3 ELSE 1]
=============================================================================
