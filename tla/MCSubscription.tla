---------------------------- MODULE MCSubscription --------------------------
(***************************************************************************)
(* Model values for the runs of module Subscription.                       *)
(***************************************************************************)
EXTENDS Subscription, TLC

CONSTANTS m1, m2

ThreeConns == 1 .. 3
TwoLeases == 1 .. 2

MessageSymmetry == Permutations(Msgs)
=============================================================================
