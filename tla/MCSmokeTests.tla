---------------------------- MODULE MCSmokeTests ----------------------------
(***************************************************************************)
(* The smoke tests with a few messages, and more of them than a poll gives *)
(* pipeline-smoke at a time.                                               *)
(***************************************************************************)
EXTENDS SmokeTests, TLC

ASSUME DrainTakesSeveralPolls == PollMax < SerialN + BulkN + BurstN
=============================================================================
