---------------------------- MODULE MCTaskQueue ----------------------------
(***************************************************************************)
(* One container being created: task 1 brings its data (slow, reports      *)
(* progress, may be retried), task 2 creates it (executed by the loop      *)
(* itself) and task 3 is the delayed retry of task 1, or a follow-up.      *)
(***************************************************************************)
EXTENDS TaskQueue

MCTask == 1..3
MCSlow == {1, 3}
MCReporting == {1, 3}
MCDelayed == {3}
MCOwned == 1..3
MCCreates == {2}
MCBlocking == 1..3
MCRetryable == {1}
=============================================================================
