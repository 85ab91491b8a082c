---------------------------- MODULE MCDataSync ----------------------------
(***************************************************************************)
(* Two syncs, with two faults: a task that is executed again after its     *)
(* report was lost, or one that is found stalled and reports after all.    *)
(***************************************************************************)
EXTENDS DataSync
=============================================================================
