-------------------------- MODULE MCReconcilerTick --------------------------
(***************************************************************************)
(* ReconcilerTick for TLC: five rows, of which two were waiting when the   *)
(* process started and one or three are orphans.                           *)
(***************************************************************************)
EXTENDS ReconcilerTick

MCRows == 1..5
=============================================================================
