---------------------------- MODULE MCCompaction ----------------------------
(***************************************************************************)
(* A small instance of Compaction for TLC: two runs and a loader.          *)
(***************************************************************************)
EXTENDS Compaction, TLC

\* The runs are alike, and no property is about liveness.
RunSymmetry == Permutations(Runs)
=============================================================================
