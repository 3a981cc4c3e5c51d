------------------------------ MODULE MCLoader ------------------------------
(***************************************************************************)
(* Small instances of Loader for TLC.                                      *)
(***************************************************************************)
EXTENDS Loader

\* Heartbeat-like empty frames, one-bar frames, frames that overfill a batch
\* of two, and frames that do not decode.
FramesWithPoison == {0, 1, 3, Poison}

FramesThatDecode == {0, 1, 3}
=============================================================================
