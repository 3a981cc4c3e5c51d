----------------------------- MODULE MCPipeline -----------------------------
(***************************************************************************)
(* A small instance of Pipeline for TLC.                                   *)
(***************************************************************************)
EXTENDS Pipeline

\* One bar, more than a batch of two, and a frame that does not decode.
SmallLargeAndPoison == {1, 3, Poison}
=============================================================================
