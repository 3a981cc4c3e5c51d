----------------------------- MODULE MCLocalStack ----------------------------
(***************************************************************************)
(* Small instances of LocalStack for TLC.                                  *)
(***************************************************************************)
EXTENDS LocalStack, FiniteSets

CONSTANTS first, second, shared

\* --runtime-dir, or PIPELINE_RUNTIME_DIR
OneDirectory == [r \in Runs |-> shared]

OneOfEach == [r \in Runs |-> IF r = first THEN "synthetic" ELSE "fakepaca-wsr"]
=============================================================================
