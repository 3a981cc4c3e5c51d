----------------------------- MODULE MCExtractor -----------------------------
(***************************************************************************)
(* Small instances of Extractor for TLC.                                   *)
(***************************************************************************)
EXTENDS Extractor
=============================================================================
