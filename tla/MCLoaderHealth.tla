--------------------------- MODULE MCLoaderHealth ---------------------------
(***************************************************************************)
(* Small instances of LoaderHealth for TLC.                                *)
(***************************************************************************)
EXTENDS LoaderHealth

\* An empty frame makes no entry; two frames of two bars span a batch of three.
EmptyOrTwoBars == {0, 2}
=============================================================================
