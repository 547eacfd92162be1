--------------------------- MODULE MCUnionReplay ---------------------------
(* The instance of UnionReplay for TLC is given by its configuration.       *)
EXTENDS UnionReplay
=============================================================================
