----------------------------- MODULE MCScalarControl -----------------------------
(* A small instance of ScalarControl: the two settings that share a block.  *)
EXTENDS ScalarControl
=============================================================================
