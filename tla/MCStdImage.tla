----------------------------- MODULE MCStdImage -----------------------------
(* StdImage on a small instance.                                           *)
EXTENDS StdImage
=============================================================================
