--------------------------- MODULE MCThreadXImage ---------------------------
(* ThreadXImage on a small instance.                                       *)
EXTENDS ThreadXImage
=============================================================================
