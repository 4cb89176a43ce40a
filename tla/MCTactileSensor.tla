--------------------------- MODULE MCTactileSensor ---------------------------
(* TactileSensor on small instances; the constants are in the .cfg files.  *)
EXTENDS TactileSensor
=============================================================================
