---------------------------- MODULE MCActivation ----------------------------
(* Activation with a minor fault (no communication) and a major one        *)
(* (overcurrent).                                                          *)
EXTENDS Activation

MCFaults == {9, 14}
=============================================================================
