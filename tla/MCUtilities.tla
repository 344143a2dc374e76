---------------------------- MODULE MCUtilities ----------------------------
(* The two parts with the sets of Utilities.cfg.                              *)
EXTENDS Utilities
=============================================================================
