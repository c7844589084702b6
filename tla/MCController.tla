---------------------------- MODULE MCController ----------------------------
(* The instances TLC checks of RolloutController: the constants are model   *)
(* values given in the .cfg files.                                          *)
EXTENDS RolloutController

=============================================================================
