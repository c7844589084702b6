------------------------------ MODULE MCAsync ------------------------------
(* The instances TLC checks of AsyncInference.                              *)
EXTENDS AsyncInference

=============================================================================
