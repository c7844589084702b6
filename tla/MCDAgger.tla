------------------------------ MODULE MCDAgger ------------------------------
(* An instance of DAggerStrategy on its own.                                *)
EXTENDS DAggerStrategy

=============================================================================
