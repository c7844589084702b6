------------------------------ MODULE MCSentry ------------------------------
(* The instance TLC checks of SentryStrategy.                               *)
EXTENDS SentryStrategy

=============================================================================
