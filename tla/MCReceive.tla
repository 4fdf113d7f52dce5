----------------------------- MODULE MCReceive ------------------------------
(* TLC instances of Receive. *)
EXTENDS Receive, TLC

=============================================================================
