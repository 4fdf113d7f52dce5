----------------------------- MODULE MCSendFile -----------------------------
(* TLC instances of SendFile. *)
EXTENDS SendFile, TLC

=============================================================================
