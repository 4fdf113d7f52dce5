---------------------------- MODULE MCConfigFile ----------------------------
(* TLC instances of ConfigFile. *)
EXTENDS ConfigFile, TLC

=============================================================================
