------------------------------- MODULE MCConn -------------------------------
(* Small instances of Conn for TLC. *)
EXTENDS Conn
=============================================================================
