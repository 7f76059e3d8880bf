------------------------------- MODULE MCPfifo -------------------------------
(* Pfifo for TLC. *)
EXTENDS Pfifo
=============================================================================
