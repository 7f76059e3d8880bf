------------------------------ MODULE MCPfifoRec ------------------------------
(* PfifoRec for TLC. *)
EXTENDS PfifoRec
=============================================================================
