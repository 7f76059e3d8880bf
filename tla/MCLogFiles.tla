------------------------------ MODULE MCLogFiles ------------------------------
(* LogFiles for TLC: up to three log files and seven file numbers. *)
EXTENDS LogFiles

Careful == [sameMax |-> TRUE, killed |-> FALSE]
Any == [sameMax |-> FALSE, killed |-> TRUE]
MCModes == {Careful, Any}
=============================================================================
