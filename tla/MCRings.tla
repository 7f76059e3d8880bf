------------------------------- MODULE MCRings -------------------------------
(* Rings for TLC.  The bytes are only moved, never looked at. *)
EXTENDS Rings, TLC

Symmetry == Permutations(Value)
=============================================================================
