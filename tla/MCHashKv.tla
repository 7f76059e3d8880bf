------------------------------- MODULE MCHashKv -------------------------------
(* HashKv for TLC: three keys in two buckets, two of them colliding. *)
EXTENDS HashKv, TLC

CONSTANTS t1, t2, k1, k2, k3

MCThread == {t1, t2}
MCKey == {k1, k2, k3}
MCHashOf == k1 :> 0 @@ k2 :> 0 @@ k3 :> 1

Locked == [threads |-> {t1, t2}, lockFails |-> FALSE]
Alone == [threads |-> {t1}, lockFails |-> TRUE]
Contended == [threads |-> {t1, t2}, lockFails |-> TRUE]
MCModes == {Locked, Alone}
FailingModes == {Contended}

\* Addresses are interchangeable.
Addresses == Permutations(Item)
=============================================================================
