------------------------------- MODULE MCStores -------------------------------
(* Stores for TLC: three keys in two buckets, two of them colliding.  Items, *)
(* entries and authors are the same three addresses, so that one symmetry    *)
(* serves all three.                                                         *)
EXTENDS Stores, TLC

CONSTANTS t1, t2, k1, k2, k3

MCThread == {t1, t2}
MCKey == {k1, k2, k3}
MCHashOf == k1 :> 0 @@ k2 :> 0 @@ k3 :> 1

Locked == [threads |-> {t1, t2}, lockFails |-> FALSE]
Alone(t) == [threads |-> {t}, lockFails |-> TRUE]
MCModes == {Locked, Alone(t1), Alone(t2)}

\* Threads, and keys of one bucket, are interchangeable too.
Symmetry ==
    Permutations(Item) \cup Permutations({t1, t2}) \cup Permutations({k1, k2})
=============================================================================
