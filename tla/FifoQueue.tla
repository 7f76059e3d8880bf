------------------------------ MODULE FifoQueue ------------------------------
(***************************************************************************)
(* What every byte or element buffer of the library promises its users: a  *)
(* bounded first-in first-out queue.  Pfifo and Crb implement it.          *)
(***************************************************************************)
EXTENDS Integers, Sequences

CONSTANTS Value, Capacity

VARIABLES
    queue,  \* the elements accepted and not yet removed, oldest first
    given,  \* the batch of the write in progress, <<>> when there is none
    got     \* what the last finished read handed to its caller

qvars == <<queue, given, got>>

Init == queue = <<>> /\ given = <<>> /\ got = <<>>

Batches == UNION {[1 .. n -> Value] : n \in 1 .. Capacity}
Rest(n) == SubSeq(queue, n + 1, Len(queue))
Front(n) == SubSeq(queue, 1, n)

\* A writer comes with a batch, never more than fits.
Offer == \E batch \in Batches :
    /\ given = <<>>
    /\ Len(queue) + Len(batch) <= Capacity
    /\ given' = batch
    /\ UNCHANGED <<queue, got>>

\* The whole batch is appended, exactly as it was given.
Put ==
    /\ given # <<>>
    /\ queue' = queue \o given
    /\ given' = <<>>
    /\ UNCHANGED got

\* The n oldest elements are handed over and removed.
Take == \E n \in 0 .. Len(queue) :
    /\ got' = Front(n)
    /\ queue' = Rest(n)
    /\ UNCHANGED given

\* The n oldest elements are handed over and stay.
Peek == \E n \in 0 .. Len(queue) :
    /\ got' = Front(n)
    /\ UNCHANGED <<queue, given>>

\* The n oldest elements are thrown away unread.
Drop == \E n \in 0 .. Len(queue) :
    /\ queue' = Rest(n)
    /\ UNCHANGED <<given, got>>

Next == Offer \/ Put \/ Take \/ Peek \/ Drop

Spec == Init /\ [][Next]_qvars
=============================================================================
