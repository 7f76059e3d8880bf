------------------------------ MODULE RecordQueue ------------------------------
(***************************************************************************)
(* What a record fifo promises: records go in and come out whole and in    *)
(* order; a reader whose buffer is too short gets the record's beginning.  *)
(***************************************************************************)
EXTENDS Integers, Sequences

VARIABLES
    recs,   \* the records accepted and not yet removed, oldest first
    got     \* what the last finished read handed to its caller

rvars == <<recs, got>>

Init == recs = <<>> /\ got = <<>>

\* A record is accepted behind the others, whatever its content.
Accept ==
    /\ Len(recs') = Len(recs) + 1
    /\ SubSeq(recs', 1, Len(recs)) = recs
    /\ UNCHANGED got

\* The oldest record, or as much of it as the reader's buffer takes.
Deliver == recs # <<>> /\ \E n \in 0 .. Len(Head(recs)) : got' = SubSeq(Head(recs), 1, n)

Take == Deliver /\ recs' = Tail(recs)
Peek == Deliver /\ UNCHANGED recs

\* Some of the oldest records are thrown away unread.
Drop == \E n \in 1 .. Len(recs) : recs' = SubSeq(recs, n + 1, Len(recs)) /\ UNCHANGED got

Next == Accept \/ Take \/ Peek \/ Drop

Spec == Init /\ [][Next]_rvars
=============================================================================
