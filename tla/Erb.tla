--------------------------------- MODULE Erb ---------------------------------
(***************************************************************************)
(* The elastic ring buffer: a ring of MemSize bytes in a buffer of twice   *)
(* the size.  A write that crosses the end of the ring goes on in the      *)
(* second half and is then copied to the first; any other write is stored  *)
(* in both halves.  So the bytes to be read always lie in one piece, and   *)
(* erb_Peep hands out a pointer to them.                                   *)
(*                                                                         *)
(* The indices are handled as in the common ring buffer, whose code is     *)
(* repeated here, and so are the two contexts.                             *)
(***************************************************************************)
EXTENDS Integers, Sequences

CONSTANTS MemSize, Value, NoValue, MaxBatch

VARIABLES
    mem,            \* fifo->mem; mem_tmp is its second half
    write, read,
    wpc, wbuf, wdone,
    rop,            \* "peep": the reader has a pointer from erb_Peep
    rbuf, rdone, rto, got

C == INSTANCE Crb

Bytes == 0 .. 2 * MemSize - 1

Full == C!CrbFull
Empty == C!CrbEmpty
Size == C!CrbSize(write, read)
FreeSize == C!FreeSize(write, read)

\* erb_New, erb_StaticNew.  The bytes are not cleared; NoValue marks one that
\* nobody has stored.
Init ==
    /\ mem = [b \in Bytes |-> NoValue]
    /\ write = 0 /\ read = 0
    /\ wpc = "idle" /\ wbuf = <<>> /\ wdone = 0
    /\ rop = "idle" /\ rbuf = <<>> /\ rdone = 0 /\ rto = 0
    /\ got = <<>>

-----------------------------------------------------------------------------
(* Writer *)

\* (mutant) stores all it is given once there is any room
WriteBeginAll(buf) ==
    /\ wpc = "idle"
    /\ ~Full
    /\ FreeSize # 0
    /\ wpc' = "copy"
    /\ wbuf' = buf
    /\ wdone' = 0
    /\ UNCHANGED <<mem, write, read, rop, rbuf, rdone, rto, got>>

\* erb_Write: refuses when full, else stores what fits.
WriteBegin(buf) ==
    /\ wpc = "idle"
    /\ ~Full
    /\ FreeSize # 0
    /\ wpc' = "copy"
    /\ wbuf' = SubSeq(buf, 1, C!LessOf(Len(buf), FreeSize))
    /\ wdone' = 0
    /\ UNCHANGED <<mem, write, read, rop, rbuf, rdone, rto, got>>

Crosses == write + Len(wbuf) > MemSize

\* (mutant) nothing is repeated when the write ends at the end of the ring or before
RepeatedOver == IF Crosses THEN write + Len(wbuf) - MemSize ELSE 0

\* How many bytes the second memcpy repeats in the other half.
Repeated == IF Crosses THEN write + Len(wbuf) - MemSize ELSE Len(wbuf)

\* The first memcpy, in one piece even over the end of the ring.
StoreByte ==
    /\ wpc = "copy" /\ wdone < Len(wbuf)
    /\ mem' = [mem EXCEPT ![write + wdone] = wbuf[wdone + 1]]
    /\ wdone' = wdone + 1
    /\ UNCHANGED <<write, read, wpc, wbuf, rop, rbuf, rdone, rto, got>>

\* The second memcpy: from the second half to the first, or from the caller's
\* buffer to the second half.
RepeatByte ==
    /\ wpc = "copy" /\ wdone \in Len(wbuf) .. Len(wbuf) + Repeated - 1
    /\ LET p == wdone - Len(wbuf)
       IN  mem' = IF Crosses THEN [mem EXCEPT ![p] = mem[MemSize + p]]
                             ELSE [mem EXCEPT ![MemSize + write + p] = wbuf[p + 1]]
    /\ wdone' = wdone + 1
    /\ UNCHANGED <<write, read, wpc, wbuf, rop, rbuf, rdone, rto, got>>

WriteCommit ==
    /\ wpc = "copy" /\ wdone = Len(wbuf) + Repeated
    /\ write' = C!Fix(write + Len(wbuf))
    /\ wpc' = "idle" /\ wbuf' = <<>> /\ wdone' = 0
    /\ UNCHANGED <<mem, read, rop, rbuf, rdone, rto, got>>

-----------------------------------------------------------------------------
(* Reader *)

\* erb_Read: nothing when empty.
ReadBegin(n) ==
    /\ rop = "idle"
    /\ ~Empty
    /\ rop' = "read"
    /\ rbuf' = [p \in 1 .. C!LessOf(n, Size) |-> NoValue]
    /\ rdone' = 0
    /\ UNCHANGED <<mem, write, read, wpc, wbuf, wdone, rto, got>>

\* erb_Peep, and erb_PeepAll for as many as there are: a pointer into the buffer
\* and how many bytes may be looked at, none when empty.  The caller reads
\* through it as long as it likes.
Peep(n) ==
    /\ rop = "idle"
    /\ rop' = "peep"
    /\ rbuf' = [p \in 1 .. C!LessOf(n, Size) |-> NoValue]
    /\ rdone' = 0
    /\ UNCHANGED <<mem, write, read, wpc, wbuf, wdone, rto, got>>

\* A byte of the memcpy, or one that the caller reads through its pointer.
ReadByte ==
    /\ rop \in {"read", "peep"} /\ rdone < Len(rbuf)
    /\ rbuf' = [rbuf EXCEPT ![rdone + 1] = mem[read + rdone]]
    /\ rdone' = rdone + 1
    /\ UNCHANGED <<mem, write, read, wpc, wbuf, wdone, rop, rto, got>>

ReadCommit ==
    /\ rop = "read" /\ rdone = Len(rbuf)
    /\ read' = C!Fix(read + Len(rbuf))
    /\ got' = rbuf
    /\ rop' = "idle" /\ rbuf' = <<>> /\ rdone' = 0
    /\ UNCHANGED <<mem, write, wpc, wbuf, wdone, rto>>

\* The caller is done with the bytes and will move `read` with erb_ReadAir.
PeepEnd ==
    /\ rop = "peep" /\ rdone = Len(rbuf)
    /\ got' = rbuf
    /\ rop' = "idle" /\ rbuf' = <<>> /\ rdone' = 0
    /\ UNCHANGED <<mem, write, read, wpc, wbuf, wdone, rto>>

\* erb_ReadAir and erb_Clear are those of the common ring buffer.
ReadAir(n) == C!AirBegin(n)
Clear == C!ClearBegin
MoveRead == C!MoveRead

-----------------------------------------------------------------------------
Next ==
    \/ \E buf \in C!Batches : WriteBegin(buf)
    \/ StoreByte \/ RepeatByte \/ WriteCommit
    \/ \E n \in 0 .. MaxBatch : ReadBegin(n) \/ Peep(n) \/ ReadAir(n)
    \/ ReadByte \/ ReadCommit \/ PeepEnd
    \/ Clear \/ MoveRead

Spec == Init /\ [][Next]_C!vars

-----------------------------------------------------------------------------
(* Properties *)

TypeOK ==
    /\ mem \in [Bytes -> Value \cup {NoValue}]
    /\ write \in C!Slots /\ read \in C!Slots /\ rto \in C!Slots
    /\ wpc \in {"idle", "copy"}
    /\ wbuf \in C!UpTo(MaxBatch, Value) /\ wdone \in 0 .. 2 * Len(wbuf)
    /\ rop \in {"idle", "read", "peep", "air", "clear"}
    /\ rbuf \in C!UpTo(MaxBatch, Value \cup {NoValue}) /\ rdone \in 0 .. Len(rbuf)
    /\ \A p \in 1 .. rdone : rbuf[p] \in Value
    /\ got \in C!UpTo(MaxBatch, Value)

\* Neither memcpy of a write touches what may be read in one piece, in
\* whichever half it lies: a pointer from erb_Peep shows the same bytes until
\* its holder moves `read`.
Written ==
    {write + p : p \in 0 .. Len(wbuf) - 1}
    \cup {(IF Crosses THEN 0 ELSE MemSize + write) + p : p \in 0 .. Repeated - 1}
Readable == {read + p : p \in 0 .. Size - 1} \cup {read + p : p \in 0 .. Len(rbuf) - 1}
NoRace == Written \cap Readable = {}

\* The bytes to be read, in one piece from `read`.
View == [p \in 1 .. Size |-> mem[read + p - 1]]
=============================================================================
