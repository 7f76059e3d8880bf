--------------------------------- MODULE Crb ---------------------------------
(***************************************************************************)
(* The common ring buffer: two wrapped byte indices, one byte kept free.   *)
(*                                                                         *)
(* The code takes no lock and has no fence.  The model is two contexts of  *)
(* one core, a main loop and the interrupt it is preempted by, one of them *)
(* writing and the other reading; their steps interleave freely, which     *)
(* covers every preemption.                                                *)
(***************************************************************************)
EXTENDS Integers, Sequences

CONSTANTS
    MemSize,    \* fifo->mem_size
    Value,      \* the bytes
    NoValue,    \* what a destination holds before it is copied to
    MaxBatch    \* the largest buf_size of crb_Write, crb_Read and crb_Peep

\* crb_StaticNew refuses mem_size <= 1; crb_New(1) makes a ring that is always
\* full.  (Beyond 2^31 bytes the sums below would wrap in uint32_t.)
ASSUME MemSizeAssumption == MemSize \in Nat /\ MemSize >= 1
ASSUME CrbValueAssumption == NoValue \notin Value /\ Value # {}
ASSUME CrbBatchAssumption == MaxBatch \in Nat /\ MaxBatch >= 1

VARIABLES
    mem,            \* the bytes
    write, read,    \* the indices, each stored by its own side only
    wpc,            \* writer: "idle", or "copy" inside crb_Write
    wbuf, wdone,    \*   what this call will store, and how much of it it has
    rop,            \* reader: "idle", "read", "peep", "air" or "clear"
    rbuf, rdone,    \*   the caller's buffer, and how much of it is filled
    rto,            \*   where crb_ReadAir and crb_Clear will put `read`
    got             \* what the last finished crb_Read or crb_Peep returned

writer == <<wpc, wbuf, wdone>>
reader == <<rop, rbuf, rdone, rto, got>>
vars == <<mem, write, read, writer, reader>>

Slots == 0 .. MemSize - 1
LessOf(m, n) == IF m < n THEN m ELSE n
Batches == UNION {[1 .. n -> Value] : n \in 1 .. MaxBatch}

\* crb_fix
Fix(ptr) == ptr % MemSize

CrbFull == Fix(write + 1) = read
CrbEmpty == write = read

CrbSize(w, r) == (IF r > w THEN w + MemSize ELSE w) - r

FreeSize(w, r) == MemSize - CrbSize(w, r) - 1

\* wr_first, br_first: what fits before the end of the buffer
FirstPart(pos, n) == LessOf(n, MemSize - pos)

\* Where byte p of n lies for an index at pos: the first memcpy goes up from
\* pos, the second from 0.
CrbSlot(pos, n, p) ==
    IF p <= FirstPart(pos, n) THEN pos + p - 1 ELSE p - FirstPart(pos, n) - 1

\* crb_New, crb_StaticNew: the bytes are not cleared.
Init ==
    /\ mem \in [Slots -> Value]
    /\ write = 0 /\ read = 0
    /\ wpc = "idle" /\ wbuf = <<>> /\ wdone = 0
    /\ rop = "idle" /\ rbuf = <<>> /\ rdone = 0 /\ rto = 0
    /\ got = <<>>

-----------------------------------------------------------------------------
(* Writer *)

\* crb_Write: refuses when full, else stores what fits.  `read` is loaded twice;
\* it can only have moved on in between, so the second load decides.
WriteBegin(buf) ==
    /\ wpc = "idle"
    /\ ~CrbFull
    /\ FreeSize(write, read) # 0
    /\ wpc' = "copy"
    /\ wbuf' = SubSeq(buf, 1, LessOf(Len(buf), FreeSize(write, read)))
    /\ wdone' = 0
    /\ UNCHANGED <<mem, write, read, reader>>

\* One byte of the two memcpys.
WriteByte ==
    /\ wpc = "copy"
    /\ wdone < Len(wbuf)
    /\ mem' = [mem EXCEPT ![CrbSlot(write, Len(wbuf), wdone + 1)] = wbuf[wdone + 1]]
    /\ wdone' = wdone + 1
    /\ UNCHANGED <<write, read, wpc, wbuf, reader>>

WriteCommit ==
    /\ wpc = "copy"
    /\ wdone = Len(wbuf)
    /\ write' = Fix(write + Len(wbuf))
    /\ wpc' = "idle" /\ wbuf' = <<>> /\ wdone' = 0
    /\ UNCHANGED <<mem, read, reader>>

-----------------------------------------------------------------------------
(* Reader *)

\* crb_Read and crb_Peep: nothing when empty, else as many bytes as there are
\* and as fit.
ReadBegin(op, n) ==
    /\ rop = "idle"
    /\ ~CrbEmpty
    /\ rop' = op
    /\ rbuf' = [p \in 1 .. LessOf(n, CrbSize(write, read)) |-> NoValue]
    /\ rdone' = 0
    /\ UNCHANGED <<mem, write, read, writer, rto, got>>

ReadByte ==
    /\ rop \in {"read", "peep"}
    /\ rdone < Len(rbuf)
    /\ rbuf' = [rbuf EXCEPT ![rdone + 1] = mem[CrbSlot(read, Len(rbuf), rdone + 1)]]
    /\ rdone' = rdone + 1
    /\ UNCHANGED <<mem, write, read, writer, rop, rto, got>>

\* (mutant) the index is stored before the bytes are out
FinishEarly ==
    /\ got' = rbuf
    /\ rop' = "idle" /\ rbuf' = <<>> /\ rdone' = 0
    /\ UNCHANGED <<mem, write, writer, rto>>

FinishCopy ==
    /\ rdone = Len(rbuf)
    /\ got' = rbuf
    /\ rop' = "idle" /\ rbuf' = <<>> /\ rdone' = 0
    /\ UNCHANGED <<mem, write, writer, rto>>

ReadCommit ==
    /\ rop = "read"
    /\ FinishCopy
    /\ read' = Fix(read + Len(rbuf))

PeepEnd ==
    /\ rop = "peep"
    /\ FinishCopy
    /\ UNCHANGED read

\* crb_ReadAir: computes how far to go, then stores `read`.
AirBegin(n) ==
    /\ rop = "idle"
    /\ rop' = "air"
    /\ rto' = Fix(read + LessOf(n, CrbSize(write, read)))
    /\ UNCHANGED <<mem, write, read, writer, rbuf, rdone, got>>

\* crb_Clear: read = write, a load and a store.
ClearBegin ==
    /\ rop = "idle"
    /\ rop' = "clear"
    /\ rto' = write
    /\ UNCHANGED <<mem, write, read, writer, rbuf, rdone, got>>

MoveRead ==
    /\ rop \in {"air", "clear"}
    /\ read' = rto
    /\ rop' = "idle" /\ rto' = 0
    /\ UNCHANGED <<mem, write, writer, rbuf, rdone, got>>

-----------------------------------------------------------------------------
Next ==
    \/ \E buf \in Batches : WriteBegin(buf)
    \/ WriteByte \/ WriteCommit
    \/ \E op \in {"read", "peep"}, n \in 0 .. MaxBatch : ReadBegin(op, n)
    \/ ReadByte \/ ReadCommit \/ PeepEnd
    \/ \E n \in 0 .. MaxBatch : AirBegin(n)
    \/ ClearBegin \/ MoveRead

Spec == Init /\ [][Next]_vars

-----------------------------------------------------------------------------
(* Properties *)

UpTo(n, S) == UNION {[1 .. k -> S] : k \in 0 .. n}

TypeOK ==
    /\ mem \in [Slots -> Value]
    /\ write \in Slots /\ read \in Slots /\ rto \in Slots
    /\ wpc \in {"idle", "copy"}
    /\ wbuf \in UpTo(MaxBatch, Value) /\ wdone \in 0 .. Len(wbuf)
    /\ rop \in {"idle", "read", "peep", "air", "clear"}
    /\ rbuf \in UpTo(MaxBatch, Value \cup {NoValue}) /\ rdone \in 0 .. Len(rbuf)
    /\ \A p \in 1 .. rdone : rbuf[p] \in Value
    /\ got \in UpTo(MaxBatch, Value)

\* A full ring never looks empty: what is stored and what crb_Write is storing
\* leave one byte free, however old the free size is that it went by.
OneByteFree == CrbSize(write, read) + Len(wbuf) <= MemSize - 1

\* crb_Write in one context and crb_Read in the other never meet in one byte,
\* although neither masks the other.
WriterSlots == {CrbSlot(write, Len(wbuf), p) : p \in 1 .. Len(wbuf)}
ReaderSlots == {CrbSlot(read, Len(rbuf), p) : p \in 1 .. Len(rbuf)}
UnreadSlots == {Fix(read + p) : p \in 0 .. CrbSize(write, read) - 1}
NoRace == WriterSlots \cap (ReaderSlots \cup UnreadSlots) = {}

Contents == [p \in 1 .. CrbSize(write, read) |-> mem[Fix(read + p - 1)]]

=============================================================================
