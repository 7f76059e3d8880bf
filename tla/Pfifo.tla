-------------------------------- MODULE Pfifo --------------------------------
(***************************************************************************)
(* The element mode of the fifo (recsize = 0) shared by one writer and one *)
(* reader thread that take no lock.                                        *)
(*                                                                         *)
(* A call is split where the other thread can get in between: it reads the *)
(* other side's index once, copies one element per step, and then, after   *)
(* the release fence, stores its own index.  Steps of the two threads      *)
(* interleave; memory is sequentially consistent.                          *)
(***************************************************************************)
EXTENDS PfifoIndex, Sequences

CONSTANTS
    Value,      \* the elements
    NoValue,    \* what a destination holds before it is copied to
    MaxBatch    \* the largest n of pfifo_in and pfifo_out

ASSUME ValueAssumption == NoValue \notin Value /\ Value # {}
ASSUME BatchAssumption == MaxBatch \in Nat /\ MaxBatch >= 1

VARIABLES
    data,   \* fifo->data, slot by slot
    in,     \* fifo->in, stored by the writer only
    out,    \* fifo->out, stored by the reader only
    wpc,    \* writer: "idle", or "copy" inside pfifo_in / pfifo_put
    wbuf,   \*   the elements this call will store (already cut to what fits)
    wleft,  \*   positions of wbuf not yet copied into data
    rop,    \* reader: "idle", "out", "peek" or "reset"
    rbuf,   \*   the caller's destination buffer
    rleft,  \*   positions of rbuf not yet copied from data
    rin,    \*   the value of in loaded by pfifo_reset_out
    got     \* what the last finished read returned

writer == <<wpc, wbuf, wleft>>
reader == <<rop, rbuf, rleft, rin, got>>
vars == <<data, in, out, writer, reader>>

Batches == UNION {[1 .. n -> Value] : n \in 1 .. MaxBatch}

\* INIT_PFIFO, pfifo_alloc, pfifo_init: the buffer is not cleared.
Init ==
    /\ data \in [Slots -> Value]
    /\ in = 0 /\ out = 0
    /\ wpc = "idle" /\ wbuf = <<>> /\ wleft = {}
    /\ rop = "idle" /\ rbuf = <<>> /\ rleft = {} /\ rin = 0
    /\ got = <<>>

-----------------------------------------------------------------------------
(* Writer *)

\* __pfifo_in: len = min(len, unused), computed once on entry.
InBegin(batch) ==
    /\ wpc = "idle"
    /\ wpc' = "copy"
    /\ wbuf' = SubSeq(batch, 1, MinOf(Len(batch), Unused(in, out)))
    /\ wleft' = 1 .. MinOf(Len(batch), Unused(in, out))
    /\ UNCHANGED <<data, in, out, reader>>

\* pfifo_put: returns 0 when the fifo is full, else stores one element.
PutBegin(v) ==
    /\ wpc = "idle"
    /\ ~IsFull(in, out)
    /\ wpc' = "copy"
    /\ wbuf' = <<v>>
    /\ wleft' = {1}
    /\ UNCHANGED <<data, in, out, reader>>

\* One element of pfifo_copy_in's two memcpys.
CopyIn(p) ==
    /\ wpc = "copy"
    /\ MayCopy(wleft, Len(wbuf), in, p)
    /\ data' = [data EXCEPT ![Slot(Len(wbuf), in, p)] = wbuf[p]]
    /\ wleft' = wleft \ {p}
    /\ UNCHANGED <<in, out, wpc, wbuf, reader>>

\* (mutant) without the fence `in` may become visible before the data
InCommitUnfenced ==
    /\ wpc = "copy"
    /\ in' = Advance(in, Len(wbuf))
    /\ wpc' = "idle"
    /\ wbuf' = <<>>
    /\ wleft' = {}
    /\ UNCHANGED <<data, out, reader>>

\* (mutant) publishes only while no read is in progress, as under a lock
InCommitLocked ==
    /\ wpc = "copy"
    /\ wleft = {}
    /\ rop = "idle"
    /\ in' = Advance(in, Len(wbuf))
    /\ wpc' = "idle"
    /\ wbuf' = <<>>
    /\ UNCHANGED <<data, out, wleft, reader>>

\* __pfifo_smp_wmb(); fifo->in += len
InCommit ==
    /\ wpc = "copy"
    /\ wleft = {}
    /\ in' = Advance(in, Len(wbuf))
    /\ wpc' = "idle"
    /\ wbuf' = <<>>
    /\ UNCHANGED <<data, out, wleft, reader>>

-----------------------------------------------------------------------------
(* Reader *)

StartCopyOut(op, len) ==
    /\ rop' = op
    /\ rbuf' = [p \in 1 .. len |-> NoValue]
    /\ rleft' = 1 .. len
    /\ UNCHANGED <<data, in, out, writer, rin, got>>

\* __pfifo_out_peek, entered from pfifo_out ("out") or pfifo_out_peek ("peek"):
\* len = min(len, in - out), computed once on entry.
OutBegin(op, n) ==
    /\ rop = "idle"
    /\ StartCopyOut(op, MinOf(n, Used(in, out)))

\* pfifo_get ("out") and pfifo_peek ("peek"): return 0 when empty.
GetBegin(op) ==
    /\ rop = "idle"
    /\ ~IsEmpty(in, out)
    /\ StartCopyOut(op, 1)

\* One element of pfifo_copy_out's two memcpys.
CopyOut(p) ==
    /\ rop \in {"out", "peek"}
    /\ MayCopy(rleft, Len(rbuf), out, p)
    /\ rbuf' = [rbuf EXCEPT ![p] = data[Slot(Len(rbuf), out, p)]]
    /\ rleft' = rleft \ {p}
    /\ UNCHANGED <<data, in, out, writer, rop, rin, got>>

\* (mutant) without the fence `out` may become visible before the copy ends
FinishReadUnfenced ==
    /\ got' = rbuf
    /\ rop' = "idle"
    /\ rbuf' = <<>>
    /\ rleft' = {}
    /\ UNCHANGED <<data, in, writer, rin>>

FinishRead ==
    /\ rleft = {}
    /\ got' = rbuf
    /\ rop' = "idle"
    /\ rbuf' = <<>>
    /\ UNCHANGED <<data, in, writer, rleft, rin>>

\* __pfifo_out, pfifo_get: fifo->out += len after the copy
OutCommit ==
    /\ rop = "out"
    /\ FinishRead
    /\ out' = Advance(out, Len(rbuf))

PeekEnd ==
    /\ rop = "peek"
    /\ FinishRead
    /\ UNCHANGED out

\* pfifo_skip: out++ with no check of its own; the reader calls it for an
\* element it has seen, as after pfifo_peek.
Skip ==
    /\ rop = "idle"
    /\ ~IsEmpty(in, out)
    /\ out' = Advance(out, 1)
    /\ UNCHANGED <<data, in, writer, reader>>

\* pfifo_reset_out: out = in, a load and a later store
ResetOutLoad ==
    /\ rop = "idle"
    /\ rop' = "reset"
    /\ rin' = in
    /\ UNCHANGED <<data, in, out, writer, rbuf, rleft, got>>

ResetOutStore ==
    /\ rop = "reset"
    /\ out' = rin
    /\ rop' = "idle"
    /\ rin' = 0
    /\ UNCHANGED <<data, in, writer, rbuf, rleft, got>>

\* pfifo_reset: called only when no other thread is accessing the fifo
Reset ==
    /\ wpc = "idle" /\ rop = "idle"
    /\ in' = 0 /\ out' = 0
    /\ UNCHANGED <<data, writer, reader>>

-----------------------------------------------------------------------------
WriterStep == (\E p \in wleft : CopyIn(p)) \/ InCommit
ReaderStep == (\E p \in rleft : CopyOut(p)) \/ OutCommit \/ PeekEnd \/ ResetOutStore

WriterCall == (\E batch \in Batches : InBegin(batch)) \/ (\E v \in Value : PutBegin(v))
ReaderCall ==
    \/ \E op \in {"out", "peek"} : GetBegin(op) \/ \E n \in 1 .. MaxBatch : OutBegin(op, n)
    \/ Skip
    \/ ResetOutLoad

Next == WriterCall \/ WriterStep \/ ReaderCall \/ ReaderStep \/ Reset

\* A thread inside a call is scheduled again.  Nothing makes it start a call.
Fairness == WF_vars(WriterStep) /\ WF_vars(ReaderStep)

Spec == Init /\ [][Next]_vars /\ Fairness

-----------------------------------------------------------------------------
(* Properties *)

UpTo(n, S) == UNION {[1 .. k -> S] : k \in 0 .. n}
Items == UpTo(MaxBatch, Value)
Partial == UpTo(MaxBatch, Value \cup {NoValue})

TypeOK ==
    /\ data \in [Slots -> Value]
    /\ in \in Index /\ out \in Index
    /\ wpc \in {"idle", "copy"}
    /\ wbuf \in Items
    /\ wleft \subseteq 1 .. Len(wbuf)
    /\ rop \in {"idle", "out", "peek", "reset"}
    /\ rbuf \in Partial
    /\ rleft \subseteq 1 .. Len(rbuf)
    /\ \A p \in (1 .. Len(rbuf)) \ rleft : rbuf[p] \in Value
    /\ rin \in Index
    /\ got \in Items

\* The writer never gets more than one buffer ahead of the reader, whatever the
\* age of the index it computed its free space from (pfifo_unused, is_full).
NoOverrun == Used(in, out) + Len(wbuf) <= Size

\* What a call was granted on entry stays granted: the elements a read set out
\* to copy, and those pfifo_reset_out set out to drop, are still in the fifo
\* when it stores `out`, and a thread outside a call holds nothing.
GrantsHold ==
    /\ wpc = "idle" => wbuf = <<>> /\ wleft = {}
    /\ rop \in {"idle", "reset"} => rbuf = <<>> /\ rleft = {}
    /\ Len(rbuf) <= Used(in, out)
    /\ rop = "reset" => Used(rin, out) <= Used(in, out)

\* "With only one concurrent reader and one concurrent writer, you don't need
\* extra locking" (pfifo.h): no slot the writer is storing to holds an element
\* the reader is copying or has yet to read, also when a copy wraps.
WriterSlots == {Slot(Len(wbuf), in, p) : p \in 1 .. Len(wbuf)}
ReaderSlots == {Slot(Len(rbuf), out, p) : p \in 1 .. Len(rbuf)}
UnreadSlots == {RingSlot(out, p) : p \in 1 .. Used(in, out)}
NoRace == WriterSlots \cap (ReaderSlots \cup UnreadSlots) = {}

\* What a read in progress has copied is the front of the queue as it is now,
\* although the writer went on storing and committing since the read began.
ReadIsFresh == \A p \in (1 .. Len(rbuf)) \ rleft :
    p <= Used(in, out) /\ rbuf[p] = Contents(data, in, out)[p]

\* What a write in progress has copied is still where the reader will look for
\* it once `in` is advanced.
StagedIsIntact == \A p \in (1 .. Len(wbuf)) \ wleft :
    data[RingSlot(in, p)] = wbuf[p]

\* No lock, no waiting: a thread inside a call leaves it by its own steps
\* alone, even when the other thread has stopped in the middle of a call.
CallsReturn ==
    /\ wpc = "copy" ~> wpc = "idle"
    /\ rop # "idle" ~> rop = "idle"

\* The committed elements, in order, are a bounded fifo: each write appends the
\* batch it was given at once, each read hands over and removes what is oldest.
Fifo == INSTANCE FifoQueue WITH
    Capacity <- Size, queue <- Contents(data, in, out), given <- wbuf, got <- got
ImplementsFifo == Fifo!Spec
=============================================================================
