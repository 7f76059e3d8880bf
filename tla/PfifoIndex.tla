------------------------------ MODULE PfifoIndex ------------------------------
(***************************************************************************)
(* The index arithmetic of the kernel-style fifo in general/pfifo.c and    *)
(* general/inc/pfifo.h, shared by the element mode (Pfifo) and the record  *)
(* mode (PfifoRec).                                                        *)
(*                                                                         *)
(* `in` and `out` are free-running unsigned counters: they are reduced     *)
(* modulo Wrap (2^32 in the code) when they are advanced, and modulo Size  *)
(* (`& mask`) only when a slot of the buffer is addressed.                 *)
(***************************************************************************)
EXTENDS Integers

CONSTANTS
    Size,   \* mask + 1: elements in the buffer, at least 2
    Wrap    \* the modulus of an unsigned index

\* The code's sizes are powers of two below 2^32.  What the arithmetic needs of
\* that is only that Size divides the modulus at least twice.
ASSUME SizeAssumption == Size \in Nat /\ Size >= 2
ASSUME WrapAssumption == Wrap \in Nat /\ Wrap % Size = 0 /\ Wrap >= 2 * Size

Index == 0 .. Wrap - 1
Slots == 0 .. Size - 1

\* fifo->in - fifo->out, in unsigned arithmetic
Used(i, o) == (i - o) % Wrap

\* (mutant) free space that forgets the element at `in` is not free when full
UnusedPlusOne(i, o) == (Size + 1 - Used(i, o)) % Wrap

\* pfifo_unused(): (mask + 1) - (in - out), unsigned as well
Unused(i, o) == (Size - Used(i, o)) % Wrap

IsEmpty(i, o) == i = o

\* (mutant) compares with the size where the code compares with the mask
IsFullBySize(i, o) == Used(i, o) > Size

IsFull(i, o) == Used(i, o) > Size - 1

\* fifo->in += n, fifo->out += n
Advance(i, n) == (i + n) % Wrap

\* i & mask
Masked(i) == i % Size

MinOf(a, b) == IF a < b THEN a ELSE b

\* l = min(len, size - off): how much of a copy of len elements that starts at
\* index off fits before the end of the buffer
Chunk(len, off) == MinOf(len, Size - Masked(off))

\* The slot that element p (counted from 1) of such a copy lands in: the first
\* memcpy starts at the masked offset, the second one at the buffer's start.
Slot(len, off, p) ==
    IF p <= Chunk(len, off) THEN Masked(off) + (p - 1)
                            ELSE p - Chunk(len, off) - 1

\* The second memcpy starts when the first one is done; the order inside one
\* memcpy is not specified.
MayCopy(left, len, off, p) ==
    /\ p \in left
    /\ p > Chunk(len, off) => \A q \in left : q > Chunk(len, off)

-----------------------------------------------------------------------------
\* What a copy must address, by the plain definition of a ring: the reference
\* the proofs compare Slot with, and the committed elements in fifo order.
RingSlot(off, p) == (off + (p - 1)) % Size
Contents(d, i, o) == [p \in 1 .. Used(i, o) |-> d[RingSlot(o, p)]]
=============================================================================
