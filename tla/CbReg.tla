-------------------------------- MODULE CbReg --------------------------------
(***************************************************************************)
(* A ring buffer behind seven one-address registers: what the device does  *)
(* with a register read or write that falls into a ring-buffer group.  The *)
(* ring is the queue that Crb implements, so a command is one step.        *)
(***************************************************************************)
EXTENDS Integers, Sequences

CONSTANTS
    Capacity,   \* what the ring holds at most
    CountSize   \* 4: the bytes of the size, free size and air registers

GET_SIZE == 0
GET_FREESIZE == 1
READ == 2
WRITE == 3
CLEAN == 4
READAIR == 5
PEEP == 6

\* crb_Size, crb_FreeSize of the queue
RingSize(ring) == Len(ring)

RingFree(ring) == Capacity - Len(ring)

\* ret, and on the bus: what the reader's buffer gets; then the ring.
Refused(ring) == [ret |-> 0, data |-> <<>>, ring |-> ring]
Done(size, data, ring) == [ret |-> size, data |-> data, ring |-> ring]
Front(ring, n) == SubSeq(ring, 1, n)
Rest(ring, n) == SubSeq(ring, n + 1, Len(ring))

\* (mutant) hands out what there is
CbReadShort(ring, cmd, size) ==
    CASE cmd = GET_SIZE /\ size = CountSize -> Done(CountSize, <<RingSize(ring)>>, ring)
      [] cmd = GET_FREESIZE /\ size = CountSize -> Done(CountSize, <<RingFree(ring)>>, ring)
      [] cmd = READ -> Done(size, Front(ring, IF size < RingSize(ring) THEN size ELSE RingSize(ring)),
                            Rest(ring, size))
      [] cmd = PEEP -> Done(size, Front(ring, IF size < RingSize(ring) THEN size ELSE RingSize(ring)), ring)
      [] OTHER -> Refused(ring)

\* _CbRead: a size register is read with 4 bytes; data only as far as there is.
CbRead(ring, cmd, size) ==
    CASE cmd = GET_SIZE /\ size = CountSize -> Done(CountSize, <<RingSize(ring)>>, ring)
      [] cmd = GET_FREESIZE /\ size = CountSize -> Done(CountSize, <<RingFree(ring)>>, ring)
      [] cmd = READ /\ size <= RingSize(ring) ->
            Done(size, Front(ring, size), Rest(ring, size))
      [] cmd = PEEP /\ size <= RingSize(ring) -> Done(size, Front(ring, size), ring)
      [] OTHER -> Refused(ring)

\* (mutant) reads the air that there is, and then reports a failure
CbWriteAirShort(ring, cmd, size, data) ==
    CASE cmd = WRITE /\ size <= RingFree(ring) -> Done(size, <<>>, ring \o data)
      [] cmd = CLEAN /\ size = 1 -> Done(1, <<>>, <<>>)
      [] cmd = READAIR /\ size = CountSize /\ data[1] <= RingSize(ring) ->
            Done(CountSize, <<>>, Rest(ring, data[1]))
      [] cmd = READAIR /\ size = CountSize -> Done(0, <<>>, <<>>)
      [] OTHER -> Refused(ring)

\* _CbWrite.  The bytes written to READAIR are the count, data[1] here.
CbWrite(ring, cmd, size, data) ==
    CASE cmd = WRITE /\ size <= RingFree(ring) -> Done(size, <<>>, ring \o data)
      [] cmd = CLEAN /\ size = 1 -> Done(1, <<>>, <<>>)
      [] cmd = READAIR /\ size = CountSize /\ data[1] <= RingSize(ring) ->
            Done(CountSize, <<>>, Rest(ring, data[1]))
      [] OTHER -> Refused(ring)
=============================================================================
