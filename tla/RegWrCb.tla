------------------------------- MODULE RegWrCb -------------------------------
(***************************************************************************)
(* The host's side of a ring buffer that lives in a device: every call of  *)
(* regwr_cb.c is one or two register accesses over a bus that can fail,    *)
(* before or after the device has executed the access.  Between the two    *)
(* accesses of a call the device's own program uses the other end of the   *)
(* ring.                                                                   *)
(***************************************************************************)
EXTENDS CbReg

CONSTANTS
    W16,        \* 2^16: what a uint16_t holds
    MaxByte,    \* bound: how many bytes the producer makes
    Modes       \* the ways the two programs use the ring, one per behaviour

\* The calls by the end of the ring they work on, and those of one access
Takes == {"Read", "GranRead", "Peep", "ReadAir"}
Fills == {"Write", "GranWrite"}
OneAccess == {"Size", "FreeSize", "Clean"}

\* Each end of the ring has one user: a host that fills it does not take from
\* it, and the other way round.  The size registers have at least one byte.
OneUser ==
    /\ CountSize \in Nat \ {0}
    /\ \A m \in Modes :
          /\ m.producer \in {"host", "device"}
          /\ m.ops \subseteq Takes \cup Fills \cup OneAccess
          /\ m.producer = "device" => m.ops \cap Fills = {}
          /\ m.producer = "host" => m.ops \cap Takes = {}
          /\ m.sizes \subseteq Nat

\* A count that the device reports fits the host's int, not its uint16_t.
\* Assumed where the constants get their values (Devices).
LinkAssumption ==
    /\ W16 \in Nat /\ Capacity \in Nat /\ MaxByte \in Nat
    /\ \A m \in Modes : m.gran \in 1 .. W16 - 1
    /\ OneUser

VARIABLES
    mode,       \* never changes
    ring,       \* the device's ring; bytes are numbered as they are produced
    made,       \* the bytes the producer has got rid of
    op,         \* the host's call in progress, "none" between calls
    size,       \* its size argument
    len,        \* -1 during its first access, then what it computed for the next
    ret,        \* what the last call returned, -1 for a failure
    got,        \* the buffer the last Read or Peep filled
    seen,       \* history: the bytes the host was given by successful calls
    peeped      \* how many bytes at the front a careful host has just peeped at

vars == <<mode, ring, made, op, size, len, ret, got, seen, peeped>>

Producer == mode.producer   \* "device" or "host": who fills the ring
Ops == mode.ops             \* the calls the host makes
Sizes == mode.sizes         \* the buf_size, data_size, nmemb, read_size it passes
Gran == mode.gran           \* gran_size
Careful == mode.careful     \* it reads air only for what it has just peeped at
MayClear == mode.mayClear   \* the device's program may empty the ring by itself

Bytes == 1 .. MaxByte
SetOf(s) == {s[k] : k \in DOMAIN s}
LessOf(m, n) == IF m < n THEN m ELSE n
UpFrom(n, k) == [j \in 1 .. k |-> n + j]


Init ==
    /\ mode \in Modes
    /\ ring = <<>> /\ made = 0
    /\ op = "none" /\ size = 0 /\ len = -1
    /\ ret = 0 /\ got = <<>> /\ seen = {} /\ peeped = 0

-----------------------------------------------------------------------------
(* The device's program at the other end, in whole elements: crb_Write,    *)
(* crb_Read, or crb_Clear when it starts over.                             *)

DeviceWrite(n) ==
    /\ Producer = "device" /\ n % Gran = 0
    /\ made + n <= MaxByte
    /\ n <= RingFree(ring)
    /\ ring' = ring \o UpFrom(made, n)
    /\ made' = made + n
    /\ UNCHANGED <<op, size, len, ret, got, seen, peeped>>

DeviceRead(n) ==
    /\ Producer = "host" /\ n % Gran = 0
    /\ n <= RingSize(ring)
    /\ ring' = Rest(ring, n)
    /\ seen' = seen \cup SetOf(Front(ring, n))
    /\ UNCHANGED <<made, op, size, len, ret, got, peeped>>

DeviceClear ==
    /\ MayClear
    /\ ring' = <<>>
    /\ UNCHANGED <<made, op, size, len, ret, got, seen, peeped>>

-----------------------------------------------------------------------------
(* The host *)

\* A careful host passes to ReadAir the number that it has seen by peeping; a
\* host that writes passes the bytes that have not got through yet.
Sensible(o, n) ==
    /\ o = "ReadAir" /\ Careful => peeped > 0 /\ n = peeped
    /\ o = "Write" => made + n <= MaxByte
    /\ o = "GranWrite" => made + n * Gran <= MaxByte

Call(o, n) ==
    /\ op = "none"
    /\ Sensible(o, n)
    /\ op' = o /\ size' = n /\ len' = -1
    /\ UNCHANGED <<ring, made, ret, got, seen, peeped>>

Return(r, buf) ==
    /\ op' = "none" /\ size' = 0 /\ len' = -1
    /\ ret' = r
    /\ got' = buf

\* The first access of a call: GET_FREESIZE before a write, else GET_SIZE.
SizeReg == IF op \in Fills \cup {"FreeSize"} THEN GET_FREESIZE ELSE GET_SIZE
Reported == CbRead(ring, SizeReg, CountSize).data[1]

\* (mutant) does not round down to whole elements
LengthUnrounded(n) ==
    IF op \in {"GranRead", "GranWrite"} THEN LessOf(n, (size * Gran) % W16)
    ELSE LessOf(size % W16, n)

\* (mutant) does not limit the length to what the device reports
LengthUncut(n) == size % W16

\* What a call goes for when the device reports n bytes: sizes are cut to a
\* uint16_t, and the Gran calls count whole elements.
Length(n) ==
    IF op \in {"GranRead", "GranWrite"}
    THEN (LessOf(size % W16, (n % W16) \div Gran) * Gran) % W16
    ELSE LessOf(size % W16, n)

\* RegWrCb_Size and RegWrCb_FreeSize are done.  The others return 0 if there is
\* nothing, a Gran call also if there is less than one element.
SizeAnswered ==
    /\ op \notin {"none", "Clean"}
    /\ len = -1
    /\ IF op \in OneAccess THEN Return(Reported, got)
       ELSE IF Reported = 0 \/ (op \in {"GranRead", "GranWrite"} /\ Length(Reported) = 0)
            THEN Return(0, got)
            ELSE len' = Length(Reported) /\ UNCHANGED <<op, size, ret, got>>
    /\ UNCHANGED <<ring, made, seen, peeped>>

\* An access that the device never sees, or a size answer that is lost.
BusFails ==
    /\ op # "none"
    /\ Return(-1, got)
    /\ peeped' = 0
    /\ UNCHANGED <<ring, made, seen>>

InCommand == op = "Clean" \/ len >= 0

\* (mutant) the register of the wrong command
CommandPeepReads ==
    CASE op \in {"Read", "GranRead", "Peep"} -> CbRead(ring, READ, len)
      [] op \in Fills -> CbWrite(ring, WRITE, len, UpFrom(made, len))
      [] op = "ReadAir" -> CbWrite(ring, READAIR, CountSize, <<len>>)
      [] op = "Clean" -> CbWrite(ring, CLEAN, 1, <<0>>)

\* The second access: what the device does with it.
Command ==
    CASE op \in {"Read", "GranRead"} -> CbRead(ring, READ, len)
      [] op = "Peep" -> CbRead(ring, PEEP, len)
      [] op \in Fills -> CbWrite(ring, WRITE, len, UpFrom(made, len))
      [] op = "ReadAir" -> CbWrite(ring, READAIR, CountSize, <<len>>)
      [] op = "Clean" -> CbWrite(ring, CLEAN, 1, <<0>>)

\* What the device does not do, its bus reports as a failure.
Refusal == Command.ret = 0 /\ len # 0

\* A Gran call returns elements, the others bytes, Clean 0.
Result ==
    IF op = "Clean" THEN 0
    ELSE IF op \in {"GranRead", "GranWrite"} THEN len \div Gran ELSE len

CommandDone ==
    /\ InCommand
    /\ ~Refusal
    /\ ring' = Command.ring
    /\ Return(Result, IF op \in {"Read", "GranRead", "Peep"} THEN Command.data ELSE got)
    /\ made' = IF op \in Fills THEN made + Result * (IF op = "GranWrite" THEN Gran ELSE 1) ELSE made
    /\ seen' = IF op \in {"Read", "GranRead", "Peep"} THEN seen \cup SetOf(Command.data) ELSE seen
    /\ peeped' = IF op = "Peep" THEN len ELSE 0

CommandRefused ==
    /\ InCommand
    /\ Refusal
    /\ Return(-1, got)
    /\ peeped' = 0
    /\ UNCHANGED <<ring, made, seen>>

\* The device has executed the access, the host is told that it failed.
AnswerLost ==
    /\ InCommand
    /\ ~Refusal
    /\ ring' = Command.ring
    /\ Return(-1, got)
    /\ peeped' = 0
    /\ UNCHANGED <<made, seen>>

-----------------------------------------------------------------------------
Next ==
    /\ UNCHANGED mode
    /\ \/ \E n \in 1 .. MaxByte : DeviceWrite(n) \/ DeviceRead(n)
       \/ DeviceClear
       \/ \E o \in Ops, n \in Sizes : Call(o, n)
       \/ SizeAnswered \/ BusFails
       \/ CommandDone \/ CommandRefused \/ AnswerLost

Spec == Init /\ [][Next]_vars

-----------------------------------------------------------------------------
(* Properties *)

TypeOK ==
    /\ mode \in Modes
    /\ SetOf(ring) \subseteq Bytes /\ Len(ring) <= Capacity
    /\ made \in 0 .. MaxByte
    /\ op \in Ops \cup {"none"} /\ size \in Sizes \cup {0}
    /\ len \in -1 .. Capacity
    /\ ret \in -1 .. Capacity
    /\ SetOf(got) \subseteq Bytes
    /\ seen \subseteq Bytes
    /\ peeped \in 0 .. Capacity

\* The size a call has asked for is old when its second access arrives, but as
\* long as nobody else works on the host's end of the ring it is good enough:
\* the device never refuses the access ("get the size before, else it fails").
NeverRefused == InCommand /\ ~MayClear => ~Refusal

\* Nothing is lost.  Whatever access fails, and wherever: what the producer was
\* told is in the ring is in the ring or has been handed to the consumer.  For
\* a reading host this needs the peep-then-air pattern that the comment on
\* RegWrCb_Peep recommends, with a new peep after every failure.
Lossless ==
    /\ Ops \cap {"Read", "GranRead", "Clean"} = {} /\ ~MayClear
    /\ "ReadAir" \in Ops => Careful
NothingLost == Lossless => 1 .. made \subseteq SetOf(ring) \cup seen

\* A host that repeats a write that failed may store bytes twice (the device
\* had executed it), but the ring never skips a byte.
InOrder == \A k \in 1 .. Len(ring) - 1 : ring[k + 1] <= ring[k] + 1

\* With GranWrite and GranRead an element is never torn: not by a free size
\* that is no multiple of it, by a failed access or by a repeated one.
Bytewise == Ops \cap {"Read", "Write", "Peep", "ReadAir"} # {}
WholeElements ==
    \/ Bytewise
    \/ /\ Len(ring) % Gran = 0 /\ Len(got) % Gran = 0
       /\ \A k \in DOMAIN ring : ring[k] % Gran = k % Gran
       /\ \A k \in DOMAIN got : got[k] % Gran = k % Gran

\* What the consumer finds in the ring is what the producer meant to put there,
\* byte after byte and element after element.
RingIsSound == InOrder /\ WholeElements

\* A call that reports success has filled as much of the buffer as it returns,
\* also when the ring shrank between its two accesses.
Elements(o) == IF o = "GranRead" THEN Gran ELSE 1
ReportedIsDelivered ==
    [][len > 0 /\ op \in {"Read", "GranRead", "Peep"} /\ op' = "none" /\ ret' >= 0
        => Len(got') = ret' * Elements(op)]_vars
=============================================================================
