------------------------------ MODULE PfifoProofs ------------------------------
(***************************************************************************)
(* Pfifo is correct for every buffer size, index width, element set and    *)
(* batch size.  The inductive invariant is built in two layers: Shape says *)
(* that the indices and what the calls in progress were granted stay       *)
(* within the ring, and needs no knowledge of the data; Intact adds what   *)
(* the slots hold.  Underneath are the lemmas of PfifoIndexProofs on the   *)
(* index arithmetic.                                                       *)
(***************************************************************************)
EXTENDS Pfifo, PfifoIndexProofs

-----------------------------------------------------------------------------
(* What holds without looking at the data *)

Shape == TypeOK /\ NoOverrun /\ GrantsHold

-----------------------------------------------------------------------------
(* The buffers of the calls are sequences. *)

\* A bounded buffer is a sequence, and its length is within the bound.
LEMMA UpToIsSeq ==
    ASSUME NEW S, NEW n \in Nat, NEW s \in UpTo(n, S)
    PROVE  /\ s \in Seq(S)
           /\ Len(s) \in 0 .. n
           /\ s \in [1 .. Len(s) -> S]
           /\ DOMAIN s = 1 .. Len(s)
  <1>1. PICK k \in 0 .. n : s \in [1 .. k -> S]
    BY DEF UpTo
  <1>2. k \in Nat
    BY <1>1, SMT
  <1> QED
    BY <1>1, <1>2, FunctionIsSeq, SMT

\* ... and conversely.
LEMMA SeqIsUpTo ==
    ASSUME NEW S, NEW n \in Nat, NEW s, NEW k \in 0 .. n, s \in [1 .. k -> S]
    PROVE  s \in UpTo(n, S)
  BY DEF UpTo

\* The empty buffer.
LEMMA EmptyBuffer ==
    ASSUME NEW S, NEW n \in Nat
    PROVE  <<>> \in UpTo(n, S) /\ Len(<<>>) = 0
  <1>1. <<>> \in [1 .. 0 -> S] /\ 0 \in 0 .. n
    BY SMT
  <1>2. <<>> \in UpTo(n, S)
    BY <1>1, SeqIsUpTo
  <1> QED
    BY <1>2, EmptySeq

\* Overwriting one position keeps a buffer's length and type.
LEMMA ExceptBuffer ==
    ASSUME NEW S, NEW n \in Nat, NEW s \in UpTo(n, S), NEW p \in 1 .. Len(s), NEW e \in S
    PROVE  /\ [s EXCEPT ![p] = e] \in UpTo(n, S)
           /\ Len([s EXCEPT ![p] = e]) = Len(s)
  <1>1. s \in Seq(S) /\ Len(s) \in 0 .. n /\ s \in [1 .. Len(s) -> S]
    BY UpToIsSeq
  <1>2. [s EXCEPT ![p] = e] \in [1 .. Len(s) -> S]
    BY <1>1
  <1>3. Len([s EXCEPT ![p] = e]) = Len(s)
    BY <1>1, ExceptSeq
  <1> QED
    BY <1>1, <1>2, <1>3, SeqIsUpTo

\* A batch is a sequence of at least one element.
LEMMA BatchLen ==
    ASSUME NEW batch \in Batches
    PROVE  Len(batch) \in 1 .. MaxBatch
  <1>1. PICK k \in 1 .. MaxBatch : batch \in [1 .. k -> Value]
    BY DEF Batches
  <1>2. k \in Nat
    BY <1>1, BatchAssumption, SMT
  <1> QED
    BY <1>1, <1>2, FunctionIsSeq

\* The part of a batch that fits.
LEMMA CutBatch ==
    ASSUME NEW batch \in Batches, NEW m \in 0 .. Len(batch)
    PROVE  /\ SubSeq(batch, 1, m) \in Items
           /\ Len(SubSeq(batch, 1, m)) = m
  <1>1. PICK k \in 1 .. MaxBatch : batch \in [1 .. k -> Value]
    BY DEF Batches
  <1>2. k \in Nat /\ MaxBatch \in Nat /\ k <= MaxBatch
    BY <1>1, BatchAssumption, SMT
  <1>3. batch \in Seq(Value) /\ Len(batch) = k
    BY <1>1, <1>2, FunctionIsSeq
  <1>4. \A i \in 1 .. m : batch[i] \in Value
    BY <1>1, <1>2, <1>3, SMT
  <1>5. /\ SubSeq(batch, 1, m) \in Seq(Value)
        /\ Len(SubSeq(batch, 1, m)) = m
    BY <1>2, <1>3, <1>4, SubSeqProperties, SMT
  <1>6. SubSeq(batch, 1, m) \in [1 .. m -> Value]
    BY <1>5, LenProperties
  <1>7. m \in 0 .. MaxBatch
    BY <1>2, <1>3, SMT
  <1> QED
    BY <1>2, <1>3, <1>5, <1>6, <1>7, SeqIsUpTo DEF Items

-----------------------------------------------------------------------------
(* Shape is inductive. *)

\* What Shape says of the buffers and the indices, in the form the steps use.
LEMMA ShapeFacts ==
    ASSUME Shape
    PROVE  /\ Len(wbuf) \in 0 .. MaxBatch /\ wbuf \in [1 .. Len(wbuf) -> Value]
           /\ Len(rbuf) \in 0 .. MaxBatch
           /\ rbuf \in [1 .. Len(rbuf) -> Value \cup {NoValue}]
           /\ Used(in, out) \in 0 .. Size
           /\ Len(wbuf) \in 0 .. Size /\ Len(rbuf) \in 0 .. Size
           /\ Unused(in, out) = Size - Used(in, out)
           /\ MaxBatch \in Nat
  <1>1. MaxBatch \in Nat /\ Size \in Nat
    BY BatchAssumption, SizeAssumption
  <1>2. Len(wbuf) \in 0 .. MaxBatch /\ wbuf \in [1 .. Len(wbuf) -> Value]
    BY <1>1, UpToIsSeq DEF Shape, TypeOK, Items
  <1>3. /\ Len(rbuf) \in 0 .. MaxBatch
        /\ rbuf \in [1 .. Len(rbuf) -> Value \cup {NoValue}]
    BY <1>1, UpToIsSeq DEF Shape, TypeOK, Partial
  <1>4. Used(in, out) \in 0 .. Wrap - 1
    BY UsedIs DEF Shape, TypeOK
  <1>5. /\ Used(in, out) \in 0 .. Size
        /\ Len(wbuf) \in 0 .. Size /\ Len(rbuf) \in 0 .. Size
    BY <1>1, <1>2, <1>3, <1>4, SMT DEF Shape, NoOverrun, GrantsHold
  <1>6. Unused(in, out) = Size - Used(in, out)
    BY <1>5, UnusedIs DEF Shape, TypeOK
  <1> QED
    BY <1>1, <1>2, <1>3, <1>5, <1>6

LEMMA ShapeInit == Init => Shape
  <1> SUFFICES ASSUME Init PROVE Shape
    OBVIOUS
  <1>1. MaxBatch \in Nat /\ Size \in Nat /\ 0 \in Index
    BY BatchAssumption, SizeAssumption, WrapAssumption, SMT DEF Index
  <1>2. Len(<<>>) = 0 /\ <<>> \in Items /\ <<>> \in Partial
    BY <1>1, EmptyBuffer DEF Items, Partial
  <1>3. Used(in, out) = 0
    BY <1>1, UsedIs, SMT DEF Init
  <1>4. TypeOK
    BY <1>1, <1>2 DEF Init, TypeOK
  <1>5. NoOverrun
    BY <1>1, <1>2, <1>3, SMT DEF Init, NoOverrun
  <1>6. GrantsHold
    BY <1>2, <1>3, SMT DEF Init, GrantsHold
  <1> QED
    BY <1>4, <1>5, <1>6 DEF Shape

\* Starting a write grants at most the free slots.
LEMMA ShapeInBegin ==
    ASSUME Shape, NEW batch \in Batches, InBegin(batch)
    PROVE  Shape'
  <1> DEFINE m == MinOf(Len(batch), Unused(in, out))
  <1>1. m \in 0 .. Len(batch) /\ Used(in, out) + m <= Size
    BY BatchLen, ShapeFacts, SizeAssumption, SMT DEF MinOf
  <1>2. wbuf' \in Items /\ Len(wbuf') = m /\ wleft' = 1 .. m
    BY <1>1, CutBatch DEF InBegin
  <1> HIDE DEF m
  <1>3. TypeOK'
    BY <1>2 DEF InBegin, Shape, TypeOK, reader
  <1>4. NoOverrun'
    BY <1>1, <1>2 DEF InBegin, NoOverrun
  <1>5. GrantsHold'
    BY DEF InBegin, Shape, GrantsHold, reader
  <1> QED
    BY <1>3, <1>4, <1>5 DEF Shape

LEMMA ShapePutBegin ==
    ASSUME Shape, NEW v \in Value, PutBegin(v)
    PROVE  Shape'
  <1>1. Used(in, out) + 1 <= Size
    BY ShapeFacts, SizeAssumption, SMT DEF PutBegin, IsFull
  <1>2. 1 \in 0 .. MaxBatch /\ <<v>> \in [1 .. 1 -> Value]
    BY BatchAssumption, SMT
  <1>3. wbuf' \in Items /\ Len(wbuf') = 1
    BY <1>2, BatchAssumption, FunctionIsSeq, SeqIsUpTo DEF PutBegin, Items
  <1>4. wleft' \subseteq 1 .. Len(wbuf')
    BY <1>3, SMT DEF PutBegin
  <1>5. TypeOK'
    BY <1>3, <1>4 DEF PutBegin, Shape, TypeOK, reader
  <1>6. NoOverrun'
    BY <1>1, <1>3 DEF PutBegin, NoOverrun
  <1>7. GrantsHold'
    BY DEF PutBegin, Shape, GrantsHold, reader
  <1> QED
    BY <1>5, <1>6, <1>7 DEF Shape

\* The slots a copy addresses are slots of the buffer.
LEMMA ShapeCopyIn ==
    ASSUME Shape, NEW p \in wleft, CopyIn(p)
    PROVE  Shape'
  <1>1. p \in 1 .. Len(wbuf) /\ wbuf[p] \in Value
    BY ShapeFacts DEF Shape, TypeOK
  <1>2. data' \in [Slots -> Value]
    BY <1>1 DEF CopyIn, Shape, TypeOK
  <1>3. TypeOK'
    BY <1>2 DEF CopyIn, Shape, TypeOK, reader
  <1>4. NoOverrun'
    BY DEF CopyIn, Shape, NoOverrun
  <1>5. GrantsHold'
    BY DEF CopyIn, Shape, GrantsHold, reader
  <1> QED
    BY <1>3, <1>4, <1>5 DEF Shape

\* Publishing moves the granted elements from the writer's account to the
\* fifo's: their sum is what NoOverrun bounds.
LEMMA ShapeInCommit ==
    ASSUME Shape, InCommit
    PROVE  Shape'
  <1>1. /\ in' \in Index
        /\ Used(in', out) = Used(in, out) + Len(wbuf)
        /\ out' = out
    BY ShapeFacts, AdvanceIs, UsedAfterIn DEF InCommit, Shape, TypeOK, NoOverrun
  <1>2. wbuf' \in Items /\ Len(wbuf') = 0 /\ wleft' = {}
    BY EmptyBuffer, BatchAssumption DEF InCommit, Items
  <1>3. TypeOK'
    BY <1>1, <1>2 DEF InCommit, Shape, TypeOK, reader
  <1>4. NoOverrun'
    BY <1>1, <1>2, ShapeFacts, SMT DEF Shape, NoOverrun
  <1>5. /\ wpc' = "idle" => wbuf' = <<>> /\ wleft' = {}
        /\ rop' \in {"idle", "reset"} => rbuf' = <<>> /\ rleft' = {}
    BY <1>2 DEF InCommit, Shape, GrantsHold, reader
  <1>6. Len(rbuf') <= Used(in', out')
    BY <1>1, ShapeFacts, SMT DEF InCommit, reader, Shape, GrantsHold
  <1>7. rop' = "reset" => Used(rin', out') <= Used(in', out')
    <2> SUFFICES ASSUME rop = "reset" PROVE Used(rin, out) <= Used(in', out)
      BY <1>1 DEF InCommit, reader
    <2>1. Used(rin, out) <= Used(in, out) /\ Used(rin, out) \in 0 .. Wrap - 1
      BY UsedIs DEF Shape, TypeOK, GrantsHold
    <2> QED
      BY <1>1, <2>1, ShapeFacts, WrapAssumption, SMT
  <1> QED
    BY <1>3, <1>4, <1>5, <1>6, <1>7 DEF Shape, GrantsHold

LEMMA ShapeStartCopyOut ==
    ASSUME Shape, NEW op \in {"out", "peek"}, NEW len \in 0 .. MaxBatch,
           len <= Used(in, out), StartCopyOut(op, len)
    PROVE  Shape'
  <1>1. len \in Nat /\ rbuf' \in [1 .. len -> Value \cup {NoValue}]
    BY BatchAssumption, SMT DEF StartCopyOut
  <1>2. rbuf' \in Partial /\ Len(rbuf') = len /\ rleft' = 1 .. len
    BY <1>1, FunctionIsSeq, SeqIsUpTo, BatchAssumption DEF StartCopyOut, Partial
  <1>3. TypeOK'
    BY <1>2 DEF StartCopyOut, Shape, TypeOK, writer
  <1>4. NoOverrun'
    BY DEF StartCopyOut, Shape, NoOverrun, writer
  <1>5. GrantsHold'
    BY <1>2 DEF StartCopyOut, Shape, GrantsHold, writer
  <1> QED
    BY <1>3, <1>4, <1>5 DEF Shape

LEMMA ShapeOutBegin ==
    ASSUME Shape, NEW op \in {"out", "peek"}, NEW n \in 1 .. MaxBatch, OutBegin(op, n)
    PROVE  Shape'
  <1> DEFINE len == MinOf(n, Used(in, out))
  <1>1. len \in 0 .. MaxBatch /\ len <= Used(in, out)
    BY ShapeFacts, SizeAssumption, SMT DEF MinOf
  <1>2. StartCopyOut(op, len)
    BY DEF OutBegin
  <1> HIDE DEF len
  <1> QED
    BY <1>1, <1>2, ShapeStartCopyOut

LEMMA ShapeGetBegin ==
    ASSUME Shape, NEW op \in {"out", "peek"}, GetBegin(op)
    PROVE  Shape'
  <1>1. in \in Index /\ out \in Index /\ in # out
    BY DEF Shape, TypeOK, GetBegin, IsEmpty
  <1>2. Used(in, out) >= 1
    <2>1. Used(in, out) = IF out <= in THEN in - out ELSE in - out + Wrap
      BY <1>1, UsedIs
    <2> QED
      BY <1>1, <2>1, WrapAssumption, SMT DEF Index
  <1>3. 1 \in 0 .. MaxBatch /\ 1 <= Used(in, out)
    BY <1>2, BatchAssumption, ShapeFacts, SMT
  <1> QED
    BY <1>3, ShapeStartCopyOut DEF GetBegin

LEMMA ShapeCopyOut ==
    ASSUME Shape, NEW p \in rleft, CopyOut(p)
    PROVE  Shape'
  <1>1. p \in 1 .. Len(rbuf)
    BY DEF Shape, TypeOK
  <1> DEFINE s == Slot(Len(rbuf), out, p)
  <1>2. s \in Slots
    <2>1. s = RingSlot(out, p)
      BY <1>1, ShapeFacts, SlotIsRingSlot DEF Shape, TypeOK
    <2>2. out \in Int /\ p \in Int
      BY <1>1, ShapeFacts, SMT DEF Shape, TypeOK, Index
    <2> QED
      BY <2>1, <2>2, RingSlotType
  <1>3. data[s] \in Value \cup {NoValue}
    BY <1>2 DEF Shape, TypeOK
  <1> HIDE DEF s
  <1>4. rbuf' = [rbuf EXCEPT ![p] = data[s]]
    BY DEF CopyOut, s
  <1>5. rbuf' \in Partial /\ Len(rbuf') = Len(rbuf)
    <2> DEFINE V == Value \cup {NoValue}  v == data[s]  t == [rbuf EXCEPT ![p] = v]
    <2>1. rbuf \in UpTo(MaxBatch, V) /\ MaxBatch \in Nat /\ v \in V
      BY <1>3, BatchAssumption DEF Shape, TypeOK, Partial
    <2> HIDE DEF V, v
    <2>2. t \in UpTo(MaxBatch, V) /\ Len(t) = Len(rbuf)
      BY <1>1, <2>1, ExceptBuffer
    <2>3. rbuf' = t
      BY <1>4 DEF v
    <2> HIDE DEF t
    <2> QED
      BY <2>2, <2>3 DEF Partial, V
  <1>6. \A q \in (1 .. Len(rbuf')) \ rleft' : rbuf'[q] \in Value
    BY <1>2, <1>4, <1>5, ShapeFacts DEF CopyOut, Shape, TypeOK
  <1>7. TypeOK'
    BY <1>5, <1>6 DEF CopyOut, Shape, TypeOK, writer
  <1>8. NoOverrun'
    BY DEF CopyOut, Shape, NoOverrun, writer
  <1>9. GrantsHold'
    BY <1>5 DEF CopyOut, Shape, GrantsHold, writer
  <1> QED
    BY <1>7, <1>8, <1>9 DEF Shape

\* Both ways of finishing a read return a completely copied buffer.
LEMMA ShapeFinishRead ==
    ASSUME Shape, FinishRead, out' \in Index,
           Used(in, out') <= Used(in, out)
    PROVE  Shape'
  <1>1. got' \in Items
    <2>1. \A p \in 1 .. Len(rbuf) : rbuf[p] \in Value
      BY DEF FinishRead, Shape, TypeOK
    <2>2. rbuf \in [1 .. Len(rbuf) -> Value]
      BY <2>1, ShapeFacts
    <2> QED
      BY <2>2, ShapeFacts, SeqIsUpTo DEF FinishRead, Items
  <1>2. rbuf' \in Partial /\ Len(rbuf') = 0 /\ rleft' = {} /\ rbuf' = <<>>
    BY EmptyBuffer, BatchAssumption DEF FinishRead, Partial
  <1>3. Used(in, out') \in 0 .. Wrap - 1
    BY UsedIs DEF Shape, TypeOK
  <1>4. \A p \in (1 .. Len(rbuf')) \ rleft' : rbuf'[p] \in Value
    BY <1>2, SMT
  <1>5. TypeOK'
    BY <1>1, <1>2, <1>4 DEF FinishRead, Shape, TypeOK, writer
  <1>6. NoOverrun'
    BY <1>3, ShapeFacts, WrapAssumption, SizeAssumption, SMT
        DEF FinishRead, Shape, NoOverrun, writer
  <1>7. GrantsHold'
    BY <1>2, <1>3, SMT DEF FinishRead, Shape, GrantsHold, writer
  <1> QED
    BY <1>5, <1>6, <1>7 DEF Shape

LEMMA ShapeOutCommit ==
    ASSUME Shape, OutCommit
    PROVE  Shape'
  <1>1. Len(rbuf) \in 0 .. Size /\ Len(rbuf) <= Used(in, out)
    BY ShapeFacts DEF Shape, GrantsHold
  <1>2. out' \in Index /\ Used(in, out') = Used(in, out) - Len(rbuf)
    BY <1>1, AdvanceIs, UsedAfterOut DEF OutCommit, Shape, TypeOK
  <1>3. Used(in, out') <= Used(in, out)
    BY <1>1, <1>2, ShapeFacts, SizeAssumption, SMT
  <1> QED
    BY <1>2, <1>3, ShapeFinishRead DEF OutCommit

LEMMA ShapePeekEnd ==
    ASSUME Shape, PeekEnd
    PROVE  Shape'
  <1>1. out' \in Index /\ Used(in, out') = Used(in, out)
    BY DEF PeekEnd, Shape, TypeOK
  <1>2. Used(in, out') <= Used(in, out)
    BY <1>1, ShapeFacts, SizeAssumption, SMT
  <1> QED
    BY <1>1, <1>2, ShapeFinishRead DEF PeekEnd

\* A step of an idle reader that only moves `out` towards `in`.
LEMMA ShapeMoveOut ==
    ASSUME Shape, rbuf = <<>>, rleft = {}, out' \in Index,
           Used(in, out') <= Used(in, out),
           UNCHANGED <<data, in, writer, rbuf, rleft, got>>,
           rop' = "idle", rin' \in Index
    PROVE  Shape'
  <1>1. Used(in, out') \in 0 .. Wrap - 1
    BY UsedIs DEF Shape, TypeOK
  <1>2. Len(rbuf) = 0
    BY EmptySeq
  <1>3. TypeOK'
    BY DEF Shape, TypeOK, writer
  <1>4. NoOverrun'
    BY <1>1, ShapeFacts, WrapAssumption, SizeAssumption, SMT DEF Shape, NoOverrun, writer
  <1>5. GrantsHold'
    BY <1>1, <1>2, SMT DEF Shape, GrantsHold, writer
  <1> QED
    BY <1>3, <1>4, <1>5 DEF Shape

LEMMA ShapeSkip ==
    ASSUME Shape, Skip
    PROVE  Shape'
  <1>1. in \in Index /\ out \in Index /\ in # out
    BY DEF Shape, TypeOK, Skip, IsEmpty
  <1>2. Used(in, out) = IF out <= in THEN in - out ELSE in - out + Wrap
    BY <1>1, UsedIs
  <1>3. Used(in, out) >= 1 /\ 1 \in 0 .. Size
    BY <1>1, <1>2, WrapAssumption, SizeAssumption, SMT DEF Index
  <1>4. out' \in Index /\ Used(in, out') = Used(in, out) - 1
    BY <1>1, <1>3, AdvanceIs, UsedAfterOut DEF Skip
  <1>5. Used(in, out') <= Used(in, out)
    BY <1>4, ShapeFacts, SizeAssumption, SMT
  <1> QED
    BY <1>4, <1>5, ShapeMoveOut DEF Skip, reader, Shape, GrantsHold, TypeOK

\* The target of pfifo_reset_out is `in` itself when it is loaded...
LEMMA ShapeResetOutLoad ==
    ASSUME Shape, ResetOutLoad
    PROVE  Shape'
  <1>1. rin' \in Index /\ rin' = in
    BY DEF ResetOutLoad, Shape, TypeOK
  <1>2. Used(rin', out') <= Used(in', out')
    BY <1>1, ShapeFacts, SizeAssumption, SMT DEF ResetOutLoad
  <1>3. TypeOK'
    BY <1>1 DEF ResetOutLoad, Shape, TypeOK, writer
  <1>4. NoOverrun'
    BY DEF ResetOutLoad, Shape, NoOverrun, writer
  <1>5. GrantsHold'
    BY <1>2 DEF ResetOutLoad, Shape, GrantsHold, writer
  <1> QED
    BY <1>3, <1>4, <1>5 DEF Shape

\* ... and lies between `out` and `in` when it is stored.
LEMMA ShapeResetOutStore ==
    ASSUME Shape, ResetOutStore
    PROVE  Shape'
  <1>1. /\ in \in Index /\ out \in Index /\ rin \in Index
        /\ Used(rin, out) <= Used(in, out)
    BY DEF ResetOutStore, Shape, TypeOK, GrantsHold
  <1>2. /\ Used(rin, out) = IF out <= rin THEN rin - out ELSE rin - out + Wrap
        /\ Used(in, out) = IF out <= in THEN in - out ELSE in - out + Wrap
        /\ Used(in, rin) = IF rin <= in THEN in - rin ELSE in - rin + Wrap
    BY <1>1, UsedIs
  <1>3. Used(in, rin) <= Used(in, out)
    BY <1>1, <1>2, WrapAssumption, SMT DEF Index
  <1>4. 0 \in Index
    BY WrapAssumption, SizeAssumption, SMT DEF Index
  <1> QED
    BY <1>1, <1>3, <1>4, ShapeMoveOut DEF ResetOutStore, Shape, GrantsHold

LEMMA ShapeReset ==
    ASSUME Shape, Reset
    PROVE  Shape'
  <1>1. 0 \in Index
    BY WrapAssumption, SizeAssumption, SMT DEF Index
  <1>2. Used(in', out') = 0
    BY <1>1, UsedIs, SMT DEF Reset
  <1>3. wbuf = <<>> /\ rbuf = <<>> /\ Len(wbuf) = 0 /\ Len(rbuf) = 0
    BY EmptySeq DEF Reset, Shape, GrantsHold
  <1>4. TypeOK'
    BY <1>1 DEF Reset, Shape, TypeOK, writer, reader
  <1>5. NoOverrun'
    BY <1>2, <1>3, SizeAssumption, SMT DEF Reset, NoOverrun, writer
  <1>6. GrantsHold'
    BY <1>2, <1>3, SMT DEF Reset, Shape, GrantsHold, writer, reader
  <1> QED
    BY <1>4, <1>5, <1>6 DEF Shape

LEMMA ShapeStep == Shape /\ [Next]_vars => Shape'
  <1> SUFFICES ASSUME Shape, [Next]_vars PROVE Shape'
    OBVIOUS
  <1>1. CASE WriterCall
    BY <1>1, ShapeInBegin, ShapePutBegin DEF WriterCall
  <1>2. CASE WriterStep
    BY <1>2, ShapeCopyIn, ShapeInCommit DEF WriterStep
  <1>3. CASE ReaderCall
    BY <1>3, ShapeOutBegin, ShapeGetBegin, ShapeSkip, ShapeResetOutLoad DEF ReaderCall
  <1>4. CASE ReaderStep
    BY <1>4, ShapeCopyOut, ShapeOutCommit, ShapePeekEnd, ShapeResetOutStore DEF ReaderStep
  <1>5. CASE Reset
    BY <1>5, ShapeReset
  <1>6. CASE UNCHANGED vars
    BY <1>6 DEF vars, writer, reader, Shape, TypeOK, NoOverrun, GrantsHold
  <1> QED
    BY <1>1, <1>2, <1>3, <1>4, <1>5, <1>6 DEF Next

\* Every reachable state has the right types.
THEOREM TypeCorrect == Spec => []TypeOK
  <1>1. Shape => TypeOK
    BY DEF Shape
  <1> QED
    BY <1>1, ShapeInit, ShapeStep, PTL DEF Spec

\* The writer is never more than one buffer ahead of the reader, at any size,
\* index width and batch size, although both indices wrap.
THEOREM NeverOverrun == Spec => [](NoOverrun /\ GrantsHold)
  <1>1. Shape => NoOverrun /\ GrantsHold
    BY DEF Shape
  <1> QED
    BY <1>1, ShapeInit, ShapeStep, PTL DEF Spec

-----------------------------------------------------------------------------
(* No two threads on one slot *)

\* Element p of the write in progress lies p places behind the committed ones.
LEMMA WriterSlotIs ==
    ASSUME Shape, NEW p \in 1 .. Len(wbuf)
    PROVE  /\ Slot(Len(wbuf), in, p) = RingSlot(in, p)
           /\ RingSlot(in, p) = RingSlot(out, Used(in, out) + p)
           /\ Used(in, out) + p \in 1 .. Size
           /\ RingSlot(in, p) \in Slots
  <1>1. in \in Index /\ out \in Index /\ p \in Int /\ in \in Int
    BY ShapeFacts, WrapAssumption, SMT DEF Shape, TypeOK, Index
  <1>2. Used(in, out) + p \in 1 .. Size
    BY ShapeFacts, SizeAssumption, SMT DEF Shape, NoOverrun
  <1> QED
    BY <1>1, <1>2, ShapeFacts, SlotIsRingSlot, RingSlotBehindIn, RingSlotType

\* Element p of the read in progress is element p of the fifo.
LEMMA ReaderSlotIs ==
    ASSUME Shape, NEW p \in 1 .. Len(rbuf)
    PROVE  /\ Slot(Len(rbuf), out, p) = RingSlot(out, p)
           /\ p \in 1 .. Used(in, out)
  <1>1. p \in 1 .. Used(in, out)
    BY ShapeFacts, SMT DEF Shape, GrantsHold
  <1> QED
    BY <1>1, ShapeFacts, SlotIsRingSlot DEF Shape, TypeOK

\* The writer's slots are disjoint from everything the reader still looks at.
LEMMA WriterSlotIsFree ==
    ASSUME Shape, NEW p \in 1 .. Len(wbuf), NEW q \in 1 .. Used(in, out)
    PROVE  RingSlot(in, p) # RingSlot(out, q)
  <1>1. /\ q \in 1 .. Size /\ q # Used(in, out) + p
        /\ out \in Int
    BY ShapeFacts, SizeAssumption, WrapAssumption, SMT DEF Shape, TypeOK, Index
  <1>2. RingSlot(in, p) = RingSlot(out, Used(in, out) + p) /\ Used(in, out) + p \in 1 .. Size
    BY WriterSlotIs
  <1> QED
    BY <1>1, <1>2, RingSlotInjective

\* One reader and one writer need no lock: at no point do they touch the same
\* slot, for any buffer size and wherever the copies wrap.
THEOREM NeverRace == Spec => []NoRace
  <1>1. Shape => NoRace
    <2> SUFFICES ASSUME Shape,
                        NEW p \in 1 .. Len(wbuf),
                        NEW x \in ReaderSlots \cup UnreadSlots,
                        x = Slot(Len(wbuf), in, p)
                 PROVE  FALSE
      BY DEF NoRace, WriterSlots
    <2>1. PICK q \in 1 .. Used(in, out) : x = RingSlot(out, q)
      BY ReaderSlotIs DEF ReaderSlots, UnreadSlots
    <2> QED
      BY <2>1, WriterSlotIs, WriterSlotIsFree
  <1> QED
    BY <1>1, ShapeInit, ShapeStep, PTL DEF Spec

-----------------------------------------------------------------------------
(* What the slots hold *)

\* ReadIsFresh without the queue: Shape already bounds the positions.
Copied == \A p \in (1 .. Len(rbuf)) \ rleft : rbuf[p] = data[RingSlot(out, p)]

Intact == Shape /\ Copied /\ StagedIsIntact

LEMMA CopiedIsFresh == Shape => (Copied <=> ReadIsFresh)
  <1> SUFFICES ASSUME Shape PROVE Copied <=> ReadIsFresh
    OBVIOUS
  <1>1. \A p \in 1 .. Len(rbuf) : p \in 1 .. Used(in, out)
    BY ReaderSlotIs
  <1>2. \A p \in 1 .. Used(in, out) :
            Contents(data, in, out)[p] = data[RingSlot(out, p)] /\ p <= Used(in, out)
    BY ShapeFacts, SizeAssumption, SMT DEF Contents
  <1> QED
    BY <1>1, <1>2 DEF Copied, ReadIsFresh

LEMMA IntactInit == Init => Intact
  <1> SUFFICES ASSUME Init PROVE Copied /\ StagedIsIntact
    BY ShapeInit DEF Intact
  <1>1. Len(wbuf) = 0 /\ Len(rbuf) = 0
    BY EmptySeq DEF Init
  <1> QED
    BY <1>1, SMT DEF Copied, StagedIsIntact

\* Storing an element disturbs neither what the reader has copied from nor
\* what the writer stored before.
LEMMA IntactCopyIn ==
    ASSUME Intact, NEW p \in wleft, CopyIn(p)
    PROVE  Copied' /\ StagedIsIntact'
  <1>1. p \in 1 .. Len(wbuf) /\ Shape
    BY DEF Intact, Shape, TypeOK
  <1>2. /\ RingSlot(in, p) \in Slots
        /\ data' = [data EXCEPT ![RingSlot(in, p)] = wbuf[p]]
        /\ data \in [Slots -> Value]
    BY <1>1, WriterSlotIs DEF CopyIn, Shape, TypeOK
  <1>3. Copied'
    <2> SUFFICES ASSUME NEW q \in (1 .. Len(rbuf)) \ rleft
                 PROVE  rbuf[q] = data'[RingSlot(out, q)]
      BY DEF Copied, CopyIn, reader
    <2>1. rbuf[q] = data[RingSlot(out, q)]
      BY DEF Intact, Copied
    <2>2. q \in 1 .. Used(in, out) /\ RingSlot(out, q) # RingSlot(in, p)
      BY <1>1, ReaderSlotIs, WriterSlotIsFree
    <2>3. out \in Int /\ q \in Int
      BY <1>1, ShapeFacts, WrapAssumption, SMT DEF Shape, TypeOK, Index
    <2>4. RingSlot(out, q) \in Slots
      BY <2>3, RingSlotType
    <2> QED
      BY <1>2, <2>1, <2>2, <2>4
  <1>4. StagedIsIntact'
    <2> SUFFICES ASSUME NEW q \in (1 .. Len(wbuf)) \ (wleft \ {p})
                 PROVE  data'[RingSlot(in, q)] = wbuf[q]
      BY DEF StagedIsIntact, CopyIn
    <2>1. CASE q = p
      BY <1>2, <2>1
    <2>2. CASE q # p
      <3>1. data[RingSlot(in, q)] = wbuf[q]
        BY <2>2 DEF Intact, StagedIsIntact
      <3>2. RingSlot(in, q) \in Slots
        BY <1>1, WriterSlotIs
      <3>3. in \in Int /\ p \in 1 .. Size /\ q \in 1 .. Size
        BY <1>1, ShapeFacts, WrapAssumption, SizeAssumption, SMT DEF Shape, TypeOK, Index
      <3>4. RingSlot(in, q) # RingSlot(in, p)
        BY <2>2, <3>3, RingSlotInjective
      <3> QED
        BY <1>2, <3>1, <3>2, <3>4
    <2> QED
      BY <2>1, <2>2
  <1> QED
    BY <1>3, <1>4

LEMMA IntactCopyOut ==
    ASSUME Intact, NEW p \in rleft, CopyOut(p)
    PROVE  Copied' /\ StagedIsIntact'
  <1>1. p \in 1 .. Len(rbuf) /\ Shape
    BY DEF Intact, Shape, TypeOK
  <1>2. rbuf' = [rbuf EXCEPT ![p] = data[RingSlot(out, p)]]
    BY <1>1, ReaderSlotIs DEF CopyOut
  <1>3. rbuf \in [1 .. Len(rbuf) -> Value \cup {NoValue}] /\ Len(rbuf) \in Nat
    BY <1>1, ShapeFacts, SMT
  <1>4. rbuf' \in [1 .. Len(rbuf) -> {rbuf'[q] : q \in 1 .. Len(rbuf)}]
    BY <1>2, <1>3
  <1>5. Len(rbuf') = Len(rbuf)
    BY <1>3, <1>4, FunctionIsSeq
  <1>6. Copied'
    BY <1>1, <1>2, <1>3, <1>5 DEF Intact, Copied, CopyOut
  <1>7. StagedIsIntact'
    BY DEF Intact, StagedIsIntact, CopyOut, writer
  <1> QED
    BY <1>6, <1>7

LEMMA IntactStep == Intact /\ [Next]_vars => Intact'
  <1> SUFFICES ASSUME Intact, [Next]_vars PROVE Copied' /\ StagedIsIntact'
    BY ShapeStep DEF Intact
  <1>e. Len(<<>>) = 0 /\ 1 .. 0 = {}
    BY EmptySeq, SMT
  <1>l. Len(wbuf) \in Nat /\ Len(rbuf) \in Nat
    BY ShapeFacts, SMT DEF Intact
  <1>1. ASSUME NEW batch \in Batches, InBegin(batch)
        PROVE  Copied' /\ StagedIsIntact'
    <2> DEFINE m == MinOf(Len(batch), Unused(in, out))
    <2>1. m \in 0 .. Len(batch)
      BY BatchLen, ShapeFacts, SizeAssumption, SMT DEF MinOf, Intact
    <2>2. Len(wbuf') = m /\ wleft' = 1 .. m
      BY <1>1, <2>1, CutBatch DEF InBegin
    <2> HIDE DEF m
    <2> QED
      BY <1>1, <2>2 DEF InBegin, Intact, Copied, StagedIsIntact, reader
  <1>2. ASSUME NEW v \in Value, PutBegin(v)
        PROVE  Copied' /\ StagedIsIntact'
    <2>1. Len(wbuf') = 1 /\ wleft' = 1 .. 1
      BY <1>2, SMT DEF PutBegin
    <2> QED
      BY <1>2, <2>1 DEF PutBegin, Intact, Copied, StagedIsIntact, reader
  <1>3. CASE InCommit
    BY <1>3, <1>e DEF InCommit, Intact, Copied, StagedIsIntact, reader
  <1>4. ASSUME NEW op, NEW len \in Nat, StartCopyOut(op, len)
        PROVE  Copied' /\ StagedIsIntact'
    <2>1. rbuf' \in [1 .. len -> {NoValue}]
      BY <1>4 DEF StartCopyOut
    <2>2. Len(rbuf') = len /\ rleft' = 1 .. len
      BY <1>4, <2>1, FunctionIsSeq DEF StartCopyOut
    <2> QED
      BY <1>4, <2>2 DEF StartCopyOut, Intact, Copied, StagedIsIntact, writer
  <1>5. ASSUME FinishRead PROVE Copied' /\ StagedIsIntact'
    BY <1>5, <1>e DEF FinishRead, Intact, Copied, StagedIsIntact, writer
  <1>6. CASE ReaderCall
    <2>1. ASSUME NEW n \in 1 .. MaxBatch
          PROVE  MinOf(n, Used(in, out)) \in Nat
      BY ShapeFacts, SizeAssumption, SMT DEF MinOf, Intact
    <2>2. ASSUME Skip \/ ResetOutLoad PROVE Copied' /\ StagedIsIntact'
      BY <2>2, <1>e DEF Skip, ResetOutLoad, Intact, Shape, GrantsHold, Copied,
            StagedIsIntact, writer, reader
    <2> QED
      BY <1>4, <1>6, <2>1, <2>2 DEF ReaderCall, GetBegin, OutBegin
  <1>7. CASE ReaderStep
    <2>1. ASSUME ResetOutStore PROVE Copied' /\ StagedIsIntact'
      BY <2>1, <1>e DEF ResetOutStore, Intact, Shape, GrantsHold, Copied, StagedIsIntact, writer
    <2> QED
      BY <1>5, <1>7, <2>1, IntactCopyOut DEF ReaderStep, OutCommit, PeekEnd
  <1>8. CASE Reset
    BY <1>8, <1>e DEF Reset, Intact, Shape, GrantsHold, Copied, StagedIsIntact, writer, reader
  <1>9. CASE UNCHANGED vars
    BY <1>9 DEF vars, writer, reader, Intact, Copied, StagedIsIntact
  <1> QED
    BY <1>1, <1>2, <1>3, <1>6, <1>7, <1>8, <1>9, IntactCopyIn DEF Next, WriterCall, WriterStep

\* A read in progress copies the front of the fifo, and a write in progress
\* finds what it stored untouched, whatever the other thread does meanwhile.
THEOREM CopiesAreIntact == Spec => [](ReadIsFresh /\ StagedIsIntact)
  <1>1. Intact => ReadIsFresh /\ StagedIsIntact
    BY CopiedIsFresh DEF Intact
  <1> QED
    BY <1>1, IntactInit, IntactStep, PTL DEF Spec

-----------------------------------------------------------------------------
(* The fifo implements FifoQueue *)

Queue == Contents(data, in, out)

LEMMA QueueIsSeq ==
    ASSUME Shape
    PROVE  /\ Queue \in Seq(Value) /\ Len(Queue) = Used(in, out)
           /\ \A p \in 1 .. Used(in, out) : Queue[p] = data[RingSlot(out, p)]
  <1>1. data \in [Slots -> Value] /\ in \in Index /\ out \in Index
    BY DEF Shape, TypeOK
  <1> QED
    BY <1>1, ContentsIsSeq DEF Queue

\* Steps that move neither index and spare the unread slots are invisible.
LEMMA QueueUnchanged ==
    ASSUME Shape, Shape', UNCHANGED <<in, out>>,
           \A p \in 1 .. Used(in, out) : data'[RingSlot(out, p)] = data[RingSlot(out, p)]
    PROVE  Queue' = Queue
  BY DEF Queue, Contents

\* Moving `out` n places forward removes the n oldest elements.
LEMMA QueueDropped ==
    ASSUME Shape, Shape', UNCHANGED <<data, in>>, NEW n \in 0 .. Used(in, out),
           Used(in, out') = Used(in, out) - n,
           \A p \in 1 .. Used(in, out) - n : RingSlot(out', p) = RingSlot(out, n + p)
    PROVE  Queue' = Fifo!Rest(n)
  <1>1. data \in [Slots -> Value] /\ in \in Index /\ out \in Index /\ out' \in Index
    BY DEF Shape, TypeOK
  <1>2. Contents(data, in, out') = SubSeq(Queue, n + 1, Used(in, out))
    BY <1>1, ContentsDropped, ZenonT(60) DEF Queue
  <1>3. Queue' = Contents(data, in, out')
    BY DEF Queue
  <1> QED
    BY <1>2, <1>3, QueueIsSeq DEF Fifo!Rest, Queue

\* A finished read returns the front of the queue.
LEMMA ReadIsFront ==
    ASSUME Intact, FinishRead
    PROVE  /\ Len(rbuf) \in 0 .. Len(Queue)
           /\ got' = Fifo!Front(Len(rbuf))
  <1>1. Shape /\ Copied /\ rleft = {}
    BY DEF Intact, FinishRead
  <1>2. /\ Used(in, out) \in Nat /\ Len(rbuf) \in Nat /\ Len(rbuf) <= Used(in, out)
    BY <1>1, ShapeFacts, SizeAssumption, SMT DEF Shape, GrantsHold
  <1>3. /\ Queue \in Seq(Value) /\ Len(Queue) = Used(in, out)
        /\ \A p \in 1 .. Used(in, out) : Queue[p] = data[RingSlot(out, p)]
    BY <1>1, QueueIsSeq
  <1> DEFINE f == SubSeq(Queue, 1, Len(rbuf))
  <1>4. \A p \in 1 .. Len(rbuf) : Queue[p] \in Value
    BY <1>2, <1>3, ElementOfSeq, SMT
  <1>5. /\ f \in Seq(Value)
        /\ Len(f) = IF 1 <= Len(rbuf) THEN Len(rbuf) - 1 + 1 ELSE 0
        /\ \A p \in 1 .. Len(rbuf) - 1 + 1 : f[p] = Queue[1 + p - 1]
    BY <1>2, <1>4, SubSeqProperties, SMT
  <1>6. rbuf \in Seq(Value \cup {NoValue})
    BY <1>1, BatchAssumption, UpToIsSeq DEF Shape, TypeOK, Partial
  <1>7. f \in Seq(Value \cup {NoValue})
    BY <1>5, SeqMonotonic
  <1>8. Len(f) = Len(rbuf)
    BY <1>2, <1>5, SMT
  <1> HIDE DEF f
  <1>9. \A p \in 1 .. Len(rbuf) : rbuf[p] = f[p]
    <2> TAKE p \in 1 .. Len(rbuf)
    <2>1. /\ p \in 1 .. Used(in, out) /\ p \in 1 .. Len(rbuf) - 1 + 1
          /\ 1 + p - 1 = p
      BY <1>2, SMT
    <2> QED
      BY <1>1, <1>3, <1>5, <2>1 DEF Copied
  <1>10. rbuf = f
    BY <1>6, <1>7, <1>8, <1>9, SeqEqual
  <1>11. Len(rbuf) \in 0 .. Len(Queue)
    BY <1>2, <1>3, SMT
  <1> QED
    BY <1>10, <1>11 DEF f, FinishRead, Fifo!Front, Queue

\* A commit appends the batch behind the committed elements.
LEMMA QueueAppended ==
    ASSUME Intact, Intact', InCommit
    PROVE  Queue' = Queue \o wbuf
  <1>1. Shape /\ wleft = {} /\ data' = data /\ out' = out /\ in' = Advance(in, Len(wbuf))
    BY DEF Intact, InCommit
  <1>2. /\ data \in [Slots -> Value] /\ in \in Index /\ out \in Index
        /\ Used(in, out) + Len(wbuf) <= Size
        /\ wbuf \in Seq(Value)
    BY <1>1, BatchAssumption, UpToIsSeq DEF Shape, TypeOK, NoOverrun, Items
  <1>3. \A p \in 1 .. Len(wbuf) : data[RingSlot(in, p)] = wbuf[p]
    BY <1>1 DEF Intact, StagedIsIntact
  <1>4. Contents(data, in', out) = Contents(data, in, out) \o wbuf
    BY <1>1, <1>2, <1>3, ContentsAppended, ZenonT(60)
  <1>5. Queue' = Contents(data, in', out)
    BY <1>1 DEF Queue
  <1> QED
    BY <1>4, <1>5 DEF Queue

LEMMA FifoInit == Init => Fifo!Init
  <1> SUFFICES ASSUME Init PROVE Queue = <<>>
    BY DEF Fifo!Init, Init, Queue
  <1>1. in \in Index /\ out \in Index /\ data \in [Slots -> Value] /\ in = out /\ in = 0
    BY WrapAssumption, SizeAssumption, SMT DEF Init, Index
  <1>2. Used(in, out) = 0
    BY <1>1, UsedIs, SMT
  <1>3. Queue \in Seq(Value) /\ Len(Queue) = 0
    BY <1>1, <1>2, ContentsIsSeq DEF Queue
  <1> QED
    BY <1>3, EmptySeq

\* A call that starts to write offers what fits of its batch, if anything does.
LEMMA FifoOffer ==
    ASSUME Shape, NEW n \in 0 .. Size, Used(in, out) + n <= Size,
           wpc = "idle", UNCHANGED <<data, in, out, got>>,
           Len(wbuf') = n, wbuf' \in Items
    PROVE  [Fifo!Next]_(Fifo!qvars)
  <1>1. wbuf = <<>> /\ Queue' = Queue /\ Len(Queue) = Used(in, out)
    BY QueueIsSeq DEF Shape, GrantsHold, Queue
  <1>2. wbuf' \in Seq(Value) /\ wbuf' \in [1 .. n -> Value]
    BY BatchAssumption, UpToIsSeq DEF Items
  <1>3. CASE n = 0
    BY <1>1, <1>2, <1>3, EmptySeq DEF Fifo!qvars, Queue
  <1>4. CASE n # 0
    <2>1. n \in 1 .. Size
      BY <1>4, SizeAssumption, SMT
    <2>2. wbuf' \in Fifo!Batches
      BY <1>2, <2>1 DEF Fifo!Batches
    <2>3. Fifo!Offer
      BY <1>1, <2>2 DEF Fifo!Offer, Queue
    <2> QED
      BY <2>3 DEF Fifo!Next
  <1> QED
    BY <1>3, <1>4

LEMMA FifoInBegin ==
    ASSUME Shape, NEW batch \in Batches, InBegin(batch)
    PROVE  [Fifo!Next]_(Fifo!qvars)
  <1> DEFINE m == MinOf(Len(batch), Unused(in, out))
  <1>1. m \in 0 .. Len(batch) /\ Used(in, out) + m <= Size /\ m \in 0 .. Size
    BY BatchLen, ShapeFacts, SizeAssumption, SMT DEF MinOf
  <1>2. wbuf' \in Items /\ Len(wbuf') = m
    BY <1>1, CutBatch DEF InBegin
  <1> HIDE DEF m
  <1> QED
    BY <1>1, <1>2, FifoOffer DEF InBegin, reader

LEMMA FifoPutBegin ==
    ASSUME Shape, Shape', NEW v \in Value, PutBegin(v)
    PROVE  [Fifo!Next]_(Fifo!qvars)
  <1>1. Used(in, out) + 1 <= Size /\ 1 \in 0 .. Size
    BY ShapeFacts, SizeAssumption, SMT DEF PutBegin, IsFull
  <1>2. wbuf' \in Items /\ Len(wbuf') = 1
    BY SMT DEF PutBegin, Shape, TypeOK
  <1> QED
    BY <1>1, <1>2, FifoOffer DEF PutBegin, reader

\* pfifo_in and pfifo_put are one append; one of an empty batch changes nothing.
LEMMA FifoInCommit ==
    ASSUME Intact, Intact', InCommit
    PROVE  [Fifo!Next]_(Fifo!qvars)
  <1>1. Queue' = Queue \o wbuf /\ got' = got /\ wbuf' = <<>>
    BY QueueAppended DEF InCommit, reader
  <1>2. /\ Shape
        /\ Len(wbuf) \in 0 .. Size /\ wbuf \in [1 .. Len(wbuf) -> Value]
    BY ShapeFacts DEF Intact
  <1>3. Queue \in Seq(Value)
    BY <1>2, QueueIsSeq
  <1>4. CASE wbuf = <<>>
    <2>1. Queue' = Queue
      BY <1>1, <1>3, <1>4, ConcatEmptySeq
    <2> QED
      BY <1>1, <1>4, <2>1 DEF Fifo!qvars, Queue
  <1>5. CASE wbuf # <<>>
    <2>1. Fifo!Put
      BY <1>1, <1>5 DEF Fifo!Put, Queue
    <2> QED
      BY <2>1 DEF Fifo!Next
  <1> QED
    BY <1>4, <1>5

\* pfifo_out and pfifo_get take what they returned.
LEMMA FifoOutCommit ==
    ASSUME Intact, Intact', OutCommit
    PROVE  Fifo!Take
  <1> DEFINE n == Len(rbuf)
  <1>1. n \in 0 .. Len(Queue) /\ got' = Fifo!Front(n)
    BY ReadIsFront DEF OutCommit
  <1>2. Shape /\ Shape' /\ Len(Queue) = Used(in, out)
    BY QueueIsSeq DEF Intact
  <1>3. n \in 0 .. Size /\ n \in 0 .. Used(in, out) /\ out \in Index /\ in \in Index
    BY <1>1, <1>2, ShapeFacts DEF Shape, TypeOK
  <1>4. out' = Advance(out, n) /\ UNCHANGED <<data, in, wbuf>>
    BY DEF OutCommit, FinishRead, writer
  <1> HIDE DEF n
  <1>5. Used(in, out') = Used(in, out) - n
    BY <1>3, <1>4, UsedAfterOut, SMT
  <1>6. \A p \in 1 .. Used(in, out) - n : RingSlot(out', p) = RingSlot(out, n + p)
    BY <1>3, <1>4, RingSlotAdvance, SMT
  <1>7. Queue' = Fifo!Rest(n)
    BY <1>2, <1>3, <1>4, <1>5, <1>6, QueueDropped
  <1> QED
    BY <1>1, <1>4, <1>7 DEF Fifo!Take, Queue

\* pfifo_skip, pfifo_reset_out and pfifo_reset drop the oldest elements.
LEMMA FifoSkip ==
    ASSUME Shape, Shape', Skip
    PROVE  Fifo!Drop
  <1>1. in \in Index /\ out \in Index /\ in # out
    BY DEF Shape, TypeOK, Skip, IsEmpty
  <1>2. Used(in, out) = IF out <= in THEN in - out ELSE in - out + Wrap
    BY <1>1, UsedIs
  <1>3. 1 \in 0 .. Used(in, out) /\ 1 \in 0 .. Size
    BY <1>1, <1>2, WrapAssumption, SizeAssumption, SMT DEF Index
  <1>4. out' = Advance(out, 1) /\ UNCHANGED <<data, in, wbuf, got>>
    BY DEF Skip, writer, reader
  <1>5. Used(in, out') = Used(in, out) - 1
    BY <1>1, <1>3, <1>4, UsedAfterOut, SMT
  <1>6. \A p \in 1 .. Used(in, out) - 1 : RingSlot(out', p) = RingSlot(out, 1 + p)
    BY <1>1, <1>3, <1>4, RingSlotAdvance, SMT
  <1>7. Queue' = Fifo!Rest(1)
    BY <1>3, <1>4, <1>5, <1>6, QueueDropped
  <1>8. 1 \in 0 .. Len(Queue)
    BY <1>3, QueueIsSeq
  <1> QED
    BY <1>4, <1>7, <1>8 DEF Fifo!Drop, Queue

LEMMA FifoResetOutStore ==
    ASSUME Shape, Shape', ResetOutStore
    PROVE  Fifo!Drop
  <1> DEFINE n == Used(rin, out)
  <1>1. /\ in \in Index /\ out \in Index /\ rin \in Index
        /\ n <= Used(in, out)
        /\ out' = rin /\ UNCHANGED <<data, in, wbuf, got>>
    BY DEF ResetOutStore, writer, Shape, TypeOK, GrantsHold
  <1>2. n = (IF out <= rin THEN rin - out ELSE rin - out + Wrap) /\ n \in 0 .. Wrap - 1
    BY <1>1, UsedIs
  <1>3. Used(in, out) = IF out <= in THEN in - out ELSE in - out + Wrap
    BY <1>1, UsedIs
  <1>4. Used(in, rin) = IF rin <= in THEN in - rin ELSE in - rin + Wrap
    BY <1>1, UsedIs
  <1> HIDE DEF n
  <1>5. n \in 0 .. Used(in, out) /\ Used(in, rin) = Used(in, out) - n
    BY <1>1, <1>2, <1>3, <1>4, WrapAssumption, SMT DEF Index
  <1>6. \A p \in 1 .. Used(in, out) - n : RingSlot(out', p) = RingSlot(out, n + p)
    BY <1>1, RingSlotBehindIn, SMT DEF n
  <1>7. Queue' = Fifo!Rest(n)
    BY <1>1, <1>5, <1>6, QueueDropped
  <1>8. n \in 0 .. Len(Queue)
    BY <1>5, QueueIsSeq
  <1> QED
    BY <1>1, <1>7, <1>8 DEF Fifo!Drop, Queue

LEMMA FifoReset ==
    ASSUME Shape, Shape', Reset
    PROVE  Fifo!Drop
  <1>1. Queue \in Seq(Value) /\ Len(Queue) \in Nat
    BY QueueIsSeq, LenProperties
  <1>2. /\ 0 \in Index /\ in' = 0 /\ out' = 0 /\ UNCHANGED <<wbuf, got>>
        /\ data' \in [Slots -> Value]
    BY WrapAssumption, SizeAssumption, SMT DEF Reset, writer, reader, Index, Shape, TypeOK
  <1>3. Queue' = Contents(data', 0, 0)
    BY <1>2 DEF Queue
  <1>4. Used(0, 0) = 0
    BY <1>2, UsedIs, SMT
  <1>5. Queue' = <<>>
    BY <1>2, <1>3, <1>4, ContentsIsSeq, EmptySeq
  <1>6. Fifo!Rest(Len(Queue)) = <<>>
    BY <1>1, SubSeqEmpty, SMT DEF Fifo!Rest, Queue
  <1>7. Len(Queue) \in 0 .. Len(Queue)
    BY <1>1, SMT
  <1> QED
    BY <1>2, <1>5, <1>6, <1>7 DEF Fifo!Drop, Queue

\* All other steps are invisible: they spare the indices and the unread slots.
LEMMA FifoCopyIn ==
    ASSUME Shape, Shape', NEW p \in wleft, CopyIn(p)
    PROVE  UNCHANGED Fifo!qvars
  <1>1. p \in 1 .. Len(wbuf)
    BY DEF Shape, TypeOK
  <1>2. /\ data' = [data EXCEPT ![RingSlot(in, p)] = wbuf[p]]
        /\ data \in [Slots -> Value]
    BY <1>1, WriterSlotIs DEF CopyIn, Shape, TypeOK
  <1>3. out \in Int /\ Used(in, out) \in Nat
    BY ShapeFacts, WrapAssumption, SizeAssumption, SMT DEF Shape, TypeOK, Index
  <1>4. \A k \in 1 .. Used(in, out) : RingSlot(out, k) \in Slots
    BY <1>3, RingSlotType
  <1>5. \A k \in 1 .. Used(in, out) : data'[RingSlot(out, k)] = data[RingSlot(out, k)]
    BY <1>1, <1>2, <1>4, WriterSlotIsFree
  <1> QED
    BY <1>5, QueueUnchanged DEF CopyIn, reader, Fifo!qvars, Queue

\* Spec implements FifoQueue: every write is one append, every read one
\* removal of the front it returns, however their copies interleave.
THEOREM Refinement == Spec => ImplementsFifo
  <1>1. Intact /\ Intact' /\ [Next]_vars => [Fifo!Next]_(Fifo!qvars)
    <2> SUFFICES ASSUME Intact, Intact', [Next]_vars PROVE [Fifo!Next]_(Fifo!qvars)
      OBVIOUS
    <2> USE DEF Fifo!Next
    <2>s. Shape /\ Shape'
      BY DEF Intact
    <2>1. CASE UNCHANGED <<data, in, out, wbuf, got>>
      BY <2>1 DEF Fifo!qvars
    <2>2. CASE WriterCall
      BY <2>s, <2>2, FifoInBegin, FifoPutBegin DEF WriterCall
    <2>3. CASE WriterStep
      BY <2>s, <2>3, FifoCopyIn, FifoInCommit DEF WriterStep
    <2>4. CASE ReaderCall
      BY <2>s, <2>1, <2>4, FifoSkip
          DEF ReaderCall, GetBegin, OutBegin, StartCopyOut, ResetOutLoad, writer
    <2>5. CASE ReaderStep
      <3>1. ASSUME PeekEnd PROVE Fifo!Peek
        BY <3>1, ReadIsFront DEF PeekEnd, FinishRead, Fifo!Peek, Queue, writer
      <3>2. ASSUME NEW p \in rleft, CopyOut(p) PROVE UNCHANGED <<data, in, out, wbuf, got>>
        BY <3>2 DEF CopyOut, writer
      <3> QED
        BY <2>s, <2>1, <2>5, <3>1, <3>2, FifoOutCommit, FifoResetOutStore DEF ReaderStep
    <2>6. CASE Reset
      BY <2>s, <2>6, FifoReset
    <2>7. CASE UNCHANGED vars
      BY <2>1, <2>7 DEF vars, writer, reader
    <2> QED
      BY <2>2, <2>3, <2>4, <2>5, <2>6, <2>7 DEF Next
  <1> QED
    BY <1>1, FifoInit, IntactInit, IntactStep, PTL DEF Spec, ImplementsFifo, Fifo!Spec
=============================================================================
