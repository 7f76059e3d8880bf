------------------------------ MODULE RingsProofs ------------------------------
(***************************************************************************)
(* The rings of Rings, for buffers of every size.  The common ring buffer  *)
(* needs no lock between one writer and one reader, the elastic one keeps  *)
(* what it hands out a pointer to, and both are bounded queues of          *)
(* mem_size - 1 bytes.  The part about the common ring has all that is     *)
(* said of the indices.  What is said of a fifo of records is proved in    *)
(* RecordProofs.                                                           *)
(***************************************************************************)
EXTENDS Rings, SequenceTheorems, TLAPS

\* The promise: Crb as a bounded fifo.
Fifo == INSTANCE FifoQueue WITH
    Capacity <- MemSize - 1, queue <- Contents, given <- wbuf, got <- got

\* What a call of the reader goes for stays there until it is done.
GrantsHold ==
    /\ Len(rbuf) <= CrbSize(write, read)
    /\ rop \in {"air", "clear"} => CrbSize(rto, read) <= CrbSize(write, read)

\* Where the two sides are.  Nothing is said of the bytes or of how a write
\* copies them, so that it holds of an elastic ring as well.
Places ==
    /\ write \in Slots /\ read \in Slots /\ rto \in Slots
    /\ wpc \in {"idle", "copy"}
    /\ wbuf \in Seq(Value)
    /\ wpc = "idle" <=> wbuf = <<>>
    /\ rbuf \in Seq(Value \cup {NoValue}) /\ rdone \in 0 .. Len(rbuf)
    /\ rop \notin {"read", "peep"} => rbuf = <<>>
    /\ OneByteFree
    /\ GrantsHold

Shape ==
    /\ mem \in [Slots -> Value]
    /\ wdone \in 0 .. Len(wbuf)
    /\ Places

-----------------------------------------------------------------------------
(* Indices *)

\* The index n bytes behind pos.
At(pos, n) == Fix(pos + n)

LEMMA AtIs ==
    ASSUME NEW pos \in Slots, NEW n \in 0 .. MemSize
    PROVE  /\ At(pos, n) = IF pos + n < MemSize THEN pos + n ELSE pos + n - MemSize
           /\ At(pos, n) \in Slots
  <1> DEFINE x == pos + n
             r == IF x < MemSize THEN x ELSE x - MemSize
  <1>1. MemSize \in Nat \ {0} /\ x \in 0 .. 2 * MemSize - 1
    BY MemSizeAssumption DEF Slots
  <1> HIDE DEF x
  <1>2. \E q \in {0, 1} : x = MemSize * q + r /\ r \in 0 .. MemSize - 1
    BY <1>1, SMT
  <1>3. (x % MemSize) = r
    BY <1>1, <1>2, SMT
  <1>4. At(pos, n) = r
    BY <1>3 DEF At, Fix, x
  <1> QED
    BY <1>1, <1>4 DEF Slots, x

LEMMA SizeIs ==
    ASSUME NEW w \in Slots, NEW r \in Slots
    PROVE  /\ CrbSize(w, r) \in 0 .. MemSize - 1
           /\ CrbSize(w, r) = IF r > w THEN w + MemSize - r ELSE w - r
  BY MemSizeAssumption DEF CrbSize, Slots

\* The bytes of the two memcpys lie one behind the other, modulo mem_size.
LEMMA CrbSlotIs ==
    ASSUME NEW pos \in Slots, NEW n \in 0 .. MemSize - 1, NEW p \in 1 .. n
    PROVE  CrbSlot(pos, n, p) = At(pos, p - 1) /\ At(pos, p - 1) \in Slots
  <1>1. p - 1 \in 0 .. MemSize
    BY MemSizeAssumption
  <1>2. /\ At(pos, p - 1) = IF pos + (p - 1) < MemSize THEN pos + (p - 1) ELSE pos + (p - 1) - MemSize
        /\ At(pos, p - 1) \in Slots
    BY <1>1, AtIs
  <1> QED
    BY <1>2, MemSizeAssumption DEF CrbSlot, FirstPart, LessOf, Slots

\* Moving an index by n bytes.
LEMMA SizeAfterWrite ==
    ASSUME NEW w \in Slots, NEW r \in Slots, NEW n \in Nat, CrbSize(w, r) + n <= MemSize - 1
    PROVE  At(w, n) \in Slots /\ CrbSize(At(w, n), r) = CrbSize(w, r) + n
  <1>1. CrbSize(w, r) = (IF r > w THEN w + MemSize - r ELSE w - r) /\ CrbSize(w, r) \in 0 .. MemSize - 1
    BY SizeIs
  <1>2. n \in 0 .. MemSize
    BY <1>1, MemSizeAssumption
  <1>3. At(w, n) = (IF w + n < MemSize THEN w + n ELSE w + n - MemSize) /\ At(w, n) \in Slots
    BY <1>2, AtIs
  <1>4. CrbSize(At(w, n), r) = IF r > At(w, n) THEN At(w, n) + MemSize - r ELSE At(w, n) - r
    BY <1>3, SizeIs
  <1> QED
    BY <1>1, <1>3, <1>4, MemSizeAssumption DEF Slots

LEMMA SizeAfterRead ==
    ASSUME NEW w \in Slots, NEW r \in Slots, NEW n \in 0 .. CrbSize(w, r)
    PROVE  /\ At(r, n) \in Slots /\ CrbSize(w, At(r, n)) = CrbSize(w, r) - n
           /\ CrbSize(At(r, n), r) = n
  <1>1. CrbSize(w, r) = (IF r > w THEN w + MemSize - r ELSE w - r) /\ CrbSize(w, r) \in 0 .. MemSize - 1
    BY SizeIs
  <1>2. n \in 0 .. MemSize
    BY <1>1, MemSizeAssumption
  <1>3. At(r, n) = (IF r + n < MemSize THEN r + n ELSE r + n - MemSize) /\ At(r, n) \in Slots
    BY <1>2, AtIs
  <1>4. /\ CrbSize(w, At(r, n)) = IF At(r, n) > w THEN w + MemSize - At(r, n) ELSE w - At(r, n)
        /\ CrbSize(At(r, n), r) = IF r > At(r, n) THEN At(r, n) + MemSize - r ELSE At(r, n) - r
    BY <1>3, SizeIs
  <1> QED
    BY <1>1, <1>3, <1>4, MemSizeAssumption DEF Slots

\* An index between read and write is as far behind write as it is ahead of read.
LEMMA SizeBetween ==
    ASSUME NEW w \in Slots, NEW r \in Slots, NEW x \in Slots, CrbSize(x, r) <= CrbSize(w, r)
    PROVE  CrbSize(w, x) = CrbSize(w, r) - CrbSize(x, r) /\ x = At(r, CrbSize(x, r))
  <1>1. /\ CrbSize(w, r) = IF r > w THEN w + MemSize - r ELSE w - r
        /\ CrbSize(x, r) = IF r > x THEN x + MemSize - r ELSE x - r
        /\ CrbSize(w, x) = IF x > w THEN w + MemSize - x ELSE w - x
        /\ CrbSize(x, r) \in 0 .. MemSize - 1
    BY SizeIs
  <1>2. CrbSize(x, r) \in 0 .. MemSize
    BY <1>1, MemSizeAssumption
  <1>3. At(r, CrbSize(x, r)) =
          IF r + CrbSize(x, r) < MemSize THEN r + CrbSize(x, r) ELSE r + CrbSize(x, r) - MemSize
    BY <1>2, AtIs
  <1> QED
    BY <1>1, <1>3, MemSizeAssumption DEF Slots

\* Different distances, different slots.
LEMMA AtApart ==
    ASSUME NEW r \in Slots, NEW a \in 0 .. MemSize - 1, NEW b \in 0 .. MemSize - 1, a # b
    PROVE  At(r, a) # At(r, b)
  <1>1. a \in 0 .. MemSize /\ b \in 0 .. MemSize
    BY MemSizeAssumption
  <1>2. /\ At(r, a) = IF r + a < MemSize THEN r + a ELSE r + a - MemSize
        /\ At(r, b) = IF r + b < MemSize THEN r + b ELSE r + b - MemSize
    BY <1>1, AtIs
  <1> QED
    BY <1>2, MemSizeAssumption DEF Slots

\* Byte n behind write is byte size + n behind read.
LEMMA AtBehind ==
    ASSUME NEW w \in Slots, NEW r \in Slots, NEW n \in Nat, CrbSize(w, r) + n <= MemSize - 1
    PROVE  At(w, n) = At(r, CrbSize(w, r) + n)
  <1>1. CrbSize(w, r) = (IF r > w THEN w + MemSize - r ELSE w - r) /\ CrbSize(w, r) \in 0 .. MemSize - 1
    BY SizeIs
  <1> DEFINE m == CrbSize(w, r) + n
  <1>2. n \in 0 .. MemSize /\ m \in 0 .. MemSize
    BY <1>1, MemSizeAssumption
  <1> HIDE DEF m
  <1>3. /\ At(w, n) = IF w + n < MemSize THEN w + n ELSE w + n - MemSize
        /\ At(r, m) = IF r + m < MemSize THEN r + m ELSE r + m - MemSize
    BY <1>2, AtIs
  <1> QED
    BY <1>1, <1>3, MemSizeAssumption DEF Slots, m

\* A distance in two parts.
LEMMA AtForth ==
    ASSUME NEW r \in Slots, NEW m \in Nat, NEW n \in Nat, m + n <= MemSize - 1
    PROVE  At(At(r, m), n) = At(r, m + n)
  <1> DEFINE l == m + n
  <1>1. m \in 0 .. MemSize /\ n \in 0 .. MemSize /\ l \in 0 .. MemSize
    BY MemSizeAssumption
  <1> HIDE DEF l
  <1>2. /\ At(r, m) = (IF r + m < MemSize THEN r + m ELSE r + m - MemSize) /\ At(r, m) \in Slots
        /\ At(r, l) = IF r + l < MemSize THEN r + l ELSE r + l - MemSize
    BY <1>1, AtIs
  <1>3. At(At(r, m), n) = IF At(r, m) + n < MemSize THEN At(r, m) + n ELSE At(r, m) + n - MemSize
    BY <1>1, <1>2, AtIs
  <1> QED
    BY <1>1, <1>2, <1>3, MemSizeAssumption DEF Slots, l

-----------------------------------------------------------------------------
(* Sequences *)

\* The elements from n + 1 on.
LEMMA SeqRest ==
    ASSUME NEW S, NEW q \in Seq(S), NEW r \in Seq(S), NEW n \in 0 .. Len(q),
           Len(r) = Len(q) - n, \A p \in 1 .. Len(r) : r[p] = q[n + p]
    PROVE  r = SubSeq(q, n + 1, Len(q))
  <1> DEFINE f == SubSeq(q, n + 1, Len(q))
  <1>1. Len(q) \in Nat /\ n \in Nat /\ n + 1 \in Int /\ Len(q) \in Int
    BY LenProperties
  <1>2. \A p \in n + 1 .. Len(q) : q[p] \in S
    BY <1>1, ElementOfSeq
  <1>3. /\ f \in Seq(S)
        /\ Len(f) = IF n + 1 <= Len(q) THEN Len(q) - (n + 1) + 1 ELSE 0
        /\ \A p \in 1 .. Len(q) - (n + 1) + 1 : f[p] = q[n + 1 + p - 1]
    BY <1>1, <1>2, SubSeqProperties
  <1> HIDE DEF f
  <1>4. Len(f) = Len(r)
    BY <1>1, <1>3
  <1>5. \A p \in 1 .. Len(r) : r[p] = f[p]
    <2> TAKE p \in 1 .. Len(r)
    <2>1. p \in 1 .. Len(q) - (n + 1) + 1 /\ n + 1 + p - 1 = n + p
      BY <1>1
    <2> QED
      BY <1>3, <2>1
  <1>6. r = f
    BY <1>3, <1>4, <1>5, SeqEqual
  <1> QED
    BY <1>6 DEF f

\* The elements up to Len(f).
LEMMA SeqFront ==
    ASSUME NEW S, NEW q \in Seq(S), NEW f \in Seq(S), Len(f) <= Len(q),
           \A p \in 1 .. Len(f) : f[p] = q[p]
    PROVE  f = SubSeq(q, 1, Len(f))
  <1> DEFINE n == Len(f)
             g == SubSeq(q, 1, n)
  <1>1. n \in Nat /\ Len(q) \in Nat
    BY LenProperties
  <1>2. \A p \in 1 .. n : q[p] \in S
    BY <1>1, ElementOfSeq
  <1> HIDE DEF n
  <1>3. /\ g \in Seq(S)
        /\ Len(g) = IF 1 <= n THEN n - 1 + 1 ELSE 0
        /\ \A p \in 1 .. n - 1 + 1 : g[p] = q[1 + p - 1]
    BY <1>1, <1>2, SubSeqProperties
  <1> HIDE DEF g
  <1>4. Len(g) = n
    BY <1>1, <1>3
  <1>5. \A p \in 1 .. n : f[p] = g[p]
    <2> TAKE p \in 1 .. n
    <2>1. p \in 1 .. n - 1 + 1 /\ 1 + p - 1 = p
      BY <1>1
    <2> QED
      BY <1>3, <2>1 DEF n
  <1>6. f = g
    BY <1>3, <1>4, <1>5, SeqEqual DEF n
  <1> QED
    BY <1>6 DEF g, n

\* One sequence behind another.
LEMMA SeqAppend ==
    ASSUME NEW S, NEW q \in Seq(S), NEW b \in Seq(S), NEW r \in Seq(S),
           Len(r) = Len(q) + Len(b),
           \A p \in 1 .. Len(q) : r[p] = q[p],
           \A p \in 1 .. Len(b) : r[Len(q) + p] = b[p]
    PROVE  r = q \o b
  <1>1. Len(q) \in Nat /\ Len(b) \in Nat
    BY LenProperties
  <1>2. /\ q \o b \in Seq(S) /\ Len(q \o b) = Len(q) + Len(b)
        /\ \A p \in 1 .. Len(q) + Len(b) : (q \o b)[p] =
               IF p <= Len(q) THEN q[p] ELSE b[p - Len(q)]
    BY ConcatProperties
  <1>3. \A p \in 1 .. Len(r) : r[p] = (q \o b)[p]
    <2> TAKE p \in 1 .. Len(r)
    <2>1. CASE p <= Len(q)
      BY <1>1, <1>2, <2>1
    <2>2. CASE ~(p <= Len(q))
      <3> DEFINE k == p - Len(q)
      <3>1. k \in 1 .. Len(b) /\ Len(q) + k = p
        BY <1>1, <2>2
      <3>2. r[Len(q) + k] = b[k]
        BY <3>1
      <3> QED
        BY <1>2, <2>2, <3>1, <3>2
    <2> QED
      BY <2>1, <2>2
  <1> QED
    BY <1>2, <1>3, SeqEqual

-----------------------------------------------------------------------------
(* Places is kept by what the calls of either ring do with the indices. *)

LEMMA PlacesFacts ==
    ASSUME Places
    PROVE  /\ CrbSize(write, read) \in 0 .. MemSize - 1
           /\ Len(wbuf) \in 0 .. MemSize - 1 /\ Len(rbuf) \in 0 .. MemSize - 1
           /\ CrbSize(write, read) + Len(wbuf) <= MemSize - 1
           /\ Len(rbuf) <= CrbSize(write, read)
           /\ MemSize \in Nat \ {0}
  <1>1. CrbSize(write, read) \in 0 .. MemSize - 1
    BY SizeIs DEF Places
  <1>2. Len(wbuf) \in Nat /\ Len(rbuf) \in Nat
    BY LenProperties DEF Places
  <1> QED
    BY <1>1, <1>2, MemSizeAssumption DEF Places, OneByteFree, GrantsHold

LEMMA BatchIs ==
    ASSUME NEW buf \in Batches
    PROVE  buf \in Seq(Value) /\ Len(buf) \in Nat \ {0}
  <1>1. PICK n \in 1 .. MaxBatch : buf \in [1 .. n -> Value]
    BY DEF Batches
  <1>2. n \in Nat \ {0}
    BY <1>1, CrbBatchAssumption
  <1> QED
    BY <1>1, <1>2, IsASeq

\* Nothing stored and nothing asked for.
LEMMA PlacesEmpty ==
    ASSUME write = 0, read = 0, rto = 0, wpc = "idle", wbuf = <<>>,
           rop = "idle", rbuf = <<>>, rdone = 0
    PROVE  Places /\ CrbSize(write, read) = 0
  <1>1. <<>> \in Seq(Value) /\ <<>> \in Seq(Value \cup {NoValue}) /\ Len(<<>>) = 0
    OBVIOUS
  <1>2. 0 \in Slots /\ CrbSize(0, 0) = 0
    BY MemSizeAssumption DEF Slots, CrbSize
  <1> QED
    BY <1>1, <1>2, MemSizeAssumption DEF Places, OneByteFree, GrantsHold

\* A write sets out to store what fits.
LEMMA PlacesOffer ==
    ASSUME Places, NEW buf \in Batches, FreeSize(write, read) # 0, wpc' = "copy",
           wbuf' = SubSeq(buf, 1, LessOf(Len(buf), FreeSize(write, read))),
           UNCHANGED <<write, read, rop, rbuf, rdone, rto>>
    PROVE  /\ Places' /\ Len(wbuf') \in 1 .. MemSize - 1
           /\ CrbSize(write, read) + Len(wbuf') <= MemSize - 1
  <1> DEFINE k == LessOf(Len(buf), FreeSize(write, read))
  <1>1. buf \in Seq(Value) /\ Len(buf) \in Nat \ {0}
    BY BatchIs
  <1>2. FreeSize(write, read) \in Nat \ {0} /\ FreeSize(write, read) = MemSize - 1 - CrbSize(write, read)
    BY PlacesFacts DEF FreeSize
  <1>3. k \in Nat \ {0} /\ k <= Len(buf) /\ k + CrbSize(write, read) <= MemSize - 1
    BY <1>1, <1>2, PlacesFacts DEF LessOf
  <1>4. wbuf' \in Seq(Value) /\ Len(wbuf') = k
    <2> HIDE DEF k
    <2>1. 1 .. k \subseteq 1 .. Len(buf)
      BY <1>1, <1>3
    <2> QED
      BY <1>1, <1>3, <2>1, SubSeqProperties DEF k
  <1> HIDE DEF k
  <1>5. wbuf' # <<>>
    BY <1>3, <1>4, EmptySeq
  <1>6. OneByteFree' /\ GrantsHold'
    BY <1>3, <1>4, PlacesFacts DEF Places, OneByteFree, GrantsHold, CrbSize
  <1>7. Places'
    BY <1>4, <1>5, <1>6 DEF Places, Slots
  <1> QED
    BY <1>3, <1>4, <1>7, PlacesFacts

\* The reader's side stays granted when write moves on, away from read.
LEMMA PlacesPut ==
    ASSUME Places, write' = Fix(write + Len(wbuf)), wpc' = "idle", wbuf' = <<>>,
           UNCHANGED <<read, rop, rbuf, rdone, rto>>
    PROVE  /\ Places'
           /\ CrbSize(write', read) = CrbSize(write, read) + Len(wbuf)
           /\ write' = At(write, Len(wbuf))
  <1>1. write' = At(write, Len(wbuf))
    BY DEF At
  <1>2. write \in Slots /\ read \in Slots /\ rto \in Slots /\ Len(wbuf) \in Nat
    BY PlacesFacts DEF Places
  <1>3. write' \in Slots /\ CrbSize(write', read) = CrbSize(write, read) + Len(wbuf)
    BY <1>1, <1>2, SizeAfterWrite DEF Places, OneByteFree
  <1>4. <<>> \in Seq(Value) /\ Len(<<>>) = 0
    OBVIOUS
  <1>5. OneByteFree'
    BY <1>3, <1>4, PlacesFacts DEF OneByteFree
  <1>6. GrantsHold'
    <2>1. CrbSize(rto, read) \in Int
      BY <1>2, SizeIs
    <2> QED
      BY <1>2, <1>3, <2>1, PlacesFacts DEF Places, GrantsHold
  <1>7. Places'
    <2>1. /\ (write \in Slots)' /\ (read \in Slots)' /\ (rto \in Slots)'
      BY <1>2, <1>3 DEF Slots
    <2> QED
      BY <1>4, <1>5, <1>6, <2>1 DEF Places
  <1> QED
    BY <1>1, <1>3, <1>7

\* A read or a look at the bytes sets out for as many as there are.
LEMMA PlacesReadBegin ==
    ASSUME Places, NEW k \in 0 .. CrbSize(write, read), rop' \in {"read", "peep"},
           rbuf' = [p \in 1 .. k |-> NoValue], rdone' = 0,
           UNCHANGED <<write, read, wpc, wbuf, rto>>
    PROVE  Places' /\ Len(rbuf') = k
  <1>1. k \in Nat /\ k <= CrbSize(write, read)
    BY PlacesFacts
  <1>2. rbuf' \in Seq(Value \cup {NoValue}) /\ Len(rbuf') = k
    BY <1>1, IsASeq
  <1>3. OneByteFree' /\ GrantsHold'
    BY <1>1, <1>2 DEF Places, OneByteFree, GrantsHold, CrbSize
  <1>4. (rdone \in 0 .. Len(rbuf))'
    BY <1>1, <1>2
  <1> QED
    BY <1>2, <1>3, <1>4 DEF Places, Slots

LEMMA PlacesReadByte ==
    ASSUME Places, rop \in {"read", "peep"}, rdone < Len(rbuf), rdone' = rdone + 1,
           NEW v \in Value \cup {NoValue}, rbuf' = [rbuf EXCEPT ![rdone + 1] = v],
           UNCHANGED <<write, read, wpc, wbuf, rop, rto>>
    PROVE  /\ Places' /\ Len(rbuf') = Len(rbuf) /\ rdone \in Nat
           /\ \A p \in 1 .. Len(rbuf) : rbuf'[p] = IF p = rdone + 1 THEN v ELSE rbuf[p]
  <1>1. rdone + 1 \in 1 .. Len(rbuf) /\ Len(rbuf) \in Nat /\ rdone \in Nat
    BY PlacesFacts DEF Places
  <1>2. /\ rbuf' \in Seq(Value \cup {NoValue}) /\ Len(rbuf') = Len(rbuf)
        /\ \A p \in 1 .. Len(rbuf) : rbuf'[p] = IF p = rdone + 1 THEN v ELSE rbuf[p]
    BY <1>1, ExceptSeq DEF Places
  <1>3. rdone' \in 0 .. Len(rbuf)
    BY <1>1
  <1> QED
    BY <1>1, <1>2, <1>3 DEF Places, OneByteFree, GrantsHold, Slots, CrbSize

\* The reader's side is over and gives up n of the bytes in use.
LEMMA PlacesMove ==
    ASSUME Places, NEW n \in 0 .. CrbSize(write, read), read' = At(read, n),
           rop' = "idle", rbuf' = <<>>, rdone' = 0, rto' \in Slots,
           UNCHANGED <<write, wpc, wbuf>>
    PROVE  Places' /\ CrbSize(write, read') = CrbSize(write, read) - n
  <1>1. write \in Slots /\ read \in Slots
    BY DEF Places
  <1>2. read' \in Slots /\ CrbSize(write, read') = CrbSize(write, read) - n
    BY <1>1, SizeAfterRead
  <1>3. <<>> \in Seq(Value \cup {NoValue}) /\ Len(<<>>) = 0
    OBVIOUS
  <1>4. n \in Nat /\ CrbSize(write, read) \in Nat
    BY PlacesFacts
  <1>5. OneByteFree' /\ GrantsHold'
    BY <1>2, <1>3, <1>4, PlacesFacts DEF OneByteFree, GrantsHold
  <1>6. Places'
    BY <1>2, <1>3, <1>5 DEF Places, Slots
  <1> QED
    BY <1>2, <1>6

\* The reader's side is over and gives up nothing.
LEMMA PlacesPeepEnd ==
    ASSUME Places, rop' = "idle", rbuf' = <<>>, rdone' = 0,
           UNCHANGED <<write, read, wpc, wbuf, rto>>
    PROVE  Places'
  <1>1. <<>> \in Seq(Value \cup {NoValue}) /\ Len(<<>>) = 0
    OBVIOUS
  <1>2. OneByteFree'
    BY DEF Places, OneByteFree, CrbSize
  <1>3. GrantsHold'
    BY <1>1, PlacesFacts DEF GrantsHold, CrbSize
  <1> QED
    BY <1>1, <1>2, <1>3 DEF Places, Slots

LEMMA PlacesGoBegin ==
    ASSUME Places, ClearBegin \/ \E n \in 0 .. MaxBatch : AirBegin(n)
    PROVE  Places' /\ UNCHANGED <<mem, write, read, wbuf, wdone, rbuf, rdone, got>>
  <1>1. write \in Slots /\ read \in Slots /\ CrbSize(write, read) \in 0 .. MemSize - 1
    BY PlacesFacts DEF Places
  <1>2. rto' \in Slots /\ CrbSize(rto', read) <= CrbSize(write, read)
    <2>1. CASE ClearBegin
      BY <1>1, <2>1 DEF ClearBegin
    <2>2. ASSUME NEW n \in 0 .. MaxBatch, AirBegin(n)
          PROVE  rto' \in Slots /\ CrbSize(rto', read) <= CrbSize(write, read)
      <3> DEFINE k == LessOf(n, CrbSize(write, read))
      <3>1. k \in 0 .. CrbSize(write, read)
        BY <1>1, CrbBatchAssumption DEF LessOf
      <3> HIDE DEF k
      <3>2. rto' = At(read, k)
        BY <2>2 DEF AirBegin, At, k
      <3>3. At(read, k) \in Slots /\ CrbSize(At(read, k), read) = k
        BY <1>1, <3>1, SizeAfterRead
      <3> QED
        BY <1>1, <3>1, <3>2, <3>3
    <2> QED
      BY <2>1, <2>2
  <1>3. /\ rop' \in {"air", "clear"} /\ rop = "idle"
        /\ UNCHANGED <<mem, write, read, wpc, wbuf, wdone, rbuf, rdone, got>>
    BY DEF ClearBegin, AirBegin, writer
  <1>4. OneByteFree'
    BY <1>3 DEF Places, OneByteFree, CrbSize
  <1>5. GrantsHold'
    BY <1>2, <1>3 DEF Places, GrantsHold
  <1>6. Places'
    BY <1>2, <1>3, <1>4, <1>5 DEF Places, Slots
  <1> QED
    BY <1>3, <1>6

LEMMA PlacesMoveRead ==
    ASSUME Places, MoveRead
    PROVE  /\ Places' /\ CrbSize(rto, read) \in 0 .. CrbSize(write, read)
           /\ read' = At(read, CrbSize(rto, read))
           /\ CrbSize(write, read') = CrbSize(write, read) - CrbSize(rto, read)
           /\ rdone = 0 /\ UNCHANGED <<mem, write, wbuf, wdone, rbuf, rdone, got>>
  <1>1. write \in Slots /\ read \in Slots /\ rto \in Slots /\ rop \in {"air", "clear"}
    BY DEF Places, MoveRead
  <1>2. CrbSize(rto, read) \in 0 .. CrbSize(write, read)
    BY <1>1, SizeIs DEF Places, GrantsHold
  <1>3. rto = At(read, CrbSize(rto, read))
    BY <1>1, <1>2, SizeBetween DEF Places, GrantsHold
  <1>4. /\ read' = rto /\ rop' = "idle" /\ rto' = 0
        /\ UNCHANGED <<mem, write, wpc, wbuf, wdone, rbuf, rdone, got>>
    BY DEF MoveRead, writer
  <1>5. rbuf = <<>> /\ rdone = 0
    BY <1>1 DEF Places
  <1>6. 0 \in Slots
    BY MemSizeAssumption DEF Slots
  <1> QED
    BY <1>2, <1>3, <1>4, <1>5, <1>6, PlacesMove

LEMMA PlacesStay ==
    ASSUME Places, UNCHANGED <<write, read, wpc, wbuf, rop, rbuf, rdone, rto>>
    PROVE  Places'
  BY DEF Places, OneByteFree, GrantsHold, Slots, CrbSize

-----------------------------------------------------------------------------
(* Shape is inductive, whatever the bytes are. *)

LEMMA ShapeFacts ==
    ASSUME Shape
    PROVE  /\ CrbSize(write, read) \in 0 .. MemSize - 1
           /\ Len(wbuf) \in 0 .. MemSize - 1 /\ Len(rbuf) \in 0 .. MemSize - 1
           /\ CrbSize(write, read) + Len(wbuf) <= MemSize - 1
           /\ Len(rbuf) <= CrbSize(write, read)
           /\ MemSize \in Nat \ {0}
  BY PlacesFacts DEF Shape

LEMMA ShapeInit == Init => Shape /\ CrbSize(write, read) = 0
  <1> SUFFICES ASSUME Init PROVE Shape /\ CrbSize(write, read) = 0
    OBVIOUS
  <1>1. Places /\ CrbSize(write, read) = 0
    BY PlacesEmpty DEF Init
  <1> QED
    BY <1>1 DEF Init, Shape

LEMMA ShapeWriteBegin ==
    ASSUME Shape, NEW buf \in Batches, WriteBegin(buf)
    PROVE  /\ Shape' /\ Len(wbuf') \in 1 .. MemSize - 1
           /\ CrbSize(write, read) + Len(wbuf') <= MemSize - 1
  <1>1. /\ Places' /\ Len(wbuf') \in 1 .. MemSize - 1
        /\ CrbSize(write, read) + Len(wbuf') <= MemSize - 1
    BY PlacesOffer DEF WriteBegin, reader, Shape
  <1>2. wdone' \in 0 .. Len(wbuf')
    <2>1. wdone' = 0
      BY DEF WriteBegin
    <2>2. Len(wbuf') \in Nat
      BY <1>1, MemSizeAssumption
    <2> QED
      BY <2>1, <2>2
  <1> QED
    BY <1>1, <1>2 DEF WriteBegin, Shape, Slots

LEMMA ShapeWriteByte == ASSUME Shape, WriteByte PROVE Shape'
  <1>1. wbuf[wdone + 1] \in Value
    <2>1. wdone + 1 \in 1 .. Len(wbuf) /\ wbuf \in Seq(Value)
      BY ShapeFacts DEF Shape, Places, WriteByte
    <2> QED
      BY <2>1, ElementOfSeq
  <1>2. mem' \in [Slots -> Value]
    BY <1>1 DEF Shape, WriteByte
  <1>3. wdone' \in 0 .. Len(wbuf)
    BY ShapeFacts DEF Shape, WriteByte
  <1>4. Places' /\ wbuf' = wbuf
    BY PlacesStay DEF WriteByte, reader, Shape
  <1> QED
    BY <1>2, <1>3, <1>4 DEF Shape, Slots

LEMMA ShapeWriteCommit ==
    ASSUME Shape, WriteCommit
    PROVE  /\ Shape'
           /\ CrbSize(write', read) = CrbSize(write, read) + Len(wbuf)
           /\ write' = At(write, Len(wbuf))
  <1>1. /\ Places' /\ CrbSize(write', read) = CrbSize(write, read) + Len(wbuf)
        /\ write' = At(write, Len(wbuf))
    BY PlacesPut DEF WriteCommit, reader, Shape
  <1>2. mem' = mem /\ wdone' = 0 /\ Len(wbuf') = 0
    BY DEF WriteCommit
  <1> QED
    BY <1>1, <1>2 DEF Shape, Slots

LEMMA ShapeReadBegin ==
    ASSUME Shape, NEW op \in {"read", "peep"}, NEW n \in 0 .. MaxBatch, ReadBegin(op, n)
    PROVE  Shape'
  <1> DEFINE k == LessOf(n, CrbSize(write, read))
  <1>1. k \in 0 .. CrbSize(write, read)
    BY ShapeFacts, CrbBatchAssumption DEF LessOf
  <1>2. rbuf' = [p \in 1 .. k |-> NoValue]
    BY DEF ReadBegin
  <1> HIDE DEF k
  <1>3. Places'
    BY <1>1, <1>2, PlacesReadBegin DEF ReadBegin, writer, Shape
  <1> QED
    BY <1>3 DEF ReadBegin, writer, Shape, Slots

LEMMA ShapeReadByte == ASSUME Shape, ReadByte PROVE Shape'
  <1>1. rdone + 1 \in 1 .. Len(rbuf) /\ Len(rbuf) \in 0 .. MemSize - 1
    BY ShapeFacts DEF Shape, Places, ReadByte
  <1>2. mem[CrbSlot(read, Len(rbuf), rdone + 1)] \in Value
    BY <1>1, CrbSlotIs DEF Shape, Places
  <1>3. Places'
    BY <1>2, PlacesReadByte DEF ReadByte, writer, Shape
  <1> QED
    BY <1>3 DEF ReadByte, writer, Shape, Slots

LEMMA ShapeReadCommit ==
    ASSUME Shape, ReadCommit
    PROVE  Shape' /\ read' = At(read, Len(rbuf)) /\ CrbSize(write, read') = CrbSize(write, read) - Len(rbuf)
  <1>1. read' = At(read, Len(rbuf)) /\ Len(rbuf) \in 0 .. CrbSize(write, read)
    BY ShapeFacts DEF ReadCommit, At
  <1>2. /\ rop' = "idle" /\ rbuf' = <<>> /\ rdone' = 0
        /\ rto' \in Slots /\ UNCHANGED <<mem, write, wpc, wbuf, wdone>>
    BY DEF ReadCommit, FinishCopy, writer, Shape, Places, Slots
  <1>3. Places' /\ CrbSize(write, read') = CrbSize(write, read) - Len(rbuf)
    BY <1>1, <1>2, PlacesMove DEF Shape
  <1> QED
    BY <1>1, <1>2, <1>3 DEF Shape, Slots

LEMMA ShapeStep == Shape /\ [Next]_vars => Shape'
  <1> SUFFICES ASSUME Shape, [Next]_vars PROVE Shape'
    OBVIOUS
  <1>1. CASE UNCHANGED vars
    BY <1>1, PlacesStay DEF vars, writer, reader, Shape, Slots
  <1>2. CASE PeepEnd
    BY <1>2, PlacesPeepEnd DEF PeepEnd, FinishCopy, writer, Shape, Slots
  <1>3. ASSUME ClearBegin \/ \E n \in 0 .. MaxBatch : AirBegin(n) PROVE Shape'
    BY <1>3, PlacesGoBegin DEF Shape, Slots
  <1>4. CASE MoveRead
    BY <1>4, PlacesMoveRead DEF Shape, Slots
  <1> QED
    BY <1>1, <1>2, <1>3, <1>4, ShapeWriteBegin, ShapeWriteByte, ShapeWriteCommit, ShapeReadBegin,
       ShapeReadByte, ShapeReadCommit DEF Next

\* A full ring never looks empty, for every mem_size and however stale the size
\* is that the other side has gone by.
THEOREM NeverFull == Spec => []OneByteFree
  <1>1. Shape => OneByteFree
    BY DEF Shape, Places
  <1> QED
    BY <1>1, ShapeInit, ShapeStep, PTL DEF Spec

LEMMA NoRaceHolds == Shape => NoRace
  <1> SUFFICES ASSUME Shape, NEW p \in 1 .. Len(wbuf),
                      NEW x \in ReaderSlots \cup UnreadSlots
               PROVE  CrbSlot(write, Len(wbuf), p) # x
    BY DEF NoRace, WriterSlots
  <1> DEFINE s == CrbSize(write, read)
  <1>1. write \in Slots /\ read \in Slots /\ s \in 0 .. MemSize - 1 /\ p - 1 \in Nat
        /\ s + (p - 1) <= MemSize - 1 /\ s + (p - 1) \in 0 .. MemSize - 1
    BY ShapeFacts DEF Shape, Places
  <1>2. CrbSlot(write, Len(wbuf), p) = At(read, s + (p - 1))
    <2> DEFINE m == p - 1
    <2>1. CrbSlot(write, Len(wbuf), p) = At(write, m)
      BY <1>1, ShapeFacts, CrbSlotIs
    <2>2. m \in Nat /\ s + m <= MemSize - 1
      BY <1>1
    <2> HIDE DEF m
    <2>3. At(write, m) = At(read, s + m)
      BY <1>1, <2>2, AtBehind
    <2> QED
      BY <2>1, <2>3 DEF m
  <1>3. PICK q \in 0 .. s - 1 : x = At(read, q)
    <2>1. CASE x \in UnreadSlots
      BY <2>1 DEF UnreadSlots, At
    <2>2. CASE x \in ReaderSlots
      <3>1. PICK r \in 1 .. Len(rbuf) : x = CrbSlot(read, Len(rbuf), r)
        BY <2>2 DEF ReaderSlots
      <3>2. r - 1 \in 0 .. s - 1 /\ x = At(read, r - 1)
        BY <1>1, <3>1, ShapeFacts, CrbSlotIs
      <3> QED
        BY <3>2
    <2> QED
      BY <2>1, <2>2
  <1> HIDE DEF s
  <1>4. q \in 0 .. MemSize - 1 /\ q # s + (p - 1)
    <2>1. MemSize \in Nat /\ s \in Int /\ p - 1 \in Int /\ q \in Int /\ q < s
      BY <1>1, MemSizeAssumption
    <2> QED
      BY <1>1, <2>1
  <1> DEFINE m == s + (p - 1)
  <1>5. m \in 0 .. MemSize - 1 /\ q # m /\ CrbSlot(write, Len(wbuf), p) = At(read, m)
    BY <1>1, <1>2, <1>4
  <1> HIDE DEF m
  <1>6. At(read, q) # At(read, m)
    BY <1>1, <1>4, <1>5, AtApart
  <1> QED
    BY <1>3, <1>5, <1>6

\* The writer never stores where the reader looks, without a lock.
THEOREM NeverRace == Spec => []NoRace
  BY NoRaceHolds, ShapeInit, ShapeStep, PTL DEF Spec

-----------------------------------------------------------------------------
(* What the bytes are *)

\* What a read has copied and a write has stored, nobody has overwritten.
Copied == \A p \in 1 .. rdone : rbuf[p] = mem[At(read, p - 1)]
Staged == \A p \in 1 .. wdone : mem[At(write, p - 1)] = wbuf[p]

Intact == Shape /\ Copied /\ Staged

\* The bytes between two indices form a sequence as long as the indices say.
Between(m, w, r) == [p \in 1 .. CrbSize(w, r) |-> m[Fix(r + p - 1)]]

LEMMA BetweenIs ==
    ASSUME NEW m \in [Slots -> Value], NEW w \in Slots, NEW r \in Slots
    PROVE  /\ Between(m, w, r) \in Seq(Value) /\ Len(Between(m, w, r)) = CrbSize(w, r)
           /\ \A p \in 1 .. CrbSize(w, r) : Between(m, w, r)[p] = m[At(r, p - 1)]
  <1> DEFINE s == CrbSize(w, r)
             e(p) == m[Fix(r + p - 1)]
  <1>1. s \in Nat /\ s \in 0 .. MemSize - 1
    BY SizeIs, MemSizeAssumption
  <1>2. \A p \in 1 .. s : Fix(r + p - 1) = At(r, p - 1) /\ At(r, p - 1) \in Slots
    <2> TAKE p \in 1 .. s
    <2>1. r + p - 1 = r + (p - 1) /\ p - 1 \in 0 .. MemSize
      BY <1>1, MemSizeAssumption DEF Slots
    <2> QED
      BY <1>1, <2>1, AtIs DEF At
  <1>3. \A p \in 1 .. s : e(p) \in Value
    BY <1>1, <1>2
  <1>4. Between(m, w, r) = [p \in 1 .. s |-> e(p)]
    BY DEF Between
  <1> HIDE DEF e, s
  <1>5. Between(m, w, r) \in Seq(Value)
    BY <1>1, <1>3, <1>4, IsASeq
  <1>6. Len(Between(m, w, r)) = s
    BY <1>1, <1>4, <1>5, LenProperties
  <1> QED
    BY <1>2, <1>4, <1>5, <1>6 DEF s, e

LEMMA ContentsIs ==
    ASSUME Shape
    PROVE  /\ Contents \in Seq(Value) /\ Len(Contents) = CrbSize(write, read)
           /\ \A p \in 1 .. CrbSize(write, read) : Contents[p] = mem[At(read, p - 1)]
  <1>1. mem \in [Slots -> Value] /\ write \in Slots /\ read \in Slots
    BY DEF Shape, Places
  <1>2. Contents = Between(mem, write, read)
    BY DEF Contents, Between
  <1> QED
    BY <1>1, <1>2, BetweenIs

LEMMA NextContentsIs ==
    ASSUME Shape'
    PROVE  /\ Contents' \in Seq(Value) /\ Len(Contents') = CrbSize(write', read')
           /\ \A p \in 1 .. CrbSize(write', read') : Contents'[p] = mem'[At(read', p - 1)]
  <1>1. mem' \in [Slots -> Value] /\ write' \in Slots /\ read' \in Slots
    BY DEF Shape, Places, Slots
  <1>2. Contents' = Between(mem', write', read')
    BY DEF Contents, Between, CrbSize, Fix
  <1> QED
    BY <1>1, <1>2, BetweenIs

LEMMA IntactInit == Init => Intact
  <1> SUFFICES ASSUME Init PROVE Copied /\ Staged
    BY ShapeInit DEF Intact
  <1> QED
    BY DEF Init, Copied, Staged

\* Byte n behind write is none of those in use, nor another one behind write.
LEMMA StagedSlotIsFree ==
    ASSUME Shape, NEW n \in 0 .. Len(wbuf) - 1
    PROVE  /\ At(write, n) \in Slots
           /\ \A q \in 0 .. CrbSize(write, read) - 1 : At(read, q) # At(write, n)
           /\ \A q \in 0 .. Len(wbuf) - 1 : q # n => At(write, q) # At(write, n)
  <1> DEFINE s == CrbSize(write, read)
             m == s + n
  <1>1. /\ write \in Slots /\ read \in Slots /\ s \in Nat /\ n \in Nat
        /\ m <= MemSize - 1 /\ n \in 0 .. MemSize /\ n \in 0 .. MemSize - 1
        /\ m \in 0 .. MemSize - 1 /\ n < Len(wbuf)
    BY ShapeFacts DEF Shape, Places
  <1>2. At(write, n) = At(read, m) /\ At(write, n) \in Slots
    BY <1>1, AtBehind, AtIs
  <1>3. \A q \in 0 .. s - 1 : q \in 0 .. MemSize - 1 /\ q # m
    BY <1>1, MemSizeAssumption
  <1>4. \A q \in 0 .. Len(wbuf) - 1 : q \in 0 .. MemSize - 1
    BY ShapeFacts, MemSizeAssumption
  <1> HIDE DEF s, m
  <1>5. \A q \in 0 .. s - 1 : At(read, q) # At(read, m)
    BY <1>1, <1>3, AtApart
  <1>6. \A q \in 0 .. Len(wbuf) - 1 : q # n => At(write, q) # At(write, n)
    BY <1>1, <1>4, AtApart
  <1> QED
    BY <1>2, <1>5, <1>6 DEF s

LEMMA IntactWriteByte == ASSUME Intact, WriteByte PROVE Copied' /\ Staged'
  <1> DEFINE x == At(write, wdone)
  <1>1. /\ Shape /\ wdone \in 0 .. Len(wbuf) - 1 /\ wdone + 1 \in 1 .. Len(wbuf)
        /\ wdone + 1 - 1 = wdone /\ Len(wbuf) \in 0 .. MemSize - 1
        /\ write \in Slots /\ mem \in [Slots -> Value]
    BY ShapeFacts DEF Intact, Shape, Places, WriteByte
  <1>2. CrbSlot(write, Len(wbuf), wdone + 1) = x
    BY <1>1, CrbSlotIs
  <1>3. /\ mem' = [mem EXCEPT ![x] = wbuf[wdone + 1]] /\ wdone' = wdone + 1
        /\ UNCHANGED <<write, read, wbuf, rbuf, rdone>>
    BY <1>2 DEF WriteByte, reader
  <1>4. /\ x \in Slots
        /\ \A q \in 0 .. CrbSize(write, read) - 1 : At(read, q) # x
        /\ \A q \in 0 .. Len(wbuf) - 1 : q # wdone => At(write, q) # x
    BY <1>1, StagedSlotIsFree
  <1> HIDE DEF x
  <1>5. Copied'
    <2> SUFFICES ASSUME NEW p \in 1 .. rdone PROVE rbuf[p] = mem'[At(read, p - 1)]
      BY <1>3 DEF Copied, At
    <2>1. p - 1 \in 0 .. CrbSize(write, read) - 1 /\ p - 1 \in 0 .. MemSize
      BY <1>1, ShapeFacts DEF Shape, Places
    <2>2. At(read, p - 1) # x /\ At(read, p - 1) \in Slots
      BY <1>1, <1>4, <2>1, AtIs DEF Shape, Places
    <2> QED
      BY <1>1, <1>3, <2>2 DEF Intact, Copied
  <1>6. Staged'
    <2> SUFFICES ASSUME NEW p \in 1 .. wdone + 1 PROVE mem'[At(write, p - 1)] = wbuf[p]
      BY <1>3 DEF Staged, At
    <2>1. p - 1 \in 0 .. Len(wbuf) - 1
      BY <1>1
    <2>2. CASE p = wdone + 1
      BY <1>1, <1>3, <1>4, <2>2 DEF x
    <2>3. CASE p # wdone + 1
      <3>1. p \in 1 .. wdone /\ p - 1 # wdone
        BY <1>1, <2>3
      <3>2. At(write, p - 1) # x /\ At(write, p - 1) \in Slots
        BY <1>1, <1>4, <2>1, <3>1, StagedSlotIsFree
      <3> QED
        BY <1>1, <1>3, <3>1, <3>2 DEF Intact, Staged
    <2> QED
      BY <2>2, <2>3
  <1> QED
    BY <1>5, <1>6

LEMMA IntactReadByte == ASSUME Intact, ReadByte PROVE Copied' /\ Staged'
  <1>1. /\ Shape /\ rdone + 1 \in 1 .. Len(rbuf) /\ rdone \in Nat
        /\ Len(rbuf) \in 0 .. MemSize - 1 /\ read \in Slots
    BY ShapeFacts DEF Intact, Shape, Places, ReadByte
  <1> DEFINE x == mem[At(read, rdone)]
  <1>2. CrbSlot(read, Len(rbuf), rdone + 1) = At(read, rdone) /\ At(read, rdone) \in Slots
    <2>1. rdone + 1 - 1 = rdone
      BY <1>1
    <2> QED
      BY <1>1, <2>1, CrbSlotIs
  <1>3. /\ rbuf' = [rbuf EXCEPT ![rdone + 1] = x] /\ rdone' = rdone + 1
        /\ UNCHANGED <<mem, write, read, wbuf, wdone>>
    BY <1>2 DEF ReadByte, writer
  <1>4. x \in Value \cup {NoValue}
    BY <1>1, <1>2 DEF Shape, Places
  <1>5. \A j \in 1 .. Len(rbuf) : rbuf'[j] = IF j = rdone + 1 THEN x ELSE rbuf[j]
    <2> HIDE DEF x
    <2> QED
      BY <1>1, <1>3, <1>4, ExceptSeq DEF Shape, Places
  <1>6. Copied'
    <2> SUFFICES ASSUME NEW p \in 1 .. rdone + 1 PROVE rbuf'[p] = mem[At(read, p - 1)]
      BY <1>3 DEF Copied, At
    <2>1. p \in 1 .. Len(rbuf) /\ (p # rdone + 1 => p \in 1 .. rdone)
      BY <1>1
    <2>2. CASE p = rdone + 1
      <3>1. rbuf'[p] = x
        BY <1>5, <2>1, <2>2
      <3>2. p - 1 = rdone
        BY <1>1, <2>2
      <3> QED
        BY <3>1, <3>2
    <2>3. CASE p # rdone + 1
      BY <1>5, <2>1, <2>3 DEF Intact, Copied
    <2> QED
      BY <2>2, <2>3
  <1>7. Staged'
    BY <1>3 DEF Intact, Staged, At
  <1> QED
    BY <1>6, <1>7

LEMMA IntactStep == Intact /\ [Next]_vars => Intact'
  <1> SUFFICES ASSUME Intact, [Next]_vars PROVE Copied' /\ Staged'
    BY ShapeStep DEF Intact
  <1>1. ASSUME UNCHANGED <<mem, write, read>>,
               UNCHANGED <<rbuf, rdone>> \/ rdone' = 0,
               UNCHANGED <<wbuf, wdone>> \/ wdone' = 0
        PROVE  Copied' /\ Staged'
    BY <1>1 DEF Intact, Copied, Staged, At
  <1>2. ASSUME NEW buf \in Batches, WriteBegin(buf) PROVE Copied' /\ Staged'
    BY <1>1, <1>2 DEF WriteBegin, reader
  <1>3. CASE WriteCommit
    BY <1>3 DEF WriteCommit, reader, Intact, Copied, Staged, At
  <1>4. ASSUME NEW op, NEW n, ReadBegin(op, n) PROVE Copied' /\ Staged'
    BY <1>1, <1>4 DEF ReadBegin, writer
  <1>5. CASE ReadCommit
    BY <1>5 DEF ReadCommit, FinishCopy, writer, Intact, Copied, Staged, At
  <1>6. CASE PeepEnd
    BY <1>1, <1>6 DEF PeepEnd, FinishCopy, writer
  <1>7. ASSUME ClearBegin \/ \E n \in 0 .. MaxBatch : AirBegin(n) PROVE Copied' /\ Staged'
    BY <1>1, <1>7 DEF ClearBegin, AirBegin, writer
  <1>8. CASE MoveRead
    <2>1. rdone = 0 /\ UNCHANGED <<mem, write, wbuf, wdone, rbuf, rdone>>
      BY <1>8 DEF MoveRead, writer, Intact, Shape, Places
    <2> QED
      BY <2>1 DEF Intact, Copied, Staged, At
  <1>9. CASE UNCHANGED vars
    BY <1>1, <1>9 DEF vars, writer, reader
  <1> QED
    BY <1>2, <1>3, <1>4, <1>5, <1>6, <1>7, <1>8, <1>9, IntactWriteByte, IntactReadByte DEF Next

-----------------------------------------------------------------------------
(* The ring implements FifoQueue *)

\* Moving `read` n bytes on removes the n oldest bytes.
LEMMA ContentsDropped ==
    ASSUME Shape, Shape', UNCHANGED <<mem, write>>,
           NEW n \in 0 .. CrbSize(write, read), read' = At(read, n),
           CrbSize(write, read') = CrbSize(write, read) - n
    PROVE  Contents' = Fifo!Rest(n)
  <1> DEFINE s == CrbSize(write, read)
  <1>1. s \in 0 .. MemSize - 1 /\ n \in Nat /\ n <= s /\ read \in Slots
    BY ShapeFacts DEF Shape, Places
  <1>2. /\ Contents \in Seq(Value) /\ Len(Contents) = s
        /\ \A p \in 1 .. s : Contents[p] = mem[At(read, p - 1)]
    BY ContentsIs
  <1>3. /\ Contents' \in Seq(Value) /\ Len(Contents') = s - n
        /\ \A p \in 1 .. s - n : Contents'[p] = mem[At(read', p - 1)]
    BY NextContentsIs
  <1> HIDE DEF s
  <1>4. \A p \in 1 .. Len(Contents') : Contents'[p] = Contents[n + p]
    <2> TAKE p \in 1 .. Len(Contents')
    <2> DEFINE k == p - 1
    <2>1. /\ p \in 1 .. s - n /\ n + p \in 1 .. s /\ k \in Nat /\ n + k <= MemSize - 1
          /\ n + p - 1 = n + k
      BY <1>1, <1>3, MemSizeAssumption
    <2>2. Contents'[p] = mem[At(At(read, n), k)] /\ Contents[n + p] = mem[At(read, n + k)]
      BY <1>2, <1>3, <2>1
    <2> HIDE DEF k
    <2>3. At(At(read, n), k) = At(read, n + k)
      BY <1>1, <2>1, AtForth
    <2> QED
      BY <2>2, <2>3
  <1>5. n \in 0 .. Len(Contents) /\ Len(Contents') = Len(Contents) - n
    BY <1>1, <1>2, <1>3
  <1> QED
    BY <1>2, <1>3, <1>4, <1>5, SeqRest DEF Fifo!Rest

\* A finished crb_Read or crb_Peep returns the front of the queue.
LEMMA ReadIsFront ==
    ASSUME Intact, FinishCopy
    PROVE  Len(rbuf) \in 0 .. Len(Contents) /\ got' = Fifo!Front(Len(rbuf))
  <1>1. Shape /\ Copied /\ rdone = Len(rbuf) /\ got' = rbuf
    BY DEF Intact, FinishCopy
  <1>2. /\ CrbSize(write, read) \in Nat /\ Len(rbuf) \in Nat /\ Len(rbuf) <= CrbSize(write, read)
        /\ rbuf \in Seq(Value \cup {NoValue})
    BY <1>1, ShapeFacts DEF Shape, Places
  <1>3. /\ Contents \in Seq(Value) /\ Len(Contents) = CrbSize(write, read)
        /\ \A p \in 1 .. CrbSize(write, read) : Contents[p] = mem[At(read, p - 1)]
    BY <1>1, ContentsIs
  <1>4. Contents \in Seq(Value \cup {NoValue})
    BY <1>3, SeqMonotonic
  <1>5. \A p \in 1 .. Len(rbuf) : rbuf[p] = Contents[p]
    <2> TAKE p \in 1 .. Len(rbuf)
    <2>1. p \in 1 .. CrbSize(write, read) /\ p \in 1 .. rdone
      BY <1>1, <1>2
    <2> QED
      BY <1>1, <1>3, <2>1 DEF Copied
  <1>6. rbuf = SubSeq(Contents, 1, Len(rbuf))
    BY <1>2, <1>3, <1>4, <1>5, SeqFront
  <1> QED
    BY <1>1, <1>2, <1>3, <1>6 DEF Fifo!Front

\* The index that ends crb_Write appends the whole batch at once.
LEMMA ContentsAppended ==
    ASSUME Intact, WriteCommit
    PROVE  Contents' = Contents \o wbuf
  <1> DEFINE s == CrbSize(write, read)
             n == Len(wbuf)
  <1>1. /\ Shape /\ Shape' /\ CrbSize(write', read) = s + n
        /\ UNCHANGED <<mem, read>> /\ wdone = n
    BY ShapeWriteCommit DEF Intact, WriteCommit
  <1>2. /\ s \in Nat /\ n \in Nat /\ s + n <= MemSize - 1 /\ wbuf \in Seq(Value)
        /\ write \in Slots /\ read \in Slots
    BY <1>1, ShapeFacts DEF Shape, Places
  <1>3. /\ Contents \in Seq(Value) /\ Len(Contents) = s
        /\ \A p \in 1 .. s : Contents[p] = mem[At(read, p - 1)]
    BY <1>1, ContentsIs
  <1>4. /\ Contents' \in Seq(Value) /\ Len(Contents') = s + n
        /\ \A p \in 1 .. s + n : Contents'[p] = mem[At(read, p - 1)]
    <2>1. /\ Contents' \in Seq(Value) /\ Len(Contents') = CrbSize(write', read')
          /\ \A p \in 1 .. CrbSize(write', read') : Contents'[p] = mem'[At(read', p - 1)]
      BY <1>1, NextContentsIs
    <2> QED
      BY <1>1, <2>1
  <1> HIDE DEF s
  <1>5. \A p \in 1 .. Len(Contents) : Contents'[p] = Contents[p]
    BY <1>2, <1>3, <1>4
  <1>6. \A p \in 1 .. n : Contents'[Len(Contents) + p] = wbuf[p]
    <2> TAKE p \in 1 .. n
    <2> DEFINE k == p - 1
               x == s + p
    <2>1. k \in Nat /\ s + k <= MemSize - 1 /\ x \in 1 .. s + n /\ x - 1 = s + k
      BY <1>2, MemSizeAssumption
    <2>2. mem[At(write, k)] = wbuf[p]
      BY <1>1 DEF Intact, Staged
    <2> HIDE DEF k, x
    <2>3. Contents'[x] = mem[At(read, s + k)]
      BY <1>4, <2>1
    <2>4. At(write, k) = At(read, s + k)
      BY <1>2, <2>1, AtBehind DEF s
    <2> QED
      BY <1>3, <2>2, <2>3, <2>4 DEF x
  <1> QED
    BY <1>1, <1>2, <1>3, <1>4, <1>5, <1>6, SeqAppend

LEMMA FifoInit == Init => Fifo!Init
  <1> SUFFICES ASSUME Init PROVE Contents = <<>>
    BY DEF Init, Fifo!Init
  <1>1. Shape /\ CrbSize(write, read) = 0
    BY ShapeInit
  <1> QED
    BY <1>1, ContentsIs, EmptySeq

LEMMA FifoOffer ==
    ASSUME Shape, NEW buf \in Batches, WriteBegin(buf)
    PROVE  Fifo!Offer
  <1>1. /\ UNCHANGED <<mem, write, read, got>> /\ wbuf = <<>>
    BY DEF WriteBegin, reader, Shape, Places
  <1>2. Contents' = Contents /\ Len(Contents) = CrbSize(write, read)
    BY <1>1, ContentsIs DEF Contents, CrbSize, Fix
  <1>3. /\ Shape' /\ Len(wbuf') \in 1 .. MemSize - 1
        /\ CrbSize(write, read) + Len(wbuf') <= MemSize - 1
    BY ShapeWriteBegin
  <1>4. wbuf' \in Seq(Value)
    BY <1>3 DEF Shape, Places
  <1>5. wbuf' \in Fifo!Batches
    BY <1>3, <1>4, LenProperties DEF Fifo!Batches
  <1> QED
    BY <1>1, <1>2, <1>3, <1>5 DEF Fifo!Offer

\* What is copied in lies outside the committed bytes.
LEMMA FifoWriteByte == ASSUME Shape, WriteByte PROVE UNCHANGED Fifo!qvars
  <1> DEFINE s == CrbSize(write, read)
             x == At(write, wdone)
  <1>1. /\ wdone \in 0 .. Len(wbuf) - 1 /\ wdone + 1 \in 1 .. Len(wbuf)
        /\ wdone + 1 - 1 = wdone /\ Len(wbuf) \in 0 .. MemSize - 1
        /\ write \in Slots /\ read \in Slots /\ mem \in [Slots -> Value] /\ s \in 0 .. MemSize - 1
    BY ShapeFacts DEF Shape, Places, WriteByte
  <1>2. CrbSlot(write, Len(wbuf), wdone + 1) = x
    BY <1>1, CrbSlotIs
  <1>3. /\ mem' = [mem EXCEPT ![x] = wbuf[wdone + 1]]
        /\ UNCHANGED <<write, read, wbuf, got>>
    BY <1>2 DEF WriteByte, reader
  <1>4. \A q \in 0 .. s - 1 : At(read, q) # x
    BY <1>1, StagedSlotIsFree
  <1>5. \A p \in 1 .. s : mem'[Fix(read + p - 1)] = mem[Fix(read + p - 1)]
    <2> TAKE p \in 1 .. s
    <2>1. p - 1 \in 0 .. s - 1 /\ p - 1 \in 0 .. MemSize /\ read + p - 1 = read + (p - 1)
      BY <1>1, MemSizeAssumption DEF Slots
    <2>2. At(read, p - 1) # x /\ At(read, p - 1) \in Slots
      BY <1>1, <1>4, <2>1, AtIs
    <2>3. Fix(read + p - 1) = At(read, p - 1)
      BY <2>1 DEF At
    <2> HIDE DEF x
    <2> QED
      BY <1>1, <1>3, <2>2, <2>3
  <1>6. Contents' = Contents
    BY <1>3, <1>5 DEF Contents, Fix, CrbSize
  <1> QED
    BY <1>3, <1>6 DEF Fifo!qvars

LEMMA CrbStep == Intact /\ [Next]_vars => [Fifo!Next]_(Fifo!qvars)
  <1> SUFFICES ASSUME Intact, [Next]_vars PROVE [Fifo!Next]_(Fifo!qvars)
    OBVIOUS
  <1> USE DEF Fifo!Next
  <1>s. Shape /\ Shape'
    BY ShapeStep DEF Intact
  <1>0. ASSUME UNCHANGED <<mem, write, read, wbuf, got>> PROVE UNCHANGED Fifo!qvars
    BY <1>0 DEF Fifo!qvars, Contents, Fix, CrbSize
  <1>1. ASSUME NEW buf \in Batches, WriteBegin(buf) PROVE Fifo!Offer
    BY <1>s, <1>1, FifoOffer
  <1>2. CASE WriteByte
    BY <1>s, <1>2, FifoWriteByte
  <1>3. ASSUME WriteCommit PROVE Fifo!Put
    <2>1. wbuf # <<>> /\ wbuf' = <<>> /\ got' = got
      BY <1>s, <1>3 DEF WriteCommit, reader, Shape, Places
    <2> QED
      BY <1>3, <2>1, ContentsAppended DEF Fifo!Put
  <1>4. ASSUME NEW op, NEW n, ReadBegin(op, n) PROVE UNCHANGED Fifo!qvars
    BY <1>0, <1>4 DEF ReadBegin, writer
  <1>5. CASE ReadByte
    BY <1>0, <1>5 DEF ReadByte, writer
  <1>6. ASSUME ReadCommit PROVE Fifo!Take
    <2> DEFINE n == Len(rbuf)
    <2>1. n \in 0 .. Len(Contents) /\ got' = Fifo!Front(n)
      BY <1>6, ReadIsFront DEF ReadCommit
    <2>2. /\ n \in 0 .. CrbSize(write, read) /\ UNCHANGED <<mem, write, wbuf>>
          /\ read' = At(read, n) /\ CrbSize(write, read') = CrbSize(write, read) - n
      BY <1>s, <1>6, <2>1, ContentsIs, ShapeReadCommit DEF ReadCommit, FinishCopy, writer
    <2> HIDE DEF n
    <2>3. Contents' = Fifo!Rest(n)
      BY <1>s, <2>2, ContentsDropped
    <2> QED
      BY <2>1, <2>2, <2>3 DEF Fifo!Take
  <1>7. ASSUME PeepEnd PROVE Fifo!Peek
    <2>1. UNCHANGED <<mem, write, read, wbuf>> /\ FinishCopy
      BY <1>7 DEF PeepEnd, FinishCopy, writer
    <2>2. Contents' = Contents
      BY <2>1 DEF Contents, Fix, CrbSize
    <2> QED
      BY <2>1, <2>2, ReadIsFront DEF Fifo!Peek
  <1>8. ASSUME ClearBegin \/ \E n \in 0 .. MaxBatch : AirBegin(n) PROVE UNCHANGED Fifo!qvars
    BY <1>0, <1>8 DEF ClearBegin, AirBegin, writer
  <1>9. ASSUME MoveRead PROVE Fifo!Drop
    <2> DEFINE n == CrbSize(rto, read)
    <2>1. /\ n \in 0 .. CrbSize(write, read) /\ n \in 0 .. Len(Contents)
          /\ UNCHANGED <<mem, write, wbuf, got>>
          /\ read' = At(read, n) /\ CrbSize(write, read') = CrbSize(write, read) - n
      BY <1>s, <1>9, ContentsIs, PlacesMoveRead DEF Shape
    <2> HIDE DEF n
    <2>2. Contents' = Fifo!Rest(n)
      BY <1>s, <2>1, ContentsDropped
    <2> QED
      BY <2>1, <2>2 DEF Fifo!Drop
  <1>10. CASE UNCHANGED vars
    BY <1>0, <1>10 DEF vars, writer, reader
  <1> QED
    BY <1>1, <1>2, <1>3, <1>4, <1>5, <1>6, <1>7, <1>8, <1>9, <1>10 DEF Next

\* The ring implements FifoQueue with room for mem_size - 1 bytes: every write
\* is one append, every read one removal of the front it returns, crb_ReadAir
\* and crb_Clear throw the front away, however the bytes are copied meanwhile.
THEOREM Refinement == Spec => Fifo!Spec
  BY CrbStep, FifoInit, IntactInit, IntactStep, PTL DEF Spec, Fifo!Spec

-----------------------------------------------------------------------------
(* The elastic ring buffer *)

Bytes == E!Bytes
Held == Value \cup {NoValue}

ErbShape == Places /\ mem \in [Bytes -> Held] /\ wdone \in 0 .. Len(wbuf) + E!Repeated

\* What is seen through the pointer is what is in the first half.
InOnePiece == \A q \in 0 .. CrbSize(write, read) - 1 : mem[read + q] = mem[At(read, q)]

\* What a write in progress has stored, and what it has repeated.
FirstCopy == \A p \in 0 .. Len(wbuf) - 1 : p < wdone => mem[write + p] = wbuf[p + 1]
SecondCopy == \A p \in 0 .. E!Repeated - 1 : Len(wbuf) + p < wdone =>
    IF E!Crosses THEN mem[p] = mem[MemSize + p] ELSE mem[MemSize + write + p] = wbuf[p + 1]

\* What a reader has read is still there.
Seen == \A p \in 1 .. rdone : rbuf[p] = mem[read + (p - 1)]

ErbIntact == ErbShape /\ InOnePiece /\ FirstCopy /\ SecondCopy /\ Seen

-----------------------------------------------------------------------------
(* Where bytes lie *)

LEMMA SameNames ==
    /\ E!C!Slots = Slots /\ E!C!Batches = Batches
    /\ E!Size = CrbSize(write, read) /\ E!FreeSize = FreeSize(write, read)
    /\ \A m, n : E!C!LessOf(m, n) = LessOf(m, n)
    /\ \A ptr : E!C!Fix(ptr) = Fix(ptr)
    /\ Bytes = 0 .. 2 * MemSize - 1
  BY DEF E!C!Slots, Slots, E!C!Batches, Batches, E!Size, E!C!CrbSize, CrbSize, E!FreeSize,
     E!C!FreeSize, FreeSize, E!C!LessOf, LessOf, E!C!Fix, Fix, Bytes, E!Bytes

LEMMA SameActions ==
    /\ \A n : E!ReadAir(n) <=> AirBegin(n)
    /\ E!Clear <=> ClearBegin
    /\ E!MoveRead <=> MoveRead
  BY DEF E!ReadAir, E!C!AirBegin, AirBegin, E!Clear, E!C!ClearBegin, ClearBegin,
     E!MoveRead, E!C!MoveRead, MoveRead, E!C!writer, writer, E!C!LessOf, LessOf,
     E!C!Fix, Fix, E!C!CrbSize, CrbSize

\* The two indices, and how much a write repeats.
LEMMA ErbFacts ==
    ASSUME Places
    PROVE  /\ write \in 0 .. MemSize - 1 /\ read \in 0 .. MemSize - 1 /\ MemSize \in Nat \ {0}
           /\ Len(wbuf) \in Nat /\ Len(rbuf) \in Nat
           /\ CrbSize(write, read) = IF read > write THEN write + MemSize - read ELSE write - read
           /\ CrbSize(write, read) + Len(wbuf) <= MemSize - 1
           /\ Len(rbuf) <= CrbSize(write, read)
           /\ E!Crosses <=> write + Len(wbuf) > MemSize
           /\ E!Repeated = IF write + Len(wbuf) > MemSize
                           THEN write + Len(wbuf) - MemSize ELSE Len(wbuf)
           /\ E!Repeated \in 0 .. Len(wbuf)
  <1>1. /\ write \in Slots /\ read \in Slots /\ MemSize \in Nat \ {0}
        /\ Len(wbuf) \in 0 .. MemSize - 1 /\ Len(rbuf) \in 0 .. MemSize - 1
        /\ CrbSize(write, read) + Len(wbuf) <= MemSize - 1
        /\ Len(rbuf) <= CrbSize(write, read)
    BY PlacesFacts DEF Places
  <1>2. /\ CrbSize(write, read) = IF read > write THEN write + MemSize - read ELSE write - read
    BY <1>1, SizeIs
  <1> DEFINE n == Len(wbuf)
  <1>3. /\ E!Crosses <=> write + n > MemSize
        /\ E!Repeated = IF write + n > MemSize THEN write + n - MemSize ELSE n
    BY DEF E!Crosses, E!Repeated
  <1>4. n \in 0 .. MemSize - 1
    BY <1>1
  <1> HIDE DEF n
  <1>5. E!Repeated \in 0 .. n
    BY <1>1, <1>3, <1>4 DEF Slots
  <1> QED
    BY <1>1, <1>2, <1>3, <1>5 DEF Slots, n

\* Where the bytes in use lie in the first half.
LEMMA InUse ==
    ASSUME Places, NEW q \in 0 .. CrbSize(write, read)
    PROVE  /\ At(read, q) = IF read + q < MemSize THEN read + q ELSE read + q - MemSize
           /\ At(read, q) \in 0 .. MemSize - 1
  <1>1. q \in 0 .. MemSize /\ read \in Slots
    BY ErbFacts DEF Slots
  <1> QED
    BY <1>1, AtIs DEF Slots

\* Neither copy of a write touches a byte in use, in either half.
LEMMA WrittenApart ==
    ASSUME Places, NEW x \in E!Written, NEW q \in 0 .. CrbSize(write, read) - 1
    PROVE  x # read + q /\ x # At(read, q)
  <1> DEFINE n == Len(wbuf)
             s == CrbSize(write, read)
             m == E!Repeated
  <1>1. /\ write \in 0 .. MemSize - 1 /\ read \in 0 .. MemSize - 1 /\ MemSize \in Nat \ {0}
        /\ n \in Nat /\ s = (IF read > write THEN write + MemSize - read ELSE write - read)
        /\ s + n <= MemSize - 1
        /\ E!Crosses <=> write + n > MemSize
        /\ m = IF write + n > MemSize THEN write + n - MemSize ELSE n
    BY ErbFacts
  <1>2. /\ q \in 0 .. s
    BY <1>1
  <1>3. At(read, q) = IF read + q < MemSize THEN read + q ELSE read + q - MemSize
    BY <1>2, InUse
  <1>4. \/ \E p \in 0 .. n - 1 : x = write + p
        \/ \E p \in 0 .. m - 1 : x = (IF E!Crosses THEN 0 ELSE MemSize + write) + p
    BY DEF E!Written
  <1> HIDE DEF n, s, m
  <1>5. q \in 0 .. s - 1
    BY DEF s
  <1>6. ASSUME NEW p \in 0 .. n - 1, x = write + p
        PROVE  x # read + q /\ x # At(read, q)
    BY <1>1, <1>3, <1>5, <1>6
  <1>7. ASSUME NEW p \in 0 .. m - 1, x = (IF E!Crosses THEN 0 ELSE MemSize + write) + p
        PROVE  x # read + q /\ x # At(read, q)
    BY <1>1, <1>3, <1>5, <1>7
  <1> QED
    BY <1>4, <1>6, <1>7

\* No call of the writer stores where a pointer of erb_Peep leads to.
LEMMA ErbNeverRaces == ASSUME Places PROVE E!NoRace
  <1>1. ASSUME NEW x \in E!Written, x \in E!Readable PROVE FALSE
    <2>1. \E q \in 0 .. CrbSize(write, read) - 1 : x = read + q
      <3>1. CrbSize(write, read) \in Nat /\ Len(rbuf) \in Nat /\ Len(rbuf) <= CrbSize(write, read)
        BY ErbFacts
      <3>2. \/ \E q \in 0 .. CrbSize(write, read) - 1 : x = read + q
            \/ \E q \in 0 .. Len(rbuf) - 1 : x = read + q
        BY <1>1, SameNames DEF E!Readable
      <3> QED
        BY <3>1, <3>2
    <2> QED
      BY <2>1, WrittenApart
  <1> QED
    BY <1>1 DEF E!NoRace

-----------------------------------------------------------------------------
(* What may be read *)

\* The bytes of one piece as a sequence.
Piece(m, r, s) == [p \in 1 .. s |-> m[r + p - 1]]

LEMMA PieceIs ==
    ASSUME NEW m \in [0 .. 2 * MemSize - 1 -> Held], NEW r \in 0 .. MemSize - 1,
           NEW s \in 0 .. MemSize - 1
    PROVE  /\ Piece(m, r, s) \in Seq(Held) /\ Len(Piece(m, r, s)) = s
           /\ \A p \in 1 .. s : Piece(m, r, s)[p] = m[r + (p - 1)]
  <1> DEFINE e(p) == m[r + p - 1]
  <1>1. s \in Nat
    BY MemSizeAssumption
  <1>2. \A p \in 1 .. s : r + p - 1 = r + (p - 1) /\ r + p - 1 \in 0 .. 2 * MemSize - 1
    BY MemSizeAssumption
  <1>3. \A p \in 1 .. s : e(p) \in Held
    BY <1>2
  <1>4. Piece(m, r, s) = [p \in 1 .. s |-> e(p)]
    BY DEF Piece
  <1>5. \A p \in 1 .. s : e(p) = m[r + (p - 1)]
    BY <1>2
  <1> HIDE DEF e
  <1>6. Piece(m, r, s) \in Seq(Held)
    BY <1>1, <1>3, <1>4, IsASeq
  <1>7. Len(Piece(m, r, s)) = s
    BY <1>1, <1>4, <1>6, LenProperties
  <1> QED
    BY <1>4, <1>5, <1>6, <1>7

LEMMA ViewIs ==
    ASSUME ErbShape
    PROVE  /\ E!View \in Seq(Held) /\ Len(E!View) = CrbSize(write, read)
           /\ \A p \in 1 .. CrbSize(write, read) : E!View[p] = mem[read + (p - 1)]
  <1>1. /\ mem \in [0 .. 2 * MemSize - 1 -> Held] /\ read \in 0 .. MemSize - 1
        /\ CrbSize(write, read) \in 0 .. MemSize - 1
    BY SameNames, PlacesFacts, ErbFacts DEF ErbShape
  <1>2. E!View = Piece(mem, read, CrbSize(write, read))
    BY SameNames DEF E!View, Piece
  <1> QED
    BY <1>1, <1>2, PieceIs

LEMMA NextViewIs ==
    ASSUME ErbShape'
    PROVE  /\ E!View' \in Seq(Held) /\ Len(E!View') = CrbSize(write', read')
           /\ \A p \in 1 .. CrbSize(write', read') : E!View'[p] = mem'[read' + (p - 1)]
  <1>1. mem' \in [0 .. 2 * MemSize - 1 -> Held] /\ write' \in Slots /\ read' \in Slots
    BY DEF ErbShape, Places, Slots, Bytes, E!Bytes
  <1>2. read' \in 0 .. MemSize - 1 /\ CrbSize(write', read') \in 0 .. MemSize - 1
    BY <1>1, SizeIs DEF Slots
  <1>3. E!View' = Piece(mem', read', CrbSize(write', read'))
    BY DEF E!View, Piece, E!Size, E!C!CrbSize, CrbSize
  <1> QED
    BY <1>1, <1>2, <1>3, PieceIs

-----------------------------------------------------------------------------
(* ErbIntact is inductive. *)

LEMMA ErbInit == E!Init => ErbIntact /\ E!View = <<>>
  <1> SUFFICES ASSUME E!Init PROVE ErbIntact /\ E!View = <<>>
    OBVIOUS
  <1>1. Places /\ CrbSize(write, read) = 0
    BY PlacesEmpty DEF E!Init
  <1>2. ErbShape
    BY <1>1, ErbFacts DEF E!Init, ErbShape, Bytes, Held
  <1>3. E!View = <<>>
    BY <1>1, <1>2, ViewIs, EmptySeq
  <1>4. wdone = 0 /\ rdone = 0 /\ Len(wbuf) = 0 /\ E!Repeated = 0
    BY <1>1, ErbFacts DEF E!Init
  <1>5. InOnePiece /\ FirstCopy /\ SecondCopy /\ Seen
    BY <1>1, <1>4 DEF InOnePiece, FirstCopy, SecondCopy, Seen
  <1> QED
    BY <1>2, <1>3, <1>5 DEF ErbIntact

LEMMA NextInOnePiece ==
    InOnePiece' <=> \A q \in 0 .. CrbSize(write', read') - 1 :
                        mem'[read' + q] = mem'[At(read', q)]
  BY DEF InOnePiece, CrbSize, At, Fix

\* A byte that is stored where a write may store changes nothing for the reader.
LEMMA Untouched ==
    ASSUME ErbIntact, NEW x \in E!Written, NEW v \in Held, x \in Bytes,
           mem' = [mem EXCEPT ![x] = v],
           UNCHANGED <<write, read, rbuf, rdone>>
    PROVE  InOnePiece' /\ Seen' /\ E!View' = E!View /\ mem' \in [Bytes -> Held]
  <1>1. /\ Places /\ mem \in [Bytes -> Held] /\ Bytes = 0 .. 2 * MemSize - 1
    BY SameNames DEF ErbIntact, ErbShape
  <1>2. /\ read \in 0 .. MemSize - 1 /\ CrbSize(write, read) \in 0 .. MemSize - 1
        /\ MemSize \in Nat \ {0} /\ Len(rbuf) <= CrbSize(write, read) /\ rdone \in 0 .. Len(rbuf)
        /\ Len(rbuf) \in Nat
    BY <1>1, ErbFacts, PlacesFacts DEF Places
  <1>3. \A q \in 0 .. CrbSize(write, read) - 1 :
            mem'[read + q] = mem[read + q] /\ mem'[At(read, q)] = mem[At(read, q)]
    <2> TAKE q \in 0 .. CrbSize(write, read) - 1
    <2>1. read + q \in Bytes /\ q \in 0 .. CrbSize(write, read)
      BY <1>1, <1>2
    <2>2. At(read, q) \in Bytes
      BY <1>1, <1>2, <2>1, InUse
    <2>3. x # read + q /\ x # At(read, q)
      BY <1>1, WrittenApart
    <2> QED
      BY <1>1, <2>1, <2>2, <2>3
  <1>4. InOnePiece'
    BY <1>3 DEF ErbIntact, InOnePiece, CrbSize, At, Fix
  <1>5. Seen'
    <2>1. \A p \in 1 .. rdone : p - 1 \in 0 .. CrbSize(write, read) - 1
      BY <1>2
    <2> QED
      BY <1>3, <2>1 DEF ErbIntact, Seen
  <1>6. E!View' = E!View
    <2>1. \A p \in 1 .. CrbSize(write, read) :
              p - 1 \in 0 .. CrbSize(write, read) - 1 /\ read + p - 1 = read + (p - 1)
      BY <1>2
    <2>2. \A p \in 1 .. CrbSize(write, read) : mem'[read + p - 1] = mem[read + p - 1]
      BY <1>3, <2>1
    <2>3. E!View = Piece(mem, read, CrbSize(write, read))
          /\ E!View' = Piece(mem', read, CrbSize(write, read))
      BY DEF E!View, Piece, E!Size, E!C!CrbSize, CrbSize
    <2> QED
      BY <2>2, <2>3 DEF Piece
  <1> QED
    BY <1>1, <1>4, <1>5, <1>6

LEMMA ErbStoreByte ==
    ASSUME ErbIntact, E!StoreByte
    PROVE  ErbIntact' /\ E!View' = E!View
  <1> DEFINE n == Len(wbuf)
             x == write + wdone
             v == wbuf[wdone + 1]
  <1>1. /\ Places /\ write \in 0 .. MemSize - 1 /\ MemSize \in Nat \ {0}
        /\ n \in Nat /\ n <= MemSize - 1 /\ E!Repeated \in 0 .. n
        /\ wdone \in 0 .. n - 1 /\ wbuf \in Seq(Value) /\ mem \in [Bytes -> Held]
    <2>1. Places /\ wdone \in 0 .. Len(wbuf) + E!Repeated /\ mem \in [Bytes -> Held]
      BY DEF ErbIntact, ErbShape
    <2>2. wdone < n
      BY DEF E!StoreByte
    <2>3. /\ write \in 0 .. MemSize - 1 /\ MemSize \in Nat \ {0}
          /\ n \in 0 .. MemSize - 1 /\ E!Repeated \in 0 .. n
      BY <2>1, ErbFacts, PlacesFacts
    <2>4. wbuf \in Seq(Value)
      BY <2>1 DEF Places
    <2> HIDE DEF n
    <2>5. n \in Nat /\ n <= MemSize - 1 /\ wdone \in 0 .. n - 1
      BY <2>1, <2>2, <2>3 DEF n
    <2> QED
      BY <2>1, <2>3, <2>4, <2>5
  <1>2. /\ mem' = [mem EXCEPT ![x] = v] /\ wdone' = wdone + 1
        /\ UNCHANGED <<write, read, wpc, wbuf, rop, rbuf, rdone, rto, got>>
    BY DEF E!StoreByte
  <1>3. x \in E!Written /\ x \in Bytes
    BY <1>1, SameNames DEF E!Written
  <1>4. v \in Held
    <2>1. wdone + 1 \in 1 .. Len(wbuf)
      BY <1>1
    <2> QED
      BY <1>1, <2>1, ElementOfSeq DEF Held
  <1>5. InOnePiece' /\ Seen' /\ E!View' = E!View /\ mem' \in [Bytes -> Held]
    <2> HIDE DEF x, v
    <2> QED
      BY <1>2, <1>3, <1>4, Untouched
  <1>6. Places'
    BY <1>1, <1>2, PlacesStay
  <1>7. E!Repeated' = E!Repeated /\ (E!Crosses' <=> E!Crosses) /\ Bytes' = Bytes
    BY <1>2 DEF E!Repeated, E!Crosses, Bytes, E!Bytes
  <1>8. ErbShape'
    BY <1>1, <1>2, <1>5, <1>6, <1>7 DEF ErbShape
  <1>9. FirstCopy'
    <2> SUFFICES ASSUME NEW p \in 0 .. n - 1, p < wdone + 1
                 PROVE  mem'[write + p] = wbuf[p + 1]
      BY <1>2 DEF FirstCopy
    <2>1. write + p \in Bytes
      BY <1>1, SameNames
    <2>2. CASE p = wdone
      BY <1>1, <1>2, <1>3, <2>2
    <2>3. CASE p # wdone
      <3>1. p < wdone /\ write + p # x
        BY <1>1, <2>3
      <3>2. mem[write + p] = wbuf[p + 1]
        BY <3>1 DEF ErbIntact, FirstCopy
      <3> HIDE DEF x
      <3> QED
        BY <1>1, <1>2, <2>1, <3>1, <3>2
    <2> QED
      BY <2>2, <2>3
  <1>10. SecondCopy'
    BY <1>1, <1>2, <1>7 DEF SecondCopy
  <1> QED
    BY <1>5, <1>8, <1>9, <1>10 DEF ErbIntact

LEMMA ErbRepeatByte ==
    ASSUME ErbIntact, E!RepeatByte
    PROVE  ErbIntact' /\ E!View' = E!View
  <1> DEFINE n == Len(wbuf)
             m == E!Repeated
             k == wdone - n
             x == IF E!Crosses THEN k ELSE MemSize + write + k
             v == IF E!Crosses THEN mem[MemSize + k] ELSE wbuf[k + 1]
  <1>1. /\ Places /\ write \in 0 .. MemSize - 1 /\ MemSize \in Nat \ {0}
        /\ n \in Nat /\ n <= MemSize - 1 /\ m \in 0 .. n
        /\ E!Crosses <=> write + n > MemSize
        /\ m = (IF write + n > MemSize THEN write + n - MemSize ELSE n)
        /\ k \in 0 .. m - 1 /\ wdone = n + k /\ wbuf \in Seq(Value) /\ mem \in [Bytes -> Held]
    <2>1. Places /\ mem \in [Bytes -> Held]
      BY DEF ErbIntact, ErbShape
    <2>2. wdone \in n .. n + m - 1
      BY DEF E!RepeatByte
    <2>3. /\ write \in 0 .. MemSize - 1 /\ MemSize \in Nat \ {0}
          /\ n \in 0 .. MemSize - 1 /\ m \in 0 .. n
          /\ E!Crosses <=> write + n > MemSize
          /\ m = (IF write + n > MemSize THEN write + n - MemSize ELSE n)
      BY <2>1, ErbFacts, PlacesFacts
    <2>4. wbuf \in Seq(Value)
      BY <2>1 DEF Places
    <2> HIDE DEF n, m
    <2>5. n \in Nat /\ n <= MemSize - 1 /\ k \in 0 .. m - 1 /\ wdone = n + k
      BY <2>2, <2>3
    <2> QED
      BY <2>1, <2>3, <2>4, <2>5
  <1>2. /\ mem' = [mem EXCEPT ![x] = v] /\ wdone' = wdone + 1
        /\ UNCHANGED <<write, read, wpc, wbuf, rop, rbuf, rdone, rto, got>>
    BY DEF E!RepeatByte
  <1>3. x \in E!Written /\ x \in Bytes /\ (E!Crosses => MemSize + k \in Bytes)
    <2>1. k \in 0 .. m - 1
      BY <1>1
    <2>2. x = (IF E!Crosses THEN 0 ELSE MemSize + write) + k
      BY <1>1
    <2>3. x \in E!Written
      <3> HIDE DEF x, k
      <3> QED
        BY <2>1, <2>2 DEF E!Written
    <2>4. x \in 0 .. 2 * MemSize - 1 /\ (E!Crosses => MemSize + k \in 0 .. 2 * MemSize - 1)
      <3> HIDE DEF n, m, k
      <3>1. k \in Nat /\ k < m /\ m <= n
        BY <1>1
      <3> QED
        BY <1>1, <3>1
    <2> QED
      BY <2>3, <2>4, SameNames
  <1>4. v \in Held
    <2>1. k + 1 \in 1 .. Len(wbuf)
      BY <1>1
    <2>2. wbuf[k + 1] \in Held
      BY <1>1, <2>1, ElementOfSeq DEF Held
    <2> QED
      BY <1>1, <1>3, <2>2
  <1>5. InOnePiece' /\ Seen' /\ E!View' = E!View /\ mem' \in [Bytes -> Held]
    <2> HIDE DEF x, v
    <2> QED
      BY <1>2, <1>3, <1>4, Untouched
  <1>6. Places'
    BY <1>1, <1>2, PlacesStay
  <1>7. E!Repeated' = m /\ (E!Crosses' <=> E!Crosses) /\ Bytes' = Bytes
    BY <1>2 DEF E!Repeated, E!Crosses, Bytes, E!Bytes
  <1>8. ErbShape'
    <2>1. wdone' \in 0 .. n + m
      BY <1>1, <1>2
    <2> QED
      BY <1>2, <1>5, <1>6, <1>7, <2>1 DEF ErbShape
  <1>9. FirstCopy'
    <2> SUFFICES ASSUME NEW p \in 0 .. n - 1
                 PROVE  mem'[write + p] = wbuf[p + 1]
      BY <1>2 DEF FirstCopy
    <2>1. write + p \in Bytes /\ p < wdone /\ write + p # x
      BY <1>1, SameNames, SMTT(60)
    <2>2. mem[write + p] = wbuf[p + 1]
      BY <2>1 DEF ErbIntact, FirstCopy
    <2> HIDE DEF x, v
    <2> QED
      BY <1>1, <1>2, <2>1, <2>2
  <1>10. SecondCopy'
    <2> SUFFICES ASSUME NEW p \in 0 .. m - 1, n + p < wdone + 1
                 PROVE  IF E!Crosses THEN mem'[p] = mem'[MemSize + p]
                                     ELSE mem'[MemSize + write + p] = wbuf[p + 1]
      BY <1>2, <1>7 DEF SecondCopy
    <2>1. p \in Bytes /\ MemSize + p \in Bytes /\ (MemSize + p # x \/ ~E!Crosses)
      BY <1>1, SameNames, SMTT(60)
    <2>2. MemSize + write + p \in Bytes \/ E!Crosses
      BY <1>1, SameNames
    <2>3. p # k => n + p < wdone
      BY <1>1
    <2>4. n + p < wdone => IF E!Crosses THEN mem[p] = mem[MemSize + p]
                                        ELSE mem[MemSize + write + p] = wbuf[p + 1]
      BY DEF ErbIntact, SecondCopy
    <2>5. CASE E!Crosses /\ p = k
      BY <1>1, <1>2, <1>3, <2>1, <2>5
    <2>6. CASE E!Crosses /\ p # k
      <3>1. p # x
        BY <2>6
      <3> HIDE DEF x, v
      <3> QED
        BY <1>1, <1>2, <2>1, <2>3, <2>4, <2>6, <3>1
    <2>7. CASE ~E!Crosses /\ p = k
      BY <1>1, <1>2, <1>3, <2>7
    <2>8. CASE ~E!Crosses /\ p # k
      <3>1. MemSize + write + p # x
        BY <1>1, <2>8
      <3> HIDE DEF x, v
      <3> QED
        BY <1>1, <1>2, <2>2, <2>3, <2>4, <2>8, <3>1
    <2> QED
      BY <2>5, <2>6, <2>7, <2>8
  <1> QED
    BY <1>5, <1>8, <1>9, <1>10 DEF ErbIntact

LEMMA ErbWriteBegin ==
    ASSUME ErbIntact, NEW buf \in Batches, E!WriteBegin(buf)
    PROVE  /\ ErbIntact' /\ E!View' = E!View /\ wbuf = <<>> /\ got' = got
           /\ wbuf' \in Seq(Value) /\ Len(wbuf') \in 1 .. MemSize - 1
           /\ CrbSize(write, read) + Len(wbuf') <= MemSize - 1
  <1>1. /\ wpc = "idle" /\ wpc' = "copy" /\ FreeSize(write, read) # 0 /\ wdone' = 0
        /\ wbuf' = SubSeq(buf, 1, LessOf(Len(buf), FreeSize(write, read)))
        /\ UNCHANGED <<mem, write, read, rop, rbuf, rdone, rto, got>>
    BY SameNames DEF E!WriteBegin
  <1>2. Places /\ mem \in [Bytes -> Held]
    BY DEF ErbIntact, ErbShape
  <1>3. /\ Places' /\ Len(wbuf') \in 1 .. MemSize - 1
        /\ CrbSize(write, read) + Len(wbuf') <= MemSize - 1
    BY <1>1, <1>2, PlacesOffer
  <1>4. wbuf' \in Seq(Value) /\ wbuf = <<>>
    BY <1>1, <1>2, <1>3 DEF Places
  <1>5. E!Repeated' \in 0 .. Len(wbuf') /\ write \in 0 .. MemSize - 1 /\ MemSize \in Nat
    <2>1. E!Repeated' = IF write + Len(wbuf') > MemSize THEN write + Len(wbuf') - MemSize ELSE Len(wbuf')
      BY <1>1 DEF E!Repeated, E!Crosses
    <2>2. write \in 0 .. MemSize - 1 /\ MemSize \in Nat
      BY <1>2, ErbFacts
    <2> DEFINE n == Len(wbuf')
    <2>3. n \in 1 .. MemSize - 1
      BY <1>3
    <2> HIDE DEF n
    <2>4. (IF write + n > MemSize THEN write + n - MemSize ELSE n) \in 0 .. n
      BY <2>2, <2>3
    <2> QED
      BY <2>1, <2>2, <2>4 DEF n
  <1>6. wdone' \in 0 .. Len(wbuf') + E!Repeated'
    <2>1. Len(wbuf') \in Nat /\ E!Repeated' \in Nat
      BY <1>3, <1>5
    <2>2. wdone' = 0
      BY <1>1
    <2> QED
      BY <2>1, <2>2
  <1>7. ErbShape'
    <2>1. (mem \in [Bytes -> Held])'
      BY <1>1, <1>2 DEF Bytes, E!Bytes, Held
    <2> QED
      BY <1>3, <1>6, <2>1 DEF ErbShape
  <1>8. InOnePiece' /\ Seen' /\ E!View' = E!View
    BY <1>1 DEF ErbIntact, InOnePiece, Seen, At, Fix, CrbSize, E!View, E!Size, E!C!CrbSize
  <1>9. FirstCopy' /\ SecondCopy'
    <2>1. \A p \in 0 .. Len(wbuf') - 1 : ~(p < 0)
      OBVIOUS
    <2>2. \A p \in 0 .. E!Repeated' - 1 : ~(Len(wbuf') + p < 0)
      BY <1>3
    <2>3. wdone' = 0
      BY <1>1
    <2> QED
      BY <2>1, <2>2, <2>3 DEF FirstCopy, SecondCopy
  <1> QED
    BY <1>1, <1>3, <1>4, <1>7, <1>8, <1>9 DEF ErbIntact

\* When both copies are done, each byte is where a reader will look, whether it
\* looks in the first half or across its end.
LEMMA Landed ==
    ASSUME ErbIntact, wdone = Len(wbuf) + E!Repeated, NEW k \in 0 .. Len(wbuf) - 1
    PROVE  /\ mem[read + (CrbSize(write, read) + k)] = wbuf[k + 1]
           /\ mem[At(write, k)] = wbuf[k + 1]
  <1> DEFINE n == Len(wbuf)
             m == E!Repeated
             s == CrbSize(write, read)
  <1>1. /\ write \in 0 .. MemSize - 1 /\ read \in 0 .. MemSize - 1 /\ MemSize \in Nat \ {0}
        /\ n \in Nat /\ s = (IF read > write THEN write + MemSize - read ELSE write - read)
        /\ s + n <= MemSize - 1
        /\ E!Crosses <=> write + n > MemSize
        /\ m = (IF write + n > MemSize THEN write + n - MemSize ELSE n)
        /\ write \in Slots
    BY ErbFacts DEF ErbIntact, ErbShape, Places
  <1>2. \A p \in 0 .. n - 1 : p < n + m => mem[write + p] = wbuf[p + 1]
    BY DEF ErbIntact, FirstCopy
  <1>3. \A p \in 0 .. m - 1 : n + p < n + m =>
            IF E!Crosses THEN mem[p] = mem[MemSize + p] ELSE mem[MemSize + write + p] = wbuf[p + 1]
    BY DEF ErbIntact, SecondCopy
  <1>4. k \in 0 .. n - 1
    OBVIOUS
  <1> HIDE DEF n, m, s
  <1>5. n >= 1 /\ m \in Nat /\ s \in Nat
    BY <1>1, <1>4
  <1>6. mem[write + k] = wbuf[k + 1]
    <2>1. k < n + m
      BY <1>1, <1>4, <1>5
    <2> QED
      BY <1>2, <1>4, <2>1
  <1>7. At(write, k) = IF write + k < MemSize THEN write + k ELSE write + k - MemSize
    <2>1. k \in 0 .. MemSize
      BY <1>1, <1>4, <1>5
    <2> QED
      BY <1>1, <2>1, AtIs
  <1>8. mem[At(write, k)] = wbuf[k + 1]
    <2>1. CASE write + k < MemSize
      BY <1>6, <1>7, <2>1
    <2>2. CASE ~(write + k < MemSize)
      <3> DEFINE p == write + k - MemSize
      <3>1. p \in 0 .. m - 1 /\ E!Crosses /\ n + p < n + m /\ MemSize + p = write + k
        BY <1>1, <1>4, <2>2
      <3>2. At(write, k) = p
        BY <1>7, <2>2
      <3> HIDE DEF p
      <3>3. mem[p] = mem[MemSize + p]
        BY <1>3, <3>1
      <3> QED
        BY <1>6, <3>1, <3>2, <3>3
    <2> QED
      BY <2>1, <2>2
  <1>9. mem[read + (s + k)] = wbuf[k + 1]
    <2>1. CASE read <= write
      <3>1. read + (s + k) = write + k
        BY <1>1, <1>4, <2>1
      <3> QED
        BY <1>6, <3>1
    <2>2. CASE ~(read <= write)
      <3>1. /\ read + (s + k) = MemSize + write + k /\ ~E!Crosses
            /\ k \in 0 .. m - 1 /\ n + k < n + m
        BY <1>1, <1>4, <2>2
      <3> QED
        BY <1>3, <3>1
    <2> QED
      BY <2>1, <2>2
  <1> QED
    BY <1>8, <1>9 DEF s

LEMMA ErbWriteCommit ==
    ASSUME ErbIntact, E!WriteCommit
    PROVE  ErbIntact' /\ E!View' = E!View \o wbuf /\ wbuf # <<>> /\ wbuf' = <<>> /\ got' = got
  <1> DEFINE n == Len(wbuf)
             s == CrbSize(write, read)
  <1>1. /\ wpc = "copy" /\ wdone = n + E!Repeated /\ write' = Fix(write + n)
        /\ wpc' = "idle" /\ wbuf' = <<>> /\ wdone' = 0
        /\ UNCHANGED <<mem, read, rop, rbuf, rdone, rto, got>>
    BY SameNames DEF E!WriteCommit
  <1>2. Places /\ mem \in [Bytes -> Held] /\ wbuf # <<>> /\ wbuf \in Seq(Value)
    BY <1>1 DEF ErbIntact, ErbShape, Places
  <1>3. Places' /\ CrbSize(write', read) = s + n
    BY <1>1, <1>2, PlacesPut
  <1>4. /\ s \in 0 .. MemSize - 1 /\ n \in Nat /\ s + n <= MemSize - 1
        /\ read \in Slots /\ write \in Slots
    BY <1>2, PlacesFacts DEF Places
  <1>5. ErbShape'
    <2>1. (mem \in [Bytes -> Held])'
      BY <1>1, <1>2 DEF Bytes, E!Bytes, Held
    <2>2. write' \in 0 .. MemSize - 1 /\ MemSize \in Nat
      <3>1. write' \in Slots
        BY <1>3 DEF Places, Slots
      <3> QED
        BY <3>1, MemSizeAssumption DEF Slots
    <2>3. Len(wbuf') = 0
      BY <1>1
    <2>4. E!Repeated' = 0
      <3> DEFINE w == write'
                 l == Len(wbuf')
      <3>1. E!Repeated' = IF w + l > MemSize THEN w + l - MemSize ELSE l
        BY DEF E!Repeated, E!Crosses
      <3>2. w \in 0 .. MemSize - 1 /\ MemSize \in Nat /\ l = 0
        BY <2>2, <2>3
      <3> HIDE DEF w, l
      <3> QED
        BY <3>1, <3>2
    <2>5. wdone' \in 0 .. Len(wbuf') + E!Repeated'
      BY <1>1, <2>3, <2>4
    <2> QED
      BY <1>3, <2>1, <2>5 DEF ErbShape
  <1>6. \A k \in 0 .. n - 1 : mem[read + (s + k)] = wbuf[k + 1] /\ mem[At(read, s + k)] = wbuf[k + 1]
    <2> TAKE k \in 0 .. n - 1
    <2>1. mem[read + (s + k)] = wbuf[k + 1] /\ mem[At(write, k)] = wbuf[k + 1]
      BY <1>1, Landed
    <2>2. At(write, k) = At(read, s + k)
      <3>1. k \in Nat /\ s + k <= MemSize - 1
        BY <1>4, MemSizeAssumption
      <3> QED
        BY <1>4, <3>1, AtBehind
    <2>3. mem[At(read, s + k)] = wbuf[k + 1]
      BY <2>1, <2>2
    <2> QED
      BY <2>1, <2>3
  <1>7. InOnePiece'
    <2> SUFFICES ASSUME NEW q \in 0 .. CrbSize(write', read') - 1
                 PROVE  mem'[read' + q] = mem'[At(read', q)]
      BY NextInOnePiece
    <2>1. CrbSize(write', read') = s + n /\ mem' = mem /\ read' = read
      BY <1>1, <1>3
    <2>2. mem[read + q] = mem[At(read, q)]
      <3>1. CASE q < s
        BY <1>4, <3>1 DEF ErbIntact, InOnePiece
      <3>2. CASE ~(q < s)
        <4> DEFINE k == q - s
        <4>1. k \in 0 .. n - 1 /\ s + k = q
          BY <1>4, <2>1, <3>2
        <4>2. mem[read + (s + k)] = wbuf[k + 1] /\ mem[At(read, s + k)] = wbuf[k + 1]
          BY <1>6, <4>1
        <4> QED
          BY <4>1, <4>2
      <3> QED
        BY <3>1, <3>2
    <2> QED
      BY <2>1, <2>2
  <1>8. FirstCopy' /\ SecondCopy'
    <2>1. wdone' = 0 /\ Len(wbuf') = 0
      BY <1>1
    <2>2. \A p \in 0 .. E!Repeated' - 1 : ~(0 + p < 0)
      OBVIOUS
    <2>3. \A p \in 0 .. Len(wbuf') - 1 : ~(p < 0)
      OBVIOUS
    <2> QED
      BY <2>1, <2>2, <2>3 DEF FirstCopy, SecondCopy
  <1>9. Seen'
    BY <1>1 DEF ErbIntact, Seen
  <1>10. /\ E!View \in Seq(Held) /\ Len(E!View) = s
         /\ \A p \in 1 .. s : E!View[p] = mem[read + (p - 1)]
    BY ViewIs DEF ErbIntact
  <1>11. /\ E!View' \in Seq(Held) /\ Len(E!View') = s + n
         /\ \A p \in 1 .. s + n : E!View'[p] = mem[read + (p - 1)]
    <2>1. /\ E!View' \in Seq(Held) /\ Len(E!View') = CrbSize(write', read')
          /\ \A p \in 1 .. CrbSize(write', read') : E!View'[p] = mem'[read' + (p - 1)]
      BY <1>5, NextViewIs
    <2> QED
      BY <1>1, <1>3, <2>1
  <1>12. \A p \in 1 .. Len(E!View) : E!View'[p] = E!View[p]
    BY <1>4, <1>10, <1>11
  <1>13. \A p \in 1 .. n : E!View'[Len(E!View) + p] = wbuf[p]
    <2> TAKE p \in 1 .. n
    <2> DEFINE k == p - 1
               x == s + p
    <2>1. k \in 0 .. n - 1 /\ k + 1 = p /\ x \in 1 .. s + n /\ x - 1 = s + k
      BY <1>4
    <2> HIDE DEF k, x
    <2>2. E!View'[x] = mem[read + (s + k)]
      BY <1>11, <2>1
    <2>3. mem[read + (s + k)] = wbuf[p]
      BY <1>6, <2>1
    <2> QED
      BY <1>10, <2>2, <2>3 DEF x
  <1>14. E!View' = E!View \o wbuf
    <2>1. wbuf \in Seq(Held)
      BY <1>2, SeqMonotonic DEF Held
    <2> HIDE DEF s
    <2> QED
      BY <1>10, <1>11, <1>12, <1>13, <2>1, SeqAppend
  <1> QED
    BY <1>1, <1>2, <1>5, <1>7, <1>8, <1>9, <1>14 DEF ErbIntact

\* What the reader does to its own buffer changes nothing else.
LEMMA ErbReader ==
    ASSUME ErbIntact, Places', Seen', UNCHANGED <<mem, write, read, wbuf, wdone>>
    PROVE  ErbIntact' /\ E!View' = E!View
  <1>1. E!Repeated' = E!Repeated /\ (E!Crosses' <=> E!Crosses) /\ Bytes' = Bytes
    BY DEF E!Repeated, E!Crosses, Bytes, E!Bytes
  <1>2. ErbShape'
    BY <1>1 DEF ErbIntact, ErbShape, Held
  <1>3. InOnePiece' /\ E!View' = E!View
    BY DEF ErbIntact, InOnePiece, At, Fix, CrbSize, E!View, E!Size, E!C!CrbSize
  <1>4. FirstCopy' /\ SecondCopy'
    BY <1>1 DEF ErbIntact, FirstCopy, SecondCopy
  <1> QED
    BY <1>2, <1>3, <1>4 DEF ErbIntact

LEMMA ErbReadBegin ==
    ASSUME ErbIntact, NEW n \in 0 .. MaxBatch, E!ReadBegin(n) \/ E!Peep(n)
    PROVE  ErbIntact' /\ E!View' = E!View /\ UNCHANGED <<wbuf, got>>
  <1> DEFINE k == LessOf(n, CrbSize(write, read))
  <1>1. /\ rop' \in {"read", "peep"} /\ rbuf' = [p \in 1 .. k |-> NoValue] /\ rdone' = 0
        /\ UNCHANGED <<mem, write, read, wpc, wbuf, wdone, rto, got>>
    BY SameNames DEF E!ReadBegin, E!Peep
  <1>2. Places
    BY DEF ErbIntact, ErbShape
  <1>3. k \in 0 .. CrbSize(write, read)
    BY <1>2, PlacesFacts, CrbBatchAssumption DEF LessOf
  <1> HIDE DEF k
  <1>4. Places'
    BY <1>1, <1>2, <1>3, PlacesReadBegin
  <1>5. Seen'
    BY <1>1 DEF Seen
  <1> QED
    BY <1>1, <1>4, <1>5, ErbReader

LEMMA ErbReadByte ==
    ASSUME ErbIntact, E!ReadByte
    PROVE  ErbIntact' /\ E!View' = E!View /\ UNCHANGED <<wbuf, got>>
  <1> DEFINE v == mem[read + rdone]
  <1>1. /\ rop \in {"read", "peep"} /\ rdone < Len(rbuf) /\ rdone' = rdone + 1
        /\ rbuf' = [rbuf EXCEPT ![rdone + 1] = v]
        /\ UNCHANGED <<mem, write, read, wpc, wbuf, wdone, rop, rto, got>>
    BY DEF E!ReadByte
  <1>2. /\ Places /\ mem \in [Bytes -> Held] /\ rdone \in Nat /\ Len(rbuf) \in 0 .. MemSize - 1
        /\ read \in 0 .. MemSize - 1 /\ MemSize \in Nat /\ Bytes = 0 .. 2 * MemSize - 1
    BY SameNames, PlacesFacts, ErbFacts DEF ErbIntact, ErbShape, Places
  <1>3. v \in Held
    <2>1. read + rdone \in Bytes
      BY <1>1, <1>2
    <2> QED
      BY <1>2, <2>1
  <1>4. /\ Places'
        /\ \A p \in 1 .. Len(rbuf) : rbuf'[p] = IF p = rdone + 1 THEN v ELSE rbuf[p]
    <2> HIDE DEF v
    <2> QED
      BY <1>1, <1>2, <1>3, PlacesReadByte DEF Held
  <1>5. Seen'
    <2> SUFFICES ASSUME NEW p \in 1 .. rdone + 1 PROVE rbuf'[p] = mem[read + (p - 1)]
      BY <1>1 DEF Seen
    <2>1. p \in 1 .. Len(rbuf) /\ (p # rdone + 1 => p \in 1 .. rdone)
      BY <1>1, <1>2
    <2>2. CASE p = rdone + 1
      <3>1. p - 1 = rdone
        BY <1>2, <2>2
      <3> QED
        BY <1>4, <2>1, <2>2, <3>1
    <2>3. CASE p # rdone + 1
      BY <1>4, <2>1, <2>3 DEF ErbIntact, Seen
    <2> QED
      BY <2>2, <2>3
  <1> QED
    BY <1>1, <1>4, <1>5, ErbReader

\* A finished erb_Read, or a holder of a pointer that has looked at all it may,
\* has the front of the queue.
LEMMA ErbFront ==
    ASSUME ErbIntact, rdone = Len(rbuf)
    PROVE  Len(rbuf) \in 0 .. Len(E!View) /\ rbuf = SubSeq(E!View, 1, Len(rbuf))
  <1>1. /\ Len(rbuf) \in Nat /\ CrbSize(write, read) \in Nat /\ Len(rbuf) <= CrbSize(write, read)
        /\ rbuf \in Seq(Held)
    BY PlacesFacts DEF ErbIntact, ErbShape, Places, Held
  <1>2. /\ E!View \in Seq(Held) /\ Len(E!View) = CrbSize(write, read)
        /\ \A p \in 1 .. CrbSize(write, read) : E!View[p] = mem[read + (p - 1)]
    BY ViewIs DEF ErbIntact
  <1>3. \A p \in 1 .. Len(rbuf) : rbuf[p] = E!View[p]
    <2> TAKE p \in 1 .. Len(rbuf)
    <2>1. p \in 1 .. CrbSize(write, read) /\ p \in 1 .. rdone
      BY <1>1
    <2> QED
      BY <1>2, <2>1 DEF ErbIntact, Seen
  <1>4. Len(rbuf) <= Len(E!View) /\ Len(rbuf) \in 0 .. Len(E!View)
    BY <1>1, <1>2
  <1> QED
    BY <1>1, <1>2, <1>3, <1>4, SeqFront

\* Bytes that are given up leave the rest in one piece: a read that ends behind
\* the first half goes on in it.
LEMMA ErbMoved ==
    ASSUME ErbIntact, Places', NEW n \in 0 .. CrbSize(write, read), read' = At(read, n),
           CrbSize(write, read') = CrbSize(write, read) - n, rdone' = 0,
           UNCHANGED <<mem, write, wbuf, wdone>>
    PROVE  /\ ErbIntact' /\ n \in 0 .. Len(E!View)
           /\ E!View' = SubSeq(E!View, n + 1, Len(E!View))
  <1> DEFINE s == CrbSize(write, read)
  <1>1. /\ Places /\ s \in 0 .. MemSize - 1 /\ read \in 0 .. MemSize - 1
        /\ MemSize \in Nat \ {0} /\ n \in Nat /\ n <= s
    BY PlacesFacts, ErbFacts DEF ErbIntact, ErbShape
  <1>2. s - n = CrbSize(write', read')
    BY DEF CrbSize
  <1>3. At(read, n) = IF read + n < MemSize THEN read + n ELSE read + n - MemSize
    BY <1>1, InUse
  <1> HIDE DEF s
  <1>4. \A q \in 0 .. s - n - 1 :
            /\ mem[At(read, n) + q] = mem[read + (n + q)]
            /\ mem[At(read, n) + q] = mem[At(At(read, n), q)]
    <2> TAKE q \in 0 .. s - n - 1
    <2> DEFINE l == n + q
    <2>1. l \in 0 .. s - 1 /\ l \in 0 .. s /\ q \in Nat /\ n + q <= MemSize - 1
      BY <1>1
    <2>2. At(At(read, n), q) = At(read, l)
      <3>1. read \in Slots
        BY <1>1 DEF Slots
      <3> QED
        BY <1>1, <2>1, <3>1, AtForth
    <2> HIDE DEF l
    <2>3. mem[read + l] = mem[At(read, l)]
      BY <2>1 DEF ErbIntact, InOnePiece, s
    <2>4. At(read, l) = IF read + l < MemSize THEN read + l ELSE read + l - MemSize
      BY <1>1, <2>1, InUse DEF s
    <2>5. At(read, n) + q = read + l \/ At(read, n) + q = At(read, l)
      BY <1>1, <1>3, <2>1, <2>4 DEF l
    <2>6. mem[At(read, n) + q] = mem[read + l]
      BY <2>3, <2>5
    <2> QED
      BY <2>2, <2>3, <2>6 DEF l
  <1>5. InOnePiece'
    <2> SUFFICES ASSUME NEW q \in 0 .. CrbSize(write', read') - 1
                 PROVE  mem'[read' + q] = mem'[At(read', q)]
      BY NextInOnePiece
    <2>1. q \in 0 .. s - n - 1
      BY <1>2
    <2> QED
      BY <1>4, <2>1
  <1>6. Seen'
    BY DEF Seen
  <1>7. E!Repeated' = E!Repeated /\ (E!Crosses' <=> E!Crosses) /\ Bytes' = Bytes
    BY DEF E!Repeated, E!Crosses, Bytes, E!Bytes
  <1>8. ErbShape'
    BY <1>7 DEF ErbIntact, ErbShape, Held
  <1>9. FirstCopy' /\ SecondCopy'
    BY <1>7 DEF ErbIntact, FirstCopy, SecondCopy
  <1>10. /\ E!View \in Seq(Held) /\ Len(E!View) = s
         /\ \A p \in 1 .. s : E!View[p] = mem[read + (p - 1)]
    BY ViewIs DEF ErbIntact, s
  <1>11. /\ E!View' \in Seq(Held) /\ Len(E!View') = s - n
         /\ \A p \in 1 .. s - n : E!View'[p] = mem[At(read, n) + (p - 1)]
    <2>1. /\ E!View' \in Seq(Held) /\ Len(E!View') = CrbSize(write', read')
          /\ \A p \in 1 .. CrbSize(write', read') : E!View'[p] = mem'[read' + (p - 1)]
      BY <1>8, NextViewIs
    <2> QED
      BY <1>2, <2>1
  <1>12. \A p \in 1 .. Len(E!View') : E!View'[p] = E!View[n + p]
    <2> TAKE p \in 1 .. Len(E!View')
    <2> DEFINE q == p - 1
               x == n + p
    <2>1. p \in 1 .. s - n /\ q \in 0 .. s - n - 1 /\ x \in 1 .. s /\ x - 1 = n + q
      BY <1>1, <1>11
    <2>2. E!View'[p] = mem[At(read, n) + q]
      BY <1>11, <2>1
    <2> HIDE DEF q, x
    <2>3. E!View[x] = mem[read + (n + q)]
      BY <1>10, <2>1
    <2> QED
      BY <1>4, <2>1, <2>2, <2>3 DEF x
  <1>13. n \in 0 .. Len(E!View) /\ Len(E!View') = Len(E!View) - n
    BY <1>1, <1>10, <1>11
  <1>14. E!View' = SubSeq(E!View, n + 1, Len(E!View))
    BY <1>10, <1>11, <1>12, <1>13, SeqRest
  <1> QED
    BY <1>5, <1>6, <1>8, <1>9, <1>13, <1>14 DEF ErbIntact

LEMMA ErbReadCommit ==
    ASSUME ErbIntact, E!ReadCommit
    PROVE  /\ ErbIntact' /\ wbuf' = wbuf /\ Len(rbuf) \in 0 .. Len(E!View)
           /\ got' = SubSeq(E!View, 1, Len(rbuf))
           /\ E!View' = SubSeq(E!View, Len(rbuf) + 1, Len(E!View))
  <1>1. /\ rdone = Len(rbuf) /\ got' = rbuf /\ read' = At(read, Len(rbuf))
        /\ rop' = "idle" /\ rbuf' = <<>> /\ rdone' = 0
        /\ UNCHANGED <<mem, write, wpc, wbuf, wdone, rto>>
    BY SameNames DEF E!ReadCommit, At
  <1>2. Places /\ Len(rbuf) \in 0 .. CrbSize(write, read) /\ rto' \in Slots
    BY <1>1, PlacesFacts DEF ErbIntact, ErbShape, Places
  <1>3. Places' /\ CrbSize(write, read') = CrbSize(write, read) - Len(rbuf)
    BY <1>1, <1>2, PlacesMove
  <1> DEFINE n == Len(rbuf)
  <1>4. /\ n \in 0 .. CrbSize(write, read) /\ read' = At(read, n)
        /\ CrbSize(write, read') = CrbSize(write, read) - n
    BY <1>1, <1>2, <1>3
  <1> HIDE DEF n
  <1>5. ErbIntact' /\ E!View' = SubSeq(E!View, n + 1, Len(E!View))
    BY <1>1, <1>3, <1>4, ErbMoved
  <1> QED
    BY <1>1, <1>5, ErbFront DEF n

LEMMA ErbPeepEnd ==
    ASSUME ErbIntact, E!PeepEnd
    PROVE  /\ ErbIntact' /\ wbuf' = wbuf /\ E!View' = E!View
           /\ Len(rbuf) \in 0 .. Len(E!View) /\ got' = SubSeq(E!View, 1, Len(rbuf))
  <1>1. /\ rdone = Len(rbuf) /\ got' = rbuf
        /\ rop' = "idle" /\ rbuf' = <<>> /\ rdone' = 0
        /\ UNCHANGED <<mem, write, read, wpc, wbuf, wdone, rto>>
    BY DEF E!PeepEnd
  <1>2. Places'
    BY <1>1, PlacesPeepEnd DEF ErbIntact, ErbShape
  <1>3. Seen'
    BY <1>1 DEF Seen
  <1> QED
    BY <1>1, <1>2, <1>3, ErbReader, ErbFront

LEMMA ErbGoBegin ==
    ASSUME ErbIntact, E!Clear \/ \E n \in 0 .. MaxBatch : E!ReadAir(n)
    PROVE  ErbIntact' /\ E!View' = E!View /\ UNCHANGED <<wbuf, got>>
  <1>1. Places' /\ UNCHANGED <<mem, write, read, wbuf, wdone, rbuf, rdone, got>>
    BY SameActions, PlacesGoBegin DEF ErbIntact, ErbShape
  <1>2. Seen'
    BY <1>1 DEF ErbIntact, Seen
  <1> QED
    BY <1>1, <1>2, ErbReader

LEMMA ErbMoveRead ==
    ASSUME ErbIntact, E!MoveRead
    PROVE  /\ ErbIntact' /\ UNCHANGED <<wbuf, got>>
           /\ \E n \in 0 .. Len(E!View) : E!View' = SubSeq(E!View, n + 1, Len(E!View))
  <1> DEFINE n == CrbSize(rto, read)
  <1>1. /\ Places' /\ n \in 0 .. CrbSize(write, read) /\ read' = At(read, n)
        /\ CrbSize(write, read') = CrbSize(write, read) - n
        /\ rdone' = 0 /\ UNCHANGED <<mem, write, wbuf, wdone, got>>
    BY SameActions, PlacesMoveRead DEF ErbIntact, ErbShape
  <1> HIDE DEF n
  <1>2. /\ ErbIntact' /\ n \in 0 .. Len(E!View)
        /\ E!View' = SubSeq(E!View, n + 1, Len(E!View))
    BY <1>1, ErbMoved
  <1> QED
    BY <1>1, <1>2

-----------------------------------------------------------------------------
(* Every step of an elastic ring is a step of a queue, or none. *)

ErbFifo == INSTANCE FifoQueue WITH
    Capacity <- MemSize - 1, queue <- E!View, given <- wbuf, got <- got

LEMMA ErbStep ==
    ASSUME ErbIntact, E!Next
    PROVE  ErbIntact' /\ [ErbFifo!Next]_(ErbFifo!qvars)
  <1>1. ASSUME ErbIntact', E!View' = E!View, UNCHANGED <<wbuf, got>>
        PROVE  ErbIntact' /\ [ErbFifo!Next]_(ErbFifo!qvars)
    BY <1>1 DEF ErbFifo!qvars
  <1>2. ASSUME NEW buf \in Batches, E!WriteBegin(buf)
        PROVE  ErbIntact' /\ ErbFifo!Offer
    <2>1. /\ ErbIntact' /\ E!View' = E!View /\ wbuf = <<>> /\ got' = got
          /\ wbuf' \in Seq(Value) /\ Len(wbuf') \in 1 .. MemSize - 1
          /\ CrbSize(write, read) + Len(wbuf') <= MemSize - 1
      BY <1>2, ErbWriteBegin
    <2>2. Len(E!View) = CrbSize(write, read)
      BY ViewIs DEF ErbIntact
    <2>3. wbuf' \in ErbFifo!Batches
      BY <2>1, LenProperties DEF ErbFifo!Batches
    <2> QED
      BY <2>1, <2>2, <2>3 DEF ErbFifo!Offer
  <1>3. ASSUME E!StoreByte \/ E!RepeatByte
        PROVE  ErbIntact' /\ E!View' = E!View /\ UNCHANGED <<wbuf, got>>
    BY <1>3, ErbStoreByte, ErbRepeatByte DEF E!StoreByte, E!RepeatByte
  <1>4. ASSUME E!WriteCommit PROVE ErbIntact' /\ ErbFifo!Put
    BY <1>4, ErbWriteCommit DEF ErbFifo!Put
  <1>5. ASSUME E!ReadCommit PROVE ErbIntact' /\ ErbFifo!Take
    BY <1>5, ErbReadCommit DEF ErbFifo!Take, ErbFifo!Front, ErbFifo!Rest
  <1>6. ASSUME E!PeepEnd PROVE ErbIntact' /\ ErbFifo!Peek
    BY <1>6, ErbPeepEnd DEF ErbFifo!Peek, ErbFifo!Front
  <1>7. ASSUME E!MoveRead PROVE ErbIntact' /\ ErbFifo!Drop
    BY <1>7, ErbMoveRead DEF ErbFifo!Drop, ErbFifo!Rest
  <1>8. ASSUME NEW n \in 0 .. MaxBatch, E!ReadBegin(n) \/ E!Peep(n) \/ E!ReadAir(n)
        PROVE  ErbIntact' /\ E!View' = E!View /\ UNCHANGED <<wbuf, got>>
    BY <1>8, ErbReadBegin, ErbGoBegin
  <1>9. ASSUME E!Clear \/ E!ReadByte
        PROVE  ErbIntact' /\ E!View' = E!View /\ UNCHANGED <<wbuf, got>>
    BY <1>9, ErbReadByte, ErbGoBegin
  <1>10. CASE \E buf \in Batches : E!WriteBegin(buf)
    BY <1>2, <1>10 DEF ErbFifo!Next
  <1>11. CASE E!WriteCommit \/ E!ReadCommit \/ E!PeepEnd \/ E!MoveRead
    BY <1>4, <1>5, <1>6, <1>7, <1>11 DEF ErbFifo!Next
  <1>12. CASE E!StoreByte \/ E!RepeatByte \/ E!Clear \/ E!ReadByte
               \/ \E n \in 0 .. MaxBatch : E!ReadBegin(n) \/ E!Peep(n) \/ E!ReadAir(n)
    BY <1>1, <1>3, <1>8, <1>9, <1>12
  <1> QED
    BY <1>10, <1>11, <1>12, SameNames DEF E!Next

-----------------------------------------------------------------------------
(* Both rings *)

\* A fifo of records leaves the other ring as it is, which is an elastic one.
RingsIntact == IF kind = "common" THEN Intact ELSE ErbIntact

LEMMA RingsStart == RingsInit => RingsIntact /\ Queue!Init
  <1> SUFFICES ASSUME RingsInit PROVE RingsIntact /\ Queue!Init
    OBVIOUS
  <1>1. CASE kind = "common"
    <2>1. Init
      BY <1>1 DEF RingsInit
    <2>2. Contents = <<>> /\ wbuf = <<>> /\ got = <<>>
      BY <2>1, FifoInit DEF Fifo!Init
    <2> QED
      BY <1>1, <2>1, <2>2, IntactInit DEF RingsIntact, Queue!Init, Stored
  <1>2. CASE kind # "common"
    <2>1. E!Init
      BY <1>2 DEF RingsInit
    <2>2. wbuf = <<>> /\ got = <<>>
      BY <2>1 DEF E!Init
    <2> QED
      BY <1>2, <2>1, <2>2, ErbInit DEF RingsIntact, Queue!Init, Stored
  <1> QED
    BY <1>1, <1>2

LEMMA RingsStep ==
    ASSUME RingsIntact, [RingsNext]_<<kind, vars, recvars>>
    PROVE  RingsIntact' /\ [Queue!Next]_(Queue!qvars)
  <1> USE DEF Queue!Next, Queue!Offer, Queue!Put, Queue!Take, Queue!Peek, Queue!Drop,
              Queue!qvars, Queue!Batches, Queue!Front, Queue!Rest
  <1>1. ASSUME kind = "common", kind' = kind, Intact', [Fifo!Next]_(Fifo!qvars)
        PROVE  RingsIntact' /\ [Queue!Next]_(Queue!qvars)
    <2>1. Stored = Contents /\ Stored' = Contents'
      BY <1>1 DEF Stored
    <2>2. [Queue!Next]_(Queue!qvars)
      BY <1>1, <2>1 DEF Fifo!Next, Fifo!Offer, Fifo!Put, Fifo!Take, Fifo!Peek, Fifo!Drop,
         Fifo!qvars, Fifo!Batches, Fifo!Front, Fifo!Rest
    <2> QED
      BY <1>1, <2>2 DEF RingsIntact
  <1>2. ASSUME kind # "common", kind' = kind, ErbIntact', [ErbFifo!Next]_(ErbFifo!qvars)
        PROVE  RingsIntact' /\ [Queue!Next]_(Queue!qvars)
    <2>1. Stored = E!View /\ Stored' = E!View'
      BY <1>2 DEF Stored
    <2>2. [Queue!Next]_(Queue!qvars)
      BY <1>2, <2>1 DEF ErbFifo!Next, ErbFifo!Offer, ErbFifo!Put, ErbFifo!Take, ErbFifo!Peek,
         ErbFifo!Drop, ErbFifo!qvars, ErbFifo!Batches, ErbFifo!Front, ErbFifo!Rest
    <2> QED
      BY <1>2, <2>2 DEF RingsIntact
  <1>3. CASE kind = "common" /\ Next /\ kind' = kind
    <2>1. Intact
      BY <1>3 DEF RingsIntact
    <2>2. Intact' /\ [Fifo!Next]_(Fifo!qvars)
      BY <1>3, <2>1, IntactStep, CrbStep
    <2> QED
      BY <1>1, <1>3, <2>2
  <1>4. CASE kind = "elastic" /\ E!Next /\ kind' = kind
    <2>1. ErbIntact
      BY <1>4 DEF RingsIntact
    <2>2. ErbIntact' /\ [ErbFifo!Next]_(ErbFifo!qvars)
      BY <1>4, <2>1, ErbStep
    <2> QED
      BY <1>2, <1>4, <2>2
  <1>5. CASE UNCHANGED <<kind, vars>>
    <2>1. UNCHANGED <<kind, mem, write, read, wpc, wbuf, wdone, rop, rbuf, rdone, rto, got>>
      BY <1>5 DEF vars, writer, reader
    <2>2. CASE kind = "common"
      <3>1. Intact' /\ [Fifo!Next]_(Fifo!qvars)
        BY <1>5, <2>2, IntactStep, CrbStep DEF RingsIntact
      <3> QED
        BY <1>1, <2>1, <2>2, <3>1
    <2>3. CASE kind # "common"
      <3>1. ErbIntact
        BY <2>3 DEF RingsIntact
      <3>2. Places' /\ Seen'
        BY <2>1, <3>1, PlacesStay DEF ErbIntact, ErbShape, Seen
      <3>3. ErbIntact' /\ E!View' = E!View
        BY <2>1, <3>1, <3>2, ErbReader
      <3> QED
        BY <1>2, <2>1, <2>3, <3>3 DEF ErbFifo!qvars
    <2> QED
      BY <2>2, <2>3
  <1> QED
    BY <1>3, <1>4, <1>5 DEF RingsNext, recvars

\* Neither ring's writer stores where a reader looks, without a lock: for an
\* elastic ring not even while somebody holds a pointer from erb_Peep.
THEOREM RingsNeverRace == RingsSpec => []RingsNoRace
  <1>1. RingsIntact => RingsNoRace
    BY NoRaceHolds, ErbNeverRaces DEF RingsIntact, Intact, ErbIntact, ErbShape, RingsNoRace
  <1>2. RingsIntact /\ [RingsNext]_<<kind, vars, recvars>> => RingsIntact'
    BY RingsStep
  <1> QED
    BY <1>1, <1>2, RingsStart, PTL DEF RingsSpec

\* Both rings are a queue of mem_size - 1 bytes; what an elastic one holds lies
\* in one piece from `read` on.
THEOREM RingsRefinement == RingsSpec => RingsImplementFifo
  <1>1. RingsIntact /\ [RingsNext]_<<kind, vars, recvars>>
            => RingsIntact' /\ [Queue!Next]_(Queue!qvars)
    BY RingsStep
  <1> QED
    BY <1>1, RingsStart, PTL DEF RingsSpec, RingsImplementFifo, Queue!Spec

-----------------------------------------------------------------------------
(* What the two sides hold *)

\* No buffer is longer than a call was made for.
Sizes ==
    /\ Len(wbuf) <= MaxBatch /\ Len(rbuf) <= MaxBatch /\ Len(got) <= MaxBatch
    /\ rop \in {"idle", "read", "peep", "air", "clear"}

\* Only bytes that somebody wrote are stored and handed out: not what an elastic
\* ring holds before its first write.
WrittenBytes == Stored \in Seq(Value) /\ got \in Seq(Value)

LEMMA OfferIsShort ==
    ASSUME Places, NEW buf \in Batches, FreeSize(write, read) # 0,
           wbuf' = SubSeq(buf, 1, LessOf(Len(buf), FreeSize(write, read)))
    PROVE  Len(wbuf') <= MaxBatch
  <1>1. PICK n \in 1 .. MaxBatch : buf \in [1 .. n -> Value]
    BY DEF Batches
  <1>2. buf \in Seq(Value) /\ Len(buf) = n /\ n \in Nat /\ MaxBatch \in Nat
    BY <1>1, CrbBatchAssumption, IsASeq
  <1>3. PICK f \in Nat \ {0} : f = FreeSize(write, read)
    BY PlacesFacts DEF FreeSize
  <1>4. PICK k \in Nat \ {0} : k = LessOf(n, f) /\ k <= n
    BY <1>2, <1>3 DEF LessOf
  <1>5. \A i \in 1 .. k : buf[i] \in Value
    BY <1>1, <1>4
  <1>6. Len(SubSeq(buf, 1, k)) = k
    <2>1. PICK V : V = Value
      OBVIOUS
    <2>2. \A i \in 1 .. k : buf[i] \in V
      BY <1>5, <2>1
    <2>3. 1 \in Int /\ k \in Int /\ 1 <= k /\ k - 1 + 1 = k
      BY <1>4
    <2> QED
      BY <2>2, <2>3, SubSeqProperties
  <1>7. wbuf' = SubSeq(buf, 1, k)
    BY <1>2, <1>3, <1>4
  <1>8. k <= MaxBatch
    BY <1>2, <1>4
  <1> QED
    BY <1>6, <1>7, <1>8, Zenon

LEMMA BlankIs ==
    ASSUME NEW k \in Nat, NEW b, b = [p \in 1 .. k |-> NoValue]
    PROVE  Len(b) = k
  <1>1. b \in Seq({NoValue})
    BY IsASeq
  <1> QED
    BY <1>1

LEMMA AskedIsShort ==
    ASSUME Places, NEW n \in 0 .. MaxBatch,
           rbuf' = [p \in 1 .. LessOf(n, CrbSize(write, read)) |-> NoValue]
    PROVE  Len(rbuf') <= MaxBatch
  <1>1. n \in Nat /\ n <= MaxBatch /\ MaxBatch \in Nat
    BY CrbBatchAssumption
  <1>2. PICK s \in Nat : s = CrbSize(write, read)
    BY PlacesFacts
  <1>3. PICK k \in Nat : k = LessOf(n, s) /\ k <= n
    BY <1>1, <1>2 DEF LessOf
  <1>4. rbuf' = [p \in 1 .. k |-> NoValue]
    BY <1>2, <1>3
  <1>5. Len(rbuf') = k
    BY <1>4, BlankIs
  <1>6. k <= MaxBatch
    BY <1>1, <1>3
  <1> QED
    BY <1>5, <1>6, Zenon

LEMMA PutIsShort ==
    ASSUME Places, Sizes, NEW v, NEW k \in Nat, rbuf' = [rbuf EXCEPT ![k] = v]
    PROVE  Len(rbuf') <= MaxBatch
  <1>1. PICK W : W = Value \cup {NoValue}
    OBVIOUS
  <1>2. rbuf \in Seq(W)
    BY <1>1 DEF Places
  <1>3. DOMAIN rbuf' = DOMAIN rbuf
    OBVIOUS
  <1>4. Len(rbuf') = Len(rbuf)
    BY <1>2, <1>3
  <1> QED
    BY <1>4 DEF Sizes

LEMMA CommonSizes ==
    ASSUME Places, Sizes, Next
    PROVE  Sizes'
  <1> USE DEF Sizes
  <1>0. Len(<<>>) = 0 /\ 0 <= MaxBatch /\ rdone \in Nat
    <2>1. Len(rbuf) \in Nat
      BY PlacesFacts
    <2> QED
      BY <2>1, CrbBatchAssumption DEF Places
  <1>1. ASSUME NEW buf \in Batches, WriteBegin(buf) PROVE Sizes'
    <2>1. Len(wbuf') <= MaxBatch
      BY <1>1, OfferIsShort DEF WriteBegin
    <2> QED
      BY <1>1, <2>1 DEF WriteBegin, reader
  <1>2. CASE WriteByte \/ WriteCommit
    BY <1>0, <1>2 DEF WriteByte, WriteCommit, reader
  <1>3. ASSUME NEW op \in {"read", "peep"}, NEW n \in 0 .. MaxBatch, ReadBegin(op, n)
        PROVE  Sizes'
    <2>1. Len(rbuf') <= MaxBatch
      BY <1>3, AskedIsShort DEF ReadBegin
    <2> QED
      BY <1>3, <2>1 DEF ReadBegin, writer
  <1>4. CASE ReadByte
    <2>1. rdone + 1 \in Nat
      BY <1>0
    <2>2. Len(rbuf') <= MaxBatch
      BY <1>4, <2>1, PutIsShort DEF ReadByte
    <2> QED
      BY <1>4, <2>2 DEF ReadByte, writer
  <1>5. CASE ReadCommit \/ PeepEnd
    BY <1>0, <1>5 DEF ReadCommit, PeepEnd, FinishCopy, writer
  <1>6. CASE ClearBegin \/ MoveRead \/ \E n \in 0 .. MaxBatch : AirBegin(n)
    BY <1>6 DEF AirBegin, ClearBegin, MoveRead, writer
  <1> QED
    BY <1>1, <1>2, <1>3, <1>4, <1>5, <1>6 DEF Next

LEMMA ElasticSizes ==
    ASSUME Places, Sizes, E!Next
    PROVE  Sizes'
  <1> USE DEF Sizes
  <1>0. Len(<<>>) = 0 /\ 0 <= MaxBatch /\ rdone \in Nat
    <2>1. Len(rbuf) \in Nat
      BY PlacesFacts
    <2> QED
      BY <2>1, CrbBatchAssumption DEF Places
  <1>1. ASSUME NEW buf \in Batches, E!WriteBegin(buf) PROVE Sizes'
    <2>1. /\ FreeSize(write, read) # 0
          /\ wbuf' = SubSeq(buf, 1, LessOf(Len(buf), FreeSize(write, read)))
      BY <1>1, SameNames DEF E!WriteBegin
    <2>2. Len(wbuf') <= MaxBatch
      BY <2>1, OfferIsShort
    <2> QED
      BY <1>1, <2>2 DEF E!WriteBegin
  <1>2. CASE E!StoreByte \/ E!RepeatByte \/ E!WriteCommit
    BY <1>0, <1>2 DEF E!StoreByte, E!RepeatByte, E!WriteCommit
  <1>3. ASSUME NEW n \in 0 .. MaxBatch, E!ReadBegin(n) \/ E!Peep(n) PROVE Sizes'
    <2>1. rbuf' = [p \in 1 .. LessOf(n, CrbSize(write, read)) |-> NoValue]
      BY <1>3, SameNames DEF E!ReadBegin, E!Peep
    <2>2. Len(rbuf') <= MaxBatch
      BY <2>1, AskedIsShort
    <2> QED
      BY <1>3, <2>2 DEF E!ReadBegin, E!Peep
  <1>4. CASE E!ReadByte
    <2>1. rdone + 1 \in Nat
      BY <1>0
    <2>2. Len(rbuf') <= MaxBatch
      BY <1>4, <2>1, PutIsShort DEF E!ReadByte
    <2> QED
      BY <1>4, <2>2 DEF E!ReadByte
  <1>5. CASE E!ReadCommit \/ E!PeepEnd
    BY <1>0, <1>5 DEF E!ReadCommit, E!PeepEnd
  <1>6. CASE E!Clear \/ E!MoveRead \/ \E n \in 0 .. MaxBatch : E!ReadAir(n)
    BY <1>6, SameActions DEF AirBegin, ClearBegin, MoveRead, writer
  <1> QED
    BY <1>1, <1>2, <1>3, <1>4, <1>5, <1>6, SameNames DEF E!Next

LEMMA PartIsWritten ==
    ASSUME NEW q \in Seq(Value), NEW n \in 0 .. Len(q)
    PROVE  SubSeq(q, 1, n) \in Seq(Value) /\ SubSeq(q, n + 1, Len(q)) \in Seq(Value)
  <1>1. PICK l \in Nat : l = Len(q)
    BY LenProperties
  <1>2. \A i \in 1 .. n : q[i] \in Value
    BY <1>1, ElementOfSeq
  <1>3. \A i \in n + 1 .. l : q[i] \in Value
    BY <1>1, ElementOfSeq
  <1>4. SubSeq(q, 1, n) \in Seq(Value)
    BY <1>1, <1>2, SubSeqProperties
  <1>5. SubSeq(q, n + 1, l) \in Seq(Value)
    BY <1>1, <1>3, SubSeqProperties
  <1> QED
    BY <1>1, <1>4, <1>5

LEMMA WrittenStep ==
    ASSUME WrittenBytes, wbuf \in Seq(Value), [Queue!Next]_(Queue!qvars)
    PROVE  WrittenBytes'
  <1> USE DEF WrittenBytes
  <1>1. CASE Queue!Offer
    BY <1>1 DEF Queue!Offer
  <1>2. CASE Queue!Put
    <2>1. Stored \o wbuf \in Seq(Value)
      BY ConcatProperties
    <2> QED
      BY <1>2, <2>1 DEF Queue!Put
  <1>3. CASE Queue!Take
    <2>1. PICK n \in 0 .. Len(Stored) :
              got' = SubSeq(Stored, 1, n) /\ Stored' = SubSeq(Stored, n + 1, Len(Stored))
      BY <1>3 DEF Queue!Take, Queue!Front, Queue!Rest
    <2> QED
      BY <2>1, PartIsWritten
  <1>4. CASE Queue!Peek
    <2>1. PICK n \in 0 .. Len(Stored) : got' = SubSeq(Stored, 1, n) /\ Stored' = Stored
      BY <1>4 DEF Queue!Peek, Queue!Front
    <2> QED
      BY <2>1, PartIsWritten
  <1>5. CASE Queue!Drop
    <2>1. PICK n \in 0 .. Len(Stored) : Stored' = SubSeq(Stored, n + 1, Len(Stored)) /\ got' = got
      BY <1>5 DEF Queue!Drop, Queue!Rest
    <2> QED
      BY <2>1, PartIsWritten
  <1>6. CASE UNCHANGED Queue!qvars
    BY <1>6 DEF Queue!qvars
  <1> QED
    BY <1>1, <1>2, <1>3, <1>4, <1>5, <1>6 DEF Queue!Next

RingsGood == RingsIntact /\ Sizes /\ WrittenBytes

LEMMA GoodPlaces ==
    ASSUME RingsIntact
    PROVE  Places /\ wbuf \in Seq(Value)
  BY DEF RingsIntact, Intact, Shape, ErbIntact, ErbShape, Places

LEMMA GoodStart == RingsInit => RingsGood
  <1> SUFFICES ASSUME RingsInit PROVE RingsGood
    OBVIOUS
  <1>1. RingsIntact /\ Queue!Init
    BY RingsStart
  <1>2. <<>> \in Seq(Value) /\ Len(<<>>) = 0 /\ 0 <= MaxBatch
    BY CrbBatchAssumption
  <1>3. WrittenBytes
    BY <1>1, <1>2 DEF Queue!Init, WrittenBytes
  <1>4. wbuf = <<>> /\ rbuf = <<>> /\ got = <<>> /\ rop = "idle"
    BY DEF RingsInit, Init, E!Init
  <1>5. Sizes
    BY <1>2, <1>4 DEF Sizes
  <1> QED
    BY <1>1, <1>3, <1>5 DEF RingsGood

LEMMA GoodStep ==
    ASSUME RingsGood, [RingsNext]_<<kind, vars, recvars>>
    PROVE  RingsGood'
  <1>1. RingsIntact' /\ [Queue!Next]_(Queue!qvars)
    BY RingsStep DEF RingsGood
  <1>2. WrittenBytes'
    BY <1>1, WrittenStep, GoodPlaces DEF RingsGood
  <1>3. Sizes'
    <2>1. Places /\ Sizes
      BY GoodPlaces DEF RingsGood
    <2>2. CASE Next
      BY <2>1, <2>2, CommonSizes
    <2>3. CASE E!Next
      BY <2>1, <2>3, ElasticSizes
    <2>4. CASE UNCHANGED vars
      BY <2>1, <2>4 DEF Sizes, vars, writer, reader
    <2> QED
      BY <2>2, <2>3, <2>4 DEF RingsNext
  <1> QED
    BY <1>1, <1>2, <1>3 DEF RingsGood

LEMMA ShortIs ==
    ASSUME NEW S, NEW s \in Seq(S), Len(s) <= MaxBatch
    PROVE  s \in UpTo(MaxBatch, S)
  <1>1. PICK n \in Nat : n = Len(s)
    BY LenProperties
  <1>2. s \in [1 .. n -> S] /\ n \in 0 .. MaxBatch
    BY <1>1, LenProperties, CrbBatchAssumption
  <1> QED
    BY <1>2 DEF UpTo

LEMMA HeldIs ==
    ASSUME RingsGood
    PROVE  /\ wbuf \in UpTo(MaxBatch, Value) /\ got \in UpTo(MaxBatch, Value)
           /\ rbuf \in UpTo(MaxBatch, Value \cup {NoValue})
           /\ rdone \in 0 .. Len(rbuf) /\ rdone <= CrbSize(write, read)
  <1>1. /\ wbuf \in Seq(Value) /\ rbuf \in Seq(Value \cup {NoValue})
        /\ rdone \in 0 .. Len(rbuf) /\ Places
    BY GoodPlaces DEF RingsGood, Places
  <1>2. /\ Len(wbuf) <= MaxBatch /\ Len(rbuf) <= MaxBatch /\ Len(got) <= MaxBatch
        /\ got \in Seq(Value)
    BY DEF RingsGood, Sizes, WrittenBytes
  <1>3. wbuf \in UpTo(MaxBatch, Value) /\ got \in UpTo(MaxBatch, Value)
    BY <1>1, <1>2, ShortIs
  <1>4. rbuf \in UpTo(MaxBatch, Value \cup {NoValue})
    <2>1. PICK W : W = Value \cup {NoValue}
      OBVIOUS
    <2>2. rbuf \in Seq(W)
      BY <1>1, <2>1
    <2>3. rbuf \in UpTo(MaxBatch, W)
      BY <1>2, <2>2, ShortIs
    <2> QED
      BY <2>1, <2>3
  <1>5. rdone <= CrbSize(write, read)
    BY <1>1, PlacesFacts
  <1> QED
    BY <1>1, <1>3, <1>4, <1>5

LEMMA CommonTyped ==
    ASSUME RingsGood, kind = "common"
    PROVE  TypeOK /\ OneByteFree
  <1>1. Shape /\ Copied
    BY DEF RingsGood, RingsIntact, Intact
  <1>2. \A p \in 1 .. rdone : rbuf[p] \in Value
    <2> SUFFICES ASSUME NEW p \in 1 .. rdone PROVE rbuf[p] \in Value
      OBVIOUS
    <2>1. p \in 1 .. CrbSize(write, read)
      BY <1>1, HeldIs, PlacesFacts DEF Shape
    <2>2. Contents \in Seq(Value) /\ p \in 1 .. Len(Contents)
      BY <1>1, <2>1, ContentsIs
    <2>3. Contents[p] \in Value
      BY <2>2, ElementOfSeq
    <2>4. rbuf[p] = Contents[p]
      BY <1>1, <2>1, ContentsIs DEF Copied
    <2> QED
      BY <2>3, <2>4
  <1> QED
    BY <1>1, <1>2, HeldIs DEF TypeOK, Shape, Places, RingsGood, Sizes

LEMMA ElasticTyped ==
    ASSUME RingsGood, kind # "common"
    PROVE  E!TypeOK
  <1>1. ErbShape /\ Seen /\ Places
    BY DEF RingsGood, RingsIntact, ErbIntact, ErbShape
  <1>2. \A p \in 1 .. rdone : rbuf[p] \in Value
    <2> SUFFICES ASSUME NEW p \in 1 .. rdone PROVE rbuf[p] \in Value
      OBVIOUS
    <2>1. p \in 1 .. CrbSize(write, read)
      BY <1>1, HeldIs, PlacesFacts
    <2>2. E!View \in Seq(Value)
      BY DEF RingsGood, WrittenBytes, Stored
    <2>3. p \in 1 .. Len(E!View)
      BY <1>1, <2>1, ViewIs
    <2>4. E!View[p] \in Value
      BY <2>2, <2>3, ElementOfSeq
    <2>5. rbuf[p] = E!View[p]
      BY <1>1, <2>1, ViewIs DEF Seen
    <2> QED
      BY <2>4, <2>5
  <1>3. wdone \in 0 .. 2 * Len(wbuf)
    <2>1. PICK n \in Nat : n = Len(wbuf)
      BY <1>1, PlacesFacts
    <2>2. PICK k \in Nat : k = E!Repeated /\ k <= n
      BY <1>1, <2>1, ErbFacts
    <2>3. wdone \in 0 .. n + k
      BY <1>1, <2>1, <2>2 DEF ErbShape
    <2>4. wdone \in 0 .. 2 * n
      BY <2>2, <2>3
    <2> QED
      BY <2>1, <2>4
  <1>4. /\ E!C!Slots = Slots /\ E!Bytes = Bytes
        /\ \A n, S : E!C!UpTo(n, S) = UpTo(n, S)
    BY SameNames DEF Bytes, E!C!UpTo, UpTo
  <1>5. /\ mem \in [E!Bytes -> Value \cup {NoValue}]
        /\ write \in E!C!Slots /\ read \in E!C!Slots /\ rto \in E!C!Slots
        /\ wpc \in {"idle", "copy"}
    BY <1>1, <1>4 DEF ErbShape, Places, Held
  <1>6. /\ wbuf \in E!C!UpTo(MaxBatch, Value) /\ got \in E!C!UpTo(MaxBatch, Value)
        /\ rbuf \in E!C!UpTo(MaxBatch, Value \cup {NoValue})
    BY <1>4, HeldIs
  <1> QED
    BY <1>2, <1>3, <1>5, <1>6, HeldIs DEF E!TypeOK, RingsGood, Sizes

LEMMA RingsHold ==
    RingsSpec => [](IF kind = "common" THEN TypeOK /\ OneByteFree ELSE E!TypeOK)
  <1>1. RingsGood => IF kind = "common" THEN TypeOK /\ OneByteFree ELSE E!TypeOK
    BY CommonTyped, ElasticTyped
  <1>2. RingsGood /\ [RingsNext]_<<kind, vars, recvars>> => RingsGood'
    BY GoodStep
  <1> QED
    BY <1>1, <1>2, GoodStart, PTL DEF RingsSpec

-----------------------------------------------------------------------------
(* The fifo of records *)

RP == INSTANCE RecordProofs WITH
    Size <- FifoSize, data <- rec_data, in <- rec_in, out <- rec_out, wbuf <- rec_wbuf,
    wleft <- rec_wleft, rop <- rec_rop, rn <- rec_rn, rbuf <- rec_rbuf,
    rleft <- rec_rleft, rin <- rec_rin, got <- rec_got

\* What RecordProofs proves of a fifo of records holds of this one.
LEMMA RecordsAssumed == RP!SizeAssumption /\ RP!WrapAssumption /\ RP!RecAssumption
  BY RecordsAssumption DEF RP!SizeAssumption, RP!WrapAssumption, RP!RecAssumption, R!RecAssumption

LEMMA SameRecords == (R!Init <=> RP!Init) /\ (R!Next <=> RP!Next)
  <1>1. R!Init <=> RP!Init
    BY DEF R!Init, RP!Init, R!Slots, RP!Slots
  <1>2. R!Next <=> RP!Next
    BY DEF
      R!Next, R!vars, R!writer, R!reader, R!Records, R!InRBegin, R!StoreByte, R!InRCommit,
      R!OutRBegin, R!LoadByte, R!FinishRead, R!OutRCommit, R!PeekREnd, R!SkipR,
      R!ResetOutLoad, R!ResetOutStore, R!StoreSlot, R!LoadSlot, R!PeekN, R!LengthBytes,
      R!Slot, R!Chunk, R!MayCopy, R!Masked, R!MinOf, R!Advance, R!Used, R!Unused, R!IsEmpty,
      RP!Next, RP!vars, RP!writer, RP!reader, RP!Records, RP!InRBegin, RP!StoreByte,
      RP!InRCommit, RP!OutRBegin, RP!LoadByte, RP!FinishRead, RP!OutRCommit, RP!PeekREnd,
      RP!SkipR, RP!ResetOutLoad, RP!ResetOutStore, RP!StoreSlot, RP!LoadSlot, RP!PeekN,
      RP!LengthBytes, RP!Slot, RP!Chunk, RP!MayCopy, RP!Masked, RP!MinOf, RP!Advance,
      RP!Used, RP!Unused, RP!IsEmpty
  <1> QED
    BY <1>1, <1>2

LEMMA RingsRunRecords == RingsSpec => RP!Spec
  <1>1. RingsInit => RP!Init
    BY SameRecords DEF RingsInit
  <1>2. [RingsNext]_<<kind, vars, recvars>> => [RP!Next]_(RP!vars)
    BY SameRecords DEF RingsNext, recvars, RP!vars, RP!writer, RP!reader
  <1> QED
    BY <1>1, <1>2, PTL DEF RingsSpec, RP!Spec

\* Every ring keeps its shape: no index leaves the buffer and no copy runs past
\* the caller's, and a reader is never handed a byte that nobody wrote.
THEOREM RingsTyped ==
    ASSUME RP!Tellable
    PROVE  RingsSpec => []RingsTypeOK
  <1>1. RP!Spec => []RP!TypeOK
    BY RecordsAssumed, RP!RecordsTyped
  <1>2. RP!TypeOK <=> R!TypeOK
    BY DEF RP!TypeOK, R!TypeOK, RP!Slots, R!Slots, RP!Index, R!Index, RP!MaxRec, R!MaxRec
  <1>3. (IF kind = "common" THEN TypeOK /\ OneByteFree ELSE E!TypeOK) /\ RP!TypeOK
            => RingsTypeOK
    BY <1>2 DEF RingsTypeOK
  <1> QED
    BY <1>1, <1>3, RingsRunRecords, RingsHold, PTL

\* The committed bytes of a fifo of records are its records, each behind its own
\* length: no step of the writer makes a reader take payload for a length.
THEOREM RecordsStayFramed ==
    ASSUME RP!Tellable
    PROVE  RingsSpec => []Framing
  <1>1. RP!Spec => []RP!Framing
    BY RecordsAssumed, RP!RecordsAreFramed
  <1>2. RP!Framing <=> Framing
    BY DEF Framing, RP!Framing, R!Framing, RP!Framed, R!Framed, RP!LengthBytes, R!LengthBytes,
       RP!FlattenSeq, R!FlattenSeq, RP!Contents, R!Contents, RP!RingSlot, R!RingSlot,
       RP!Used, R!Used
  <1> QED
    BY <1>1, <1>2, RingsRunRecords, PTL

\* pfifo_avail tells exactly which records go in, however long the callers'
\* records are.
THEOREM AvailKeepsItsPromise == RingsSpec => []AvailIsExact
  <1>1. RP!Spec => []RP!AvailIsExact
    BY RecordsAssumed, RP!AvailTold
  <1>2. RP!AvailIsExact <=> AvailIsExact
    BY DEF AvailIsExact, RP!AvailIsExact, R!AvailIsExact, RP!Avail, R!Avail, RP!MinOf, R!MinOf,
       RP!MaxRec, R!MaxRec, RP!Unused, R!Unused, RP!Used, R!Used
  <1> QED
    BY <1>1, <1>2, RingsRunRecords, PTL

\* Records come out whole and in order, or cut to the reader's buffer.
THEOREM RecordsComeOutInOrder ==
    ASSUME RP!Tellable
    PROVE  RingsSpec => ImplementsRecordQueue
  <1>1. RP!Spec => RP!ImplementsRecordQueue
    BY RecordsAssumed, RP!RecordsRefine
  <1>2. RP!Queue!Init => R!Queue!Init
    BY DEF RP!Queue!Init, R!Queue!Init
  <1>3. [RP!Queue!Next]_(RP!Queue!rvars) => [R!Queue!Next]_(R!Queue!rvars)
    BY DEF RP!Queue!Next, RP!Queue!rvars, RP!Queue!Accept, RP!Queue!Take, RP!Queue!Peek,
       RP!Queue!Drop, RP!Queue!Deliver, R!Queue!Next, R!Queue!rvars, R!Queue!Accept,
       R!Queue!Take, R!Queue!Peek, R!Queue!Drop, R!Queue!Deliver
  <1> QED
    BY <1>1, <1>2, <1>3, RingsRunRecords, PTL
    DEF ImplementsRecordQueue, R!ImplementsRecordQueue, RP!ImplementsRecordQueue,
        R!Queue!Spec, RP!Queue!Spec
=============================================================================
