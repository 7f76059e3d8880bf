--------------------------- MODULE PfifoIndexProofs ---------------------------
(***************************************************************************)
(* The index arithmetic of the fifo, for every buffer size and index width *)
(* and whatever its slots hold: what `in - out`, `in += n` and `& mask`    *)
(* compute although the counters wrap, and how storing, publishing and     *)
(* removing change the committed elements.  Both modes of the fifo         *)
(* (PfifoProofs, RecordProofs) rest on it.                                 *)
(***************************************************************************)
EXTENDS PfifoIndex, SequenceTheorems, TLAPS

-----------------------------------------------------------------------------
(* Euclidean division *)

\* Quotient and remainder of an integer by a positive integer.
LEMMA DivMod ==
    ASSUME NEW a \in Int, NEW b \in Nat \ {0}
    PROVE  /\ (a % b) \in 0 .. b - 1
           /\ (a \div b) \in Int
           /\ a = b * (a \div b) + ((a % b))
  BY SMT

\* Multiples of b that differ lie at least b apart.
LEMMA MultiplesApart ==
    ASSUME NEW b \in Nat \ {0}, NEW x \in Int, NEW y \in Int, x < y
    PROVE  b * x + b <= b * y
  BY SMT

\* Only one quotient and remainder fit.
LEMMA ModUnique ==
    ASSUME NEW b \in Nat \ {0}, NEW a \in Int, NEW q \in Int, NEW r \in 0 .. b - 1,
           a = b * q + r
    PROVE  (a % b) = r
  <1>1. /\ (a % b) \in 0 .. b - 1
        /\ (a \div b) \in Int
        /\ a = b * (a \div b) + ((a % b))
    BY DivMod
  <1>2. ~((a \div b) < q)
    BY <1>1, MultiplesApart, SMT
  <1>3. ~(q < (a \div b))
    BY <1>1, MultiplesApart, SMT
  <1> QED
    BY <1>1, <1>2, <1>3, SMT

\* Adding a multiple of the modulus changes nothing.
LEMMA ModPlusMultiple ==
    ASSUME NEW b \in Nat \ {0}, NEW a \in Int, NEW k \in Int
    PROVE  ((a + b * k) % b) = (a % b)
  <1> DEFINE q == (a \div b) + k
  <1>1. /\ (a % b) \in 0 .. b - 1
        /\ (a \div b) \in Int
        /\ a = b * (a \div b) + ((a % b))
    BY DivMod
  <1>2. b * q = b * (a \div b) + b * k
    BY <1>1, SMT
  <1>3. a + b * k = b * q + (a % b) /\ q \in Int /\ (a + b * k) \in Int
    BY <1>1, <1>2, SMT
  <1> HIDE DEF q
  <1> QED
    BY <1>1, <1>3, ModUnique

-----------------------------------------------------------------------------
(* The two moduli of the fifo *)

\* The buffer size divides the modulus of the indices.
LEMMA WrapIsMultiple ==
    Wrap = Size * (Wrap \div Size) /\ (Wrap \div Size) \in Int
  <1>1. Size \in Nat \ {0} /\ Wrap \in Int
    BY SizeAssumption, WrapAssumption, SMT
  <1> QED
    BY <1>1, DivMod, WrapAssumption, SMT

\* An index that wrapped still addresses the slot it would have addressed.
LEMMA MaskedWrap ==
    ASSUME NEW a \in Int
    PROVE  /\ Masked(a) \in Slots
           /\ Masked(a - Wrap) = Masked(a)
           /\ Masked(a + Wrap) = Masked(a)
  <1>1. Size \in Nat \ {0}
    BY SizeAssumption, SMT
  <1> DEFINE k == Wrap \div Size
  <1>2. k \in Int /\ Wrap = Size * k
    BY WrapIsMultiple
  <1> HIDE DEF k
  <1>3. ((a + Size * k) % Size) = (a % Size)
    BY <1>1, <1>2, ModPlusMultiple
  <1>4. a - Wrap \in Int /\ (a - Wrap) + Size * k = a
    BY <1>1, <1>2, SMT
  <1>5. (((a - Wrap) + Size * k) % Size) = ((a - Wrap) % Size)
    BY <1>1, <1>2, <1>4, ModPlusMultiple
  <1>6. Masked(a) \in Slots
    BY <1>1, DivMod DEF Masked, Slots
  <1> QED
    BY <1>2, <1>3, <1>4, <1>5, <1>6 DEF Masked

\* in - out, free of the modulus: the wrap costs one correction.
LEMMA UsedIs ==
    ASSUME NEW i \in Index, NEW o \in Index
    PROVE  /\ Used(i, o) = IF o <= i THEN i - o ELSE i - o + Wrap
           /\ Used(i, o) \in 0 .. Wrap - 1
  BY WrapAssumption, SizeAssumption, SMT DEF Used, Index

\* index += n, free of the modulus, for every n up to Size.
LEMMA AdvanceIs ==
    ASSUME NEW i \in Index, NEW n \in 0 .. Size
    PROVE  /\ Advance(i, n) = IF i + n < Wrap THEN i + n ELSE i + n - Wrap
           /\ Advance(i, n) \in Index
  BY WrapAssumption, SizeAssumption, SMT DEF Advance, Index

\* pfifo_unused counts the free elements as long as the fifo is not overrun.
LEMMA UnusedIs ==
    ASSUME NEW i \in Index, NEW o \in Index, Used(i, o) <= Size
    PROVE  Unused(i, o) = Size - Used(i, o)
  <1>1. Used(i, o) \in 0 .. Wrap - 1
    BY UsedIs
  <1> QED
    BY <1>1, WrapAssumption, SizeAssumption, SMT DEF Unused

\* Committing n elements makes the fifo n longer, across the wrap too.
LEMMA UsedAfterIn ==
    ASSUME NEW i \in Index, NEW o \in Index, NEW n \in 0 .. Size, Used(i, o) + n <= Size
    PROVE  Used(Advance(i, n), o) = Used(i, o) + n
  <1> DEFINE j == Advance(i, n)
  <1>1. j \in Index /\ j = IF i + n < Wrap THEN i + n ELSE i + n - Wrap
    BY AdvanceIs
  <1>2. Used(i, o) = IF o <= i THEN i - o ELSE i - o + Wrap
    BY UsedIs
  <1> HIDE DEF j
  <1>3. Used(j, o) = IF o <= j THEN j - o ELSE j - o + Wrap
    BY <1>1, UsedIs
  <1>4. Used(j, o) = Used(i, o) + n
    BY <1>1, <1>2, <1>3, WrapAssumption, SizeAssumption, SMT DEF Index
  <1> QED
    BY <1>4 DEF j

\* Removing n elements makes it n shorter.
LEMMA UsedAfterOut ==
    ASSUME NEW i \in Index, NEW o \in Index, NEW n \in 0 .. Size, n <= Used(i, o)
    PROVE  Used(i, Advance(o, n)) = Used(i, o) - n
  <1> DEFINE j == Advance(o, n)
  <1>1. j \in Index /\ j = IF o + n < Wrap THEN o + n ELSE o + n - Wrap
    BY AdvanceIs
  <1>2. Used(i, o) = IF o <= i THEN i - o ELSE i - o + Wrap
    BY UsedIs
  <1> HIDE DEF j
  <1>3. Used(i, j) = IF j <= i THEN i - j ELSE i - j + Wrap
    BY <1>1, UsedIs
  <1>4. Used(i, j) = Used(i, o) - n
    BY <1>1, <1>2, <1>3, WrapAssumption, SizeAssumption, SMT DEF Index
  <1> QED
    BY <1>4 DEF j

-----------------------------------------------------------------------------
(* Slots *)

\* Element p of a ring is in the buffer.
LEMMA RingSlotType ==
    ASSUME NEW o \in Int, NEW p \in Int
    PROVE  RingSlot(o, p) \in Slots
  <1>1. o + (p - 1) \in Int
    OBVIOUS
  <1> QED
    BY <1>1, MaskedWrap DEF RingSlot, Masked

\* The offset arithmetic of the two memcpys addresses the ring.
LEMMA SlotIsRingSlot ==
    ASSUME NEW off \in Index, NEW len \in 0 .. Size, NEW p \in 1 .. len
    PROVE  Slot(len, off, p) = RingSlot(off, p)
  <1> DEFINE m == Masked(off)  q == off \div Size
  <1>1. Size \in Nat \ {0} /\ off \in Int
    BY SizeAssumption, WrapAssumption, SMT DEF Index
  <1>2. m \in 0 .. Size - 1 /\ q \in Int /\ off = Size * q + m
    BY <1>1, DivMod DEF Masked
  <1> HIDE DEF m, q
  <1>3. CASE m + (p - 1) < Size
    <2>1. off + (p - 1) = Size * q + (m + (p - 1))
      BY <1>1, <1>2, SMT
    <2>2. m + (p - 1) \in 0 .. Size - 1 /\ off + (p - 1) \in Int
      BY <1>1, <1>2, <1>3, SMT
    <2>3. ((off + (p - 1)) % Size) = m + (p - 1)
      BY <1>1, <1>2, <2>1, <2>2, ModUnique
    <2>4. p <= Chunk(len, off)
      BY <1>1, <1>2, <1>3, SMT DEF Chunk, MinOf, m
    <2> QED
      BY <2>3, <2>4 DEF Slot, RingSlot, m
  <1>4. CASE ~(m + (p - 1) < Size)
    <2>1. off + (p - 1) = Size * (q + 1) + (m + (p - 1) - Size)
      <3>1. Size * (q + 1) = Size * q + Size
        BY <1>1, <1>2, SMT
      <3> QED
        BY <1>1, <1>2, <3>1, SMT
    <2>2. /\ m + (p - 1) - Size \in 0 .. Size - 1
          /\ off + (p - 1) \in Int
          /\ q + 1 \in Int
      BY <1>1, <1>2, <1>4, SMT
    <2>3. ((off + (p - 1)) % Size) = m + (p - 1) - Size
      BY <1>1, <2>1, <2>2, ModUnique
    <2>4. Chunk(len, off) = Size - m
      BY <1>1, <1>2, <1>4, SMT DEF Chunk, MinOf, m
    <2>5. ~(p <= Size - m) /\ p - (Size - m) - 1 = m + (p - 1) - Size
      BY <1>1, <1>2, <1>4, SMT
    <2> QED
      BY <2>3, <2>4, <2>5 DEF Slot, RingSlot
  <1> QED
    BY <1>3, <1>4

\* Up to Size consecutive elements occupy different slots.
LEMMA RingSlotInjective ==
    ASSUME NEW o \in Int, NEW p \in 1 .. Size, NEW q \in 1 .. Size,
           RingSlot(o, p) = RingSlot(o, q)
    PROVE  p = q
  <1>1. Size \in Nat \ {0}
    BY SizeAssumption, SMT
  <1> DEFINE a == o + (p - 1)  b == o + (q - 1)
  <1>2. a \in Int /\ b \in Int /\ a - b < Size /\ b - a < Size
    BY <1>1, SMT
  <1>3. (a % Size) = (b % Size)
    BY DEF RingSlot
  <1>4. /\ (a % Size) \in 0 .. Size - 1 /\ (a \div Size) \in Int
        /\ a = Size * (a \div Size) + ((a % Size))
        /\ (b \div Size) \in Int
        /\ b = Size * (b \div Size) + ((b % Size))
    BY <1>1, <1>2, DivMod
  <1> HIDE DEF a, b
  <1>5. ~((a \div Size) < (b \div Size))
    BY <1>1, <1>2, <1>3, <1>4, MultiplesApart, SMT
  <1>6. ~((b \div Size) < (a \div Size))
    BY <1>1, <1>2, <1>3, <1>4, MultiplesApart, SMT
  <1>7. a = b
    BY <1>2, <1>3, <1>4, <1>5, <1>6, SMT
  <1> QED
    BY <1>1, <1>7, SMT DEF a, b

\* Advancing the index by n and counting p is counting n + p.
LEMMA RingSlotAdvance ==
    ASSUME NEW o \in Index, NEW n \in 0 .. Size, NEW p \in Int
    PROVE  RingSlot(Advance(o, n), p) = RingSlot(o, n + p)
  <1>1. o \in Int /\ Wrap \in Int /\ Size \in Int
    BY WrapAssumption, SizeAssumption, SMT DEF Index
  <1> DEFINE a == o + (n + p - 1)
  <1>2. a \in Int
    BY <1>1, SMT
  <1>3. Masked(a - Wrap) = Masked(a)
    BY <1>2, MaskedWrap
  <1>4. Advance(o, n) = o + n \/ Advance(o, n) = o + n - Wrap
    BY AdvanceIs
  <1>5. Advance(o, n) + (p - 1) = a \/ Advance(o, n) + (p - 1) = a - Wrap
    BY <1>1, <1>4, SMT
  <1>6. RingSlot(o, n + p) = Masked(a)
    BY <1>1, SMT DEF RingSlot, Masked
  <1> QED
    BY <1>3, <1>5, <1>6 DEF RingSlot, Masked

\* What the writer stores at in + p - 1 is what the reader finds after the
\* elements already committed.
LEMMA RingSlotBehindIn ==
    ASSUME NEW i \in Index, NEW o \in Index, NEW p \in Int
    PROVE  RingSlot(i, p) = RingSlot(o, Used(i, o) + p)
  <1>1. i \in Int /\ o \in Int /\ Wrap \in Int /\ Used(i, o) \in Int
    BY WrapAssumption, UsedIs, SMT DEF Index
  <1> DEFINE a == i + (p - 1)
  <1>2. a \in Int
    BY <1>1, SMT
  <1>3. Masked(a + Wrap) = Masked(a)
    BY <1>2, MaskedWrap
  <1>4. Used(i, o) = i - o \/ Used(i, o) = i - o + Wrap
    BY UsedIs
  <1> DEFINE b == o + (Used(i, o) + p - 1)
  <1>5. b = a \/ b = a + Wrap
    BY <1>1, <1>4, SMT
  <1>6. RingSlot(o, Used(i, o) + p) = Masked(b)
    BY <1>1, SMT DEF RingSlot, Masked
  <1>7. RingSlot(i, p) = Masked(a)
    BY DEF RingSlot, Masked
  <1> HIDE DEF a, b
  <1> QED
    BY <1>3, <1>5, <1>6, <1>7

-----------------------------------------------------------------------------
(* The committed elements *)

\* A function on 1..k is a sequence of length k.
LEMMA FunctionIsSeq ==
    ASSUME NEW S, NEW k \in Nat, NEW s \in [1 .. k -> S]
    PROVE  s \in Seq(S) /\ Len(s) = k /\ DOMAIN s = 1 .. k
  <1>1. s \in Seq(S)
    BY SeqDef
  <1>2. Len(s) \in Nat /\ DOMAIN s = 1 .. Len(s) /\ DOMAIN s = 1 .. k
    BY <1>1, LenProperties
  <1> QED
    BY <1>1, <1>2, SMT

\* The committed elements form a sequence as long as in - out says.
LEMMA ContentsIsSeq ==
    ASSUME NEW V, NEW d \in [Slots -> V], NEW i \in Index, NEW o \in Index
    PROVE  /\ Contents(d, i, o) \in Seq(V) /\ Len(Contents(d, i, o)) = Used(i, o)
           /\ \A p \in 1 .. Used(i, o) : Contents(d, i, o)[p] = d[RingSlot(o, p)]
  <1>1. Used(i, o) \in Nat /\ o \in Int
    BY UsedIs, WrapAssumption, SMT DEF Index
  <1>2. \A p \in 1 .. Used(i, o) : RingSlot(o, p) \in Slots
    BY <1>1, RingSlotType
  <1>3. Contents(d, i, o) \in [1 .. Used(i, o) -> V]
    BY <1>2 DEF Contents
  <1> QED
    BY <1>1, <1>3, FunctionIsSeq DEF Contents

\* Moving `out` n places forward removes the n oldest elements.
LEMMA ContentsDropped ==
    ASSUME NEW V, NEW d \in [Slots -> V], NEW i \in Index, NEW o \in Index, NEW q \in Index,
           NEW n \in 0 .. Used(i, o), Used(i, q) = Used(i, o) - n,
           \A p \in 1 .. Used(i, o) - n : RingSlot(q, p) = RingSlot(o, n + p)
    PROVE  Contents(d, i, q) = SubSeq(Contents(d, i, o), n + 1, Used(i, o))
  <1> DEFINE c == Contents(d, i, o)  e == Contents(d, i, q)  u == Used(i, o)
             r == SubSeq(c, n + 1, u)
  <1>1. u \in Nat /\ n \in Nat /\ n <= u
    BY UsedIs, SMT
  <1>2. /\ c \in Seq(V) /\ Len(c) = u
        /\ \A p \in 1 .. u : c[p] = d[RingSlot(o, p)]
    BY ContentsIsSeq, ZenonT(60)
  <1>3. /\ e \in Seq(V) /\ Len(e) = u - n
        /\ \A p \in 1 .. u - n : e[p] = d[RingSlot(q, p)]
    <2>1. /\ e \in Seq(V) /\ Len(e) = Used(i, q)
          /\ \A p \in 1 .. Used(i, q) : e[p] = d[RingSlot(q, p)]
      BY ContentsIsSeq, ZenonT(60)
    <2> HIDE DEF e
    <2> QED
      BY <2>1
  <1>h. \A p \in 1 .. u - n : RingSlot(q, p) = RingSlot(o, n + p)
    OBVIOUS
  <1> HIDE DEF c, e, u
  <1>4. \A p \in n + 1 .. u : c[p] \in V
    BY <1>1, <1>2, ElementOfSeq, SMT
  <1>5. n + 1 \in Int /\ u \in Int
    BY <1>1, SMT
  <1>6. /\ r \in Seq(V)
        /\ Len(r) = IF n + 1 <= u THEN u - (n + 1) + 1 ELSE 0
        /\ \A p \in 1 .. u - (n + 1) + 1 : r[p] = c[n + 1 + p - 1]
    BY <1>4, <1>5, SubSeqProperties
  <1>7. Len(r) = Len(e)
    BY <1>1, <1>3, <1>6, SMT
  <1> HIDE DEF r
  <1>8. \A p \in 1 .. Len(e) : e[p] = r[p]
    <2> TAKE p \in 1 .. Len(e)
    <2>1. /\ p \in 1 .. u - n /\ n + p \in 1 .. u
          /\ p \in 1 .. u - (n + 1) + 1 /\ n + 1 + p - 1 = n + p
      BY <1>1, <1>3, SMT
    <2>2. e[p] = d[RingSlot(o, n + p)]
      BY <1>3, <1>h, <2>1
    <2> QED
      BY <1>2, <1>6, <2>1, <2>2
  <1>9. e = r
    BY <1>3, <1>6, <1>7, <1>8, SeqEqual
  <1> QED
    BY <1>9 DEF c, e, u, r

\* Publishing the elements that were stored behind `in` appends them.
LEMMA ContentsAppended ==
    ASSUME NEW V, NEW d \in [Slots -> V], NEW i \in Index, NEW o \in Index, NEW s \in Seq(V),
           Used(i, o) + Len(s) <= Size,
           \A p \in 1 .. Len(s) : d[RingSlot(i, p)] = s[p]
    PROVE  /\ Used(Advance(i, Len(s)), o) = Used(i, o) + Len(s)
           /\ Contents(d, Advance(i, Len(s)), o) = Contents(d, i, o) \o s
  <1> DEFINE c == Contents(d, i, o)  j == Advance(i, Len(s))  e == Contents(d, j, o)
             u == Used(i, o)  l == Len(s)
  <1>1. u \in Nat /\ l \in Nat /\ l \in 0 .. Size /\ Size \in Nat
    BY UsedIs, SizeAssumption, LenProperties, SMT
  <1>2. j \in Index /\ Used(j, o) = u + l
    BY <1>1, AdvanceIs, UsedAfterIn
  <1>3. /\ c \in Seq(V) /\ Len(c) = u
        /\ \A p \in 1 .. u : c[p] = d[RingSlot(o, p)]
    BY ContentsIsSeq
  <1>4. /\ e \in Seq(V) /\ Len(e) = u + l
        /\ \A p \in 1 .. u + l : e[p] = d[RingSlot(o, p)]
    <2>1. /\ e \in Seq(V) /\ Len(e) = Used(j, o)
          /\ \A p \in 1 .. Used(j, o) : e[p] = d[RingSlot(o, p)]
      <3>1. ASSUME NEW k \in Index
            PROVE  /\ Contents(d, k, o) \in Seq(V) /\ Len(Contents(d, k, o)) = Used(k, o)
                   /\ \A p \in 1 .. Used(k, o) : Contents(d, k, o)[p] = d[RingSlot(o, p)]
        BY ContentsIsSeq, ZenonT(60) DEF Contents
      <3> QED
        BY <1>2, <3>1
    <2> HIDE DEF e, j
    <2> QED
      BY <1>2, <2>1
  <1>5. \A k \in 1 .. l : d[RingSlot(o, u + k)] = s[k]
    <2> TAKE k \in 1 .. l
    <2>1. k \in Int
      BY <1>1, SMT
    <2>2. RingSlot(i, k) = RingSlot(o, u + k)
      BY <2>1, RingSlotBehindIn
    <2> QED
      BY <2>2
  <1> HIDE DEF c, e, j, u, l
  <1>6. /\ c \o s \in Seq(V)
        /\ Len(c \o s) = u + l
        /\ \A p \in 1 .. u + l : (c \o s)[p] = IF p <= u THEN c[p] ELSE s[p - u]
    BY <1>3, ConcatProperties DEF l
  <1>7. \A p \in 1 .. Len(e) : e[p] = (c \o s)[p]
    <2> TAKE p \in 1 .. Len(e)
    <2>1. p \in 1 .. u + l
      BY <1>4
    <2>2. CASE p <= u
      <3>1. p \in 1 .. u
        BY <1>1, <2>1, <2>2, SMT
      <3> QED
        BY <1>3, <1>4, <1>6, <2>1, <2>2, <3>1
    <2>3. CASE ~(p <= u)
      <3>1. p - u \in 1 .. l /\ u + (p - u) = p
        BY <1>1, <2>1, <2>3, SMT
      <3>2. e[p] = s[p - u]
        BY <1>4, <1>5, <2>1, <3>1
      <3> QED
        BY <1>6, <2>1, <2>3, <3>2
    <2> QED
      BY <2>2, <2>3
  <1>8. e = c \o s
    BY <1>4, <1>6, <1>7, SeqEqual
  <1> QED
    BY <1>2, <1>8 DEF c, e, j, u, l

\* Storing behind the committed elements leaves them alone.
LEMMA ContentsSpared ==
    ASSUME NEW V, NEW d \in [Slots -> V], NEW i \in Index, NEW o \in Index,
           NEW p \in Nat \ {0}, Used(i, o) + p <= Size, NEW v
    PROVE  Contents([d EXCEPT ![RingSlot(i, p)] = v], i, o) = Contents(d, i, o)
  <1> DEFINE e == [d EXCEPT ![RingSlot(i, p)] = v]
  <1>u. Used(i, o) \in Nat
    BY UsedIs, WrapAssumption, SMT
  <1>0. PICK u \in Nat : u = Used(i, o)
    BY <1>u
  <1>n. i \in Int /\ o \in Int
    BY WrapAssumption, SMT DEF Index
  <1>m. u + p \in 1 .. Size
    BY <1>0, SizeAssumption, SMT
  <1>1. /\ Used(i, o) \in Nat /\ o \in Int /\ i \in Int /\ p \in Int
        /\ Used(i, o) + p \in 1 .. Size
    BY <1>0, <1>n, <1>m
  <1>2. RingSlot(i, p) = RingSlot(o, Used(i, o) + p) /\ RingSlot(i, p) \in Slots
    BY <1>1, RingSlotBehindIn, RingSlotType
  <1>3. ASSUME NEW q \in 1 .. Used(i, o) PROVE e[RingSlot(o, q)] = d[RingSlot(o, q)]
    <2>0. q \in 1 .. u
      BY <1>0
    <2>1. q \in 1 .. Size /\ q # u + p /\ q \in Int
      BY <1>m, <2>0, SizeAssumption, SMT
    <2>2. RingSlot(o, q) # RingSlot(i, p)
      BY <1>0, <1>1, <1>2, <2>1, RingSlotInjective
    <2>3. RingSlot(o, q) \in Slots
      BY <1>1, <2>1, RingSlotType
    <2> QED
      BY <2>2, <2>3
  <1> QED
    BY <1>3 DEF Contents

\* An index between `out` and `in`, such as an `in` loaded earlier, splits the
\* committed elements.
LEMMA IndexBetween ==
    ASSUME NEW i \in Index, NEW m \in Index, NEW o \in Index, Used(m, o) <= Used(i, o)
    PROVE  /\ Used(m, o) \in 0 .. Used(i, o)
           /\ Used(i, m) = Used(i, o) - Used(m, o)
           /\ \A p \in Int : RingSlot(m, p) = RingSlot(o, Used(m, o) + p)
  <1>1. /\ Used(m, o) = IF o <= m THEN m - o ELSE m - o + Wrap
        /\ Used(i, o) = IF o <= i THEN i - o ELSE i - o + Wrap
        /\ Used(i, m) = IF m <= i THEN i - m ELSE i - m + Wrap
        /\ Used(m, o) \in 0 .. Wrap - 1
    BY UsedIs
  <1>2. Used(m, o) \in 0 .. Used(i, o) /\ Used(i, m) = Used(i, o) - Used(m, o)
    BY <1>1, WrapAssumption, SMT DEF Index
  <1> QED
    BY <1>2, RingSlotBehindIn

===============================================================================
