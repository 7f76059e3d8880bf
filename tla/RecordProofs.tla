----------------------------- MODULE RecordProofs -----------------------------
(***************************************************************************)
(* The record mode of the fifo, for every buffer size, index width, length *)
(* field and set of records: the committed bytes are the records, each     *)
(* behind its own length, and records come out whole and in order.  The    *)
(* records are taken for what the callers are told to pass: no longer than *)
(* the length field can tell (Tellable).                                   *)
(***************************************************************************)
EXTENDS PfifoRec, PfifoIndexProofs, WellFoundedInduction

Tellable == MaxLen <= MaxRec

-----------------------------------------------------------------------------
(* Sequences of sequences in one *)

\* Every inhabited set of numbers has a least element.
LEMMA LeastOf ==
    ASSUME NEW N \in SUBSET Nat, NEW k \in N
    PROVE  \E c \in N : \A d \in N : c <= d
  <1> DEFINE R == {ss \in Nat \X Nat : ss[1] < ss[2]}
  <1>1. IsWellFoundedOn(R, Nat)
    BY NatLessThanWellFounded DEF OpToRel
  <1>2. N \subseteq Nat /\ N # {}
    OBVIOUS
  <1> HIDE DEF R
  <1>3. PICK c \in N : \A d \in N : ~(<<d, c>> \in R)
    BY <1>1, <1>2, WFMin
  <1>4. \A d \in N : ~(d < c)
    <2> SUFFICES ASSUME NEW d \in N, d < c PROVE <<d, c>> \in R
      BY <1>3
    <2>1. <<d, c>> \in Nat \X Nat
      BY <1>2
    <2> QED
      BY <2>1 DEF R
  <1> QED
    BY <1>2, <1>4

\* FlattenSeq is defined by the sequence of its beginnings.
FlatTo(seqs, m, f) == f = [i \in 1 .. m |-> IF i = 1 THEN seqs[i] ELSE f[i - 1] \o seqs[i]]

LEMMA FlatExists ==
    ASSUME NEW seqs, NEW l \in Nat
    PROVE  \E f : FlatTo(seqs, l, f)
  <1> DEFINE Bad == {m \in Nat : ~\E f : FlatTo(seqs, m, f)}
  <1> SUFFICES ASSUME l \in Bad PROVE FALSE
    OBVIOUS
  <1>1. PICK c \in Bad : \A d \in Bad : c <= d
    <2>1. Bad \in SUBSET Nat
      OBVIOUS
    <2> HIDE DEF Bad
    <2> QED
      BY <2>1, LeastOf
  <1>2. c \in Nat /\ ~\E f : FlatTo(seqs, c, f)
    OBVIOUS
  <1>3. PICK u : c > 0 => FlatTo(seqs, c - 1, u)
    <2>1. CASE c > 0
      <3>1. c - 1 \in Nat /\ c - 1 \notin Bad
        BY <1>1, <1>2, <2>1
      <3> QED
        BY <1>2, <3>1
    <2> QED
      BY <2>1
  <1> DEFINE v == [i \in 1 .. c |-> IF i = c THEN (IF c = 1 THEN seqs[c] ELSE u[c - 1] \o seqs[c])
                                    ELSE u[i]]
  <1>4. ASSUME NEW i \in 1 .. c
        PROVE  v[i] = IF i = 1 THEN seqs[i] ELSE v[i - 1] \o seqs[i]
    <2>1. CASE i = c
      <3>1. i # 1 => i - 1 \in 1 .. c /\ i - 1 # c /\ i - 1 = c - 1
        BY <1>2, <2>1
      <3>2. i # 1 => v[i - 1] = u[c - 1]
        BY <2>1, <3>1, Zenon
      <3> QED
        BY <2>1, <3>2
    <2>2. CASE i # c
      <3>1. i \in 1 .. c - 1 /\ v[i] = u[i] /\ (i # 1 => v[i - 1] = u[i - 1]) /\ c > 0
        BY <1>2, <2>2
      <3>2. u[i] = IF i = 1 THEN seqs[i] ELSE u[i - 1] \o seqs[i]
        BY <1>3, <3>1 DEF FlatTo
      <3> QED
        BY <3>1, <3>2
    <2> QED
      BY <2>1, <2>2
  <1>5. v = [i \in 1 .. c |-> v[i]]
    OBVIOUS
  <1>6. FlatTo(seqs, c, v)
    <2> HIDE DEF v
    <2> QED
      BY <1>4, <1>5 DEF FlatTo
  <1> HIDE DEF v
  <1> QED
    BY <1>2, <1>6

\* The beginnings only depend on what they are made of.
LEMMA FlatUnique ==
    \A a, b, f, g : \A m, n \in Nat :
        m <= n /\ FlatTo(a, m, f) /\ FlatTo(b, n, g) /\ (\A i \in 1 .. m : a[i] = b[i])
            => \A i \in 1 .. m : f[i] = g[i]
  <1> TAKE a, b, f, g
  <1> TAKE m, n \in Nat
  <1> HAVE m <= n /\ FlatTo(a, m, f) /\ FlatTo(b, n, g) /\ \A i \in 1 .. m : a[i] = b[i]
  <1> SUFFICES ASSUME NEW k \in 1 .. m, f[k] # g[k] PROVE FALSE
    OBVIOUS
  <1> DEFINE Bad == {i \in Nat : i \in 1 .. m /\ f[i] # g[i]}
  <1>1. PICK c \in Bad : \A d \in Bad : c <= d
    <2>1. Bad \in SUBSET Nat /\ k \in Bad
      OBVIOUS
    <2> HIDE DEF Bad
    <2> QED
      BY <2>1, LeastOf
  <1>2. c \in 1 .. m /\ c \in 1 .. n /\ f[c] # g[c]
    OBVIOUS
  <1>3. f[c] = IF c = 1 THEN a[c] ELSE f[c - 1] \o a[c]
    BY <1>2 DEF FlatTo
  <1>4. g[c] = IF c = 1 THEN b[c] ELSE g[c - 1] \o b[c]
    BY <1>2 DEF FlatTo
  <1>5. c # 1 => f[c - 1] = g[c - 1]
    <2>1. c # 1 => c - 1 \in 1 .. m /\ c - 1 < c /\ c - 1 \in Nat
      BY <1>2
    <2> QED
      BY <1>1, <1>2, <2>1
  <1>6. a[c] = b[c]
    BY <1>2
  <1> QED
    BY <1>2, <1>3, <1>4, <1>5, <1>6

LEMMA FlatIs ==
    ASSUME NEW seqs, Len(seqs) \in Nat \ {0}
    PROVE  \E g : FlatTo(seqs, Len(seqs), g) /\ FlattenSeq(seqs) = g[Len(seqs)]
  <1> DEFINE f == CHOOSE f : f = [i \in 1 .. Len(seqs) |->
                     IF i = 1 THEN seqs[i] ELSE f[i - 1] \o seqs[i]]
  <1>1. f = [i \in 1 .. Len(seqs) |-> IF i = 1 THEN seqs[i] ELSE f[i - 1] \o seqs[i]]
    BY FlatExists, Zenon DEF FlatTo
  <1>2. FlattenSeq(seqs) = f[Len(seqs)]
    BY Zenon DEF FlattenSeq
  <1> QED
    BY <1>1, <1>2, Zenon DEF FlatTo

LEMMA FlatEmpty == FlattenSeq(<<>>) = <<>>
  BY DEF FlattenSeq

LEMMA FlatAppend ==
    ASSUME NEW V, NEW a \in Seq(Seq(V)), NEW s \in Seq(V)
    PROVE  FlattenSeq(Append(a, s)) = FlattenSeq(a) \o s
  <1> DEFINE b == Append(a, s)
  <1>1. /\ Len(a) \in Nat /\ b \in Seq(Seq(V)) /\ Len(b) = Len(a) + 1
        /\ (\A i \in 1 .. Len(a) : b[i] = a[i]) /\ b[Len(a) + 1] = s
    BY AppendProperties
  <1> HIDE DEF b
  <1>2. PICK g : FlatTo(b, Len(b), g) /\ FlattenSeq(b) = g[Len(b)]
    BY <1>1, FlatIs, SMTT(60)
  <1>3. FlattenSeq(b) = IF Len(b) = 1 THEN b[Len(b)] ELSE g[Len(b) - 1] \o b[Len(b)]
    <2>1. Len(b) \in 1 .. Len(b)
      BY <1>1
    <2> QED
      BY <1>2, <2>1 DEF FlatTo
  <1>4. CASE Len(a) = 0
    <2>1. a = <<>>
      BY <1>4
    <2>2. FlattenSeq(a) \o s = s
      BY <2>1, FlatEmpty, ConcatEmptySeq
    <2> QED
      BY <1>1, <1>3, <1>4, <2>2 DEF b
  <1>5. CASE Len(a) # 0
    <2>1. PICK f : FlatTo(a, Len(a), f) /\ FlattenSeq(a) = f[Len(a)]
      BY <1>1, <1>5, FlatIs
    <2>2. \A i \in 1 .. Len(a) : f[i] = g[i]
      <3>1. /\ FlatTo(a, Len(a), f) /\ FlatTo(b, Len(b), g)
            /\ Len(a) \in Nat /\ Len(b) \in Nat /\ Len(a) <= Len(b)
            /\ \A i \in 1 .. Len(a) : a[i] = b[i]
        BY <1>1, <1>2, <2>1
      <3> QED
        BY <3>1, FlatUnique
    <2>3. g[Len(a)] = f[Len(a)] /\ Len(b) - 1 = Len(a) /\ Len(b) # 1
      BY <1>1, <1>5, <2>2
    <2>4. FlattenSeq(b) = g[Len(a)] \o s
      BY <1>1, <1>3, <2>3
    <2> QED
      BY <2>1, <2>3, <2>4 DEF b
  <1> QED
    BY <1>4, <1>5

\* Three in a row, as the steps below use it.
LEMMA ConcatAssoc ==
    ASSUME NEW V, NEW x \in Seq(V), NEW y \in Seq(V), NEW z \in Seq(V)
    PROVE  (x \o y) \o z = x \o (y \o z)
  BY ConcatAssociative, SMTT(60)

\* Adding to the second of two in a row adds to what they give.
LEMMA AppendAfter ==
    ASSUME NEW W, NEW a \in Seq(W), NEW t \in Seq(W), NEW e \in W
    PROVE  /\ a \o t \in Seq(W)
           /\ a \o Append(t, e) = Append(a \o t, e)
  <1>1. <<e>> \in Seq(W) /\ Append(t, e) = t \o <<e>>
    BY AppendIsConcat
  <1>2. a \o t \in Seq(W)
    BY ConcatProperties
  <1>3. Append(a \o t, e) = (a \o t) \o <<e>>
    BY <1>2, AppendIsConcat
  <1>4. (a \o t) \o <<e>> = a \o (t \o <<e>>)
    BY <1>1, ConcatAssoc
  <1> QED
    BY <1>1, <1>2, <1>3, <1>4, Zenon

\* Flattening a sequence of sequences gives a sequence ...
LEMMA FlatType ==
    ASSUME NEW V, NEW a \in Seq(Seq(V))
    PROVE  FlattenSeq(a) \in Seq(V)
  <1> DEFINE Bad == {n \in Nat : \E s \in Seq(Seq(V)) : Len(s) = n /\ FlattenSeq(s) \notin Seq(V)}
  <1>0. \A t \in Seq(Seq(V)), e \in Seq(V) :
            FlattenSeq(Append(t, e)) = FlattenSeq(t) \o e
    BY FlatAppend
  <1> SUFFICES ASSUME Len(a) \in Bad PROVE FALSE
    BY LenProperties
  <1>1. PICK c \in Bad : \A d \in Bad : c <= d
    <2>1. Bad \in SUBSET Nat
      OBVIOUS
    <2> HIDE DEF Bad
    <2> QED
      BY <2>1, LeastOf
  <1>2. PICK s \in Seq(Seq(V)) : Len(s) = c /\ FlattenSeq(s) \notin Seq(V)
    OBVIOUS
  <1>3. CASE s = <<>>
    BY <1>2, <1>3, FlatEmpty, EmptySeq
  <1>4. CASE s # <<>>
    <2>1. PICK t \in Seq(Seq(V)), e \in Seq(V) : s = Append(t, e)
      BY <1>4, SequenceEmptyOrAppend
    <2>2. Len(s) = Len(t) + 1 /\ Len(t) \in Nat
      BY <2>1, AppendProperties, LenProperties
    <2>3. Len(t) \notin Bad
      <3> HIDE DEF Bad
      <3> QED
        BY <1>1, <1>2, <2>2
    <2>4. FlattenSeq(t) \in Seq(V)
      BY <2>2, <2>3
    <2>5. FlattenSeq(s) = FlattenSeq(t) \o e
      BY <1>0, <2>1
    <2> QED
      BY <1>2, <2>4, <2>5, ConcatProperties
  <1> QED
    BY <1>3, <1>4

\* ... and of two in a row, what each of them gives in a row: so does one more.
LEMMA FlatConcatStep ==
    ASSUME NEW V, NEW a \in Seq(Seq(V)), NEW t \in Seq(Seq(V)), NEW e \in Seq(V),
           FlattenSeq(a \o t) = FlattenSeq(a) \o FlattenSeq(t)
    PROVE  FlattenSeq(a \o Append(t, e)) = FlattenSeq(a) \o FlattenSeq(Append(t, e))
  <1>1. a \o t \in Seq(Seq(V)) /\ a \o Append(t, e) = Append(a \o t, e)
    BY AppendAfter
  <1>2. FlattenSeq(Append(a \o t, e)) = FlattenSeq(a \o t) \o e
    BY <1>1, FlatAppend
  <1>3. FlattenSeq(Append(t, e)) = FlattenSeq(t) \o e
    BY FlatAppend
  <1>4. FlattenSeq(a) \in Seq(V) /\ FlattenSeq(t) \in Seq(V)
    BY FlatType
  <1>5. (FlattenSeq(a) \o FlattenSeq(t)) \o e = FlattenSeq(a) \o (FlattenSeq(t) \o e)
    BY <1>4, ConcatAssoc
  <1> QED
    BY <1>1, <1>2, <1>3, <1>5, Zenon

LEMMA FlatConcat ==
    ASSUME NEW V, NEW a \in Seq(Seq(V)), NEW b \in Seq(Seq(V))
    PROVE  FlattenSeq(a \o b) = FlattenSeq(a) \o FlattenSeq(b)
  <1> DEFINE Bad == {n \in Nat : \E s \in Seq(Seq(V)) :
                        Len(s) = n /\ FlattenSeq(a \o s) # FlattenSeq(a) \o FlattenSeq(s)}
  <1> SUFFICES ASSUME Len(b) \in Bad PROVE FALSE
    BY LenProperties
  <1>1. PICK c \in Bad : \A d \in Bad : c <= d
    <2>1. Bad \in SUBSET Nat
      OBVIOUS
    <2> HIDE DEF Bad
    <2> QED
      BY <2>1, LeastOf
  <1>2. PICK s \in Seq(Seq(V)) :
            Len(s) = c /\ FlattenSeq(a \o s) # FlattenSeq(a) \o FlattenSeq(s)
    OBVIOUS
  <1>a. FlattenSeq(a) \in Seq(V)
    BY FlatType
  <1>3. CASE s = <<>>
    <2>1. a \o s = a
      BY <1>3, ConcatEmptySeq
    <2>2. FlattenSeq(a) \o <<>> = FlattenSeq(a)
      BY <1>a, ConcatEmptySeq
    <2> QED
      BY <1>2, <1>3, <2>1, <2>2, FlatEmpty
  <1>4. CASE s # <<>>
    <2>1. PICK t \in Seq(Seq(V)), e \in Seq(V) : s = Append(t, e)
      BY <1>4, SequenceEmptyOrAppend
    <2>2. Len(s) = Len(t) + 1 /\ Len(t) \in Nat
      BY <2>1, AppendProperties, LenProperties
    <2>3. Len(t) \notin Bad
      <3> HIDE DEF Bad
      <3> QED
        BY <1>1, <1>2, <2>2
    <2>4. FlattenSeq(a \o t) = FlattenSeq(a) \o FlattenSeq(t)
      BY <2>2, <2>3
    <2> QED
      BY <1>2, <2>1, <2>4, FlatConcatStep, ZenonT(60)
  <1> QED
    BY <1>3, <1>4


-----------------------------------------------------------------------------
(* Records and their lengths *)

Byte == 0 .. Base - 1

LEMMA ConstantsAre ==
    ASSUME RecAssumption
    PROVE  /\ Base \in Nat /\ Base >= 2 /\ RecSize \in {1, 2} /\ RecSize \in Nat
           /\ MaxLen \in Nat /\ MaxRead \in Nat /\ Payload \subseteq Byte
           /\ MaxRec \in Nat
  <1>1. Base \in Nat /\ Base >= 2 /\ RecSize \in {1, 2}
    BY DEF RecAssumption
  <1>2. Base * Base \in Nat /\ Base * Base >= 1
    BY <1>1, SMT
  <1> QED
    BY <1>1, <1>2 DEF RecAssumption, Byte, MaxRec

\* A record's length bytes tell its length, if it can be told.
LEMMA LengthDigits ==
    ASSUME RecAssumption, NEW n \in Nat, n <= MaxRec
    PROVE  /\ LengthBytes(n) \in [1 .. RecSize -> Byte]
           /\ n = LengthBytes(n)[1] + (IF RecSize > 1 THEN Base * LengthBytes(n)[2] ELSE 0)
  <1> DEFINE q == n \div Base  r == (n % Base)
  <1>1. Base \in Nat \ {0} /\ RecSize \in {1, 2}
    BY ConstantsAre
  <1>2. r \in Byte /\ q \in Int /\ n = Base * q + r
    BY <1>1, DivMod DEF Byte
  <1>3. q >= 0
    BY <1>1, SMT
  <1>4. (q % Base) \in Byte
    BY <1>1, <1>2, DivMod DEF Byte
  <1>5. CASE RecSize = 1
    <2>1. n < Base
      BY <1>1, <1>5 DEF MaxRec
    <2>2. r = n
      BY <1>1, <2>1, SMT
    <2> QED
      BY <1>2, <1>5, <2>2 DEF LengthBytes
  <1>6. CASE RecSize = 2
    <2>1. n < Base * Base /\ Base * Base \in Int
      BY <1>1, <1>6 DEF MaxRec
    <2> HIDE DEF q, r
    <2>2. q < Base
      <3> SUFFICES ASSUME Base <= q PROVE FALSE
        BY <1>1, <1>2
      <3>1. Base * Base <= Base * q
        BY <1>1, <1>2, SMT
      <3>2. PICK x \in Int, y \in Int : x = Base * Base /\ y = Base * q
        BY <1>1, <1>2
      <3>3. r >= 0 /\ r \in Int
        BY <1>1, <1>2 DEF Byte
      <3> QED
        BY <1>2, <2>1, <3>1, <3>2, <3>3, SMT
    <2>3. (q % Base) = q
      BY <1>1, <1>2, <1>3, <2>2, SMT
    <2>4. LengthBytes(n)[1] = r /\ LengthBytes(n)[2] = (q % Base)
      BY <1>6 DEF LengthBytes, q, r
    <2>5. LengthBytes(n) \in [1 .. RecSize -> Byte]
      BY <1>2, <1>4, <1>6 DEF LengthBytes, q, r
    <2>6. n = r + Base * q
      <3>1. PICK y \in Int : y = Base * q
        BY <1>1, <1>2
      <3>2. r \in Int
        BY <1>1, <1>2 DEF Byte
      <3> QED
        BY <1>2, <3>1, <3>2, SMT
    <2> QED
      BY <1>6, <2>3, <2>4, <2>5, <2>6
  <1> QED
    BY <1>1, <1>5, <1>6

\* A record and its length bytes.
LEMMA FramedIs ==
    ASSUME RecAssumption, Tellable, NEW rec \in Records
    PROVE  /\ rec \in Seq(Byte) /\ Len(rec) \in 0 .. MaxLen /\ Len(rec) <= MaxRec
           /\ Framed(rec) \in Seq(Byte) /\ Len(Framed(rec)) = RecSize + Len(rec)
           /\ \A p \in 1 .. RecSize : Framed(rec)[p] = LengthBytes(Len(rec))[p]
           /\ \A p \in 1 .. Len(rec) : Framed(rec)[RecSize + p] = rec[p]
  <1>1. PICK n \in 0 .. MaxLen : rec \in [1 .. n -> Payload]
    BY DEF Records
  <1>2. n \in Nat /\ rec \in [1 .. n -> Byte] /\ n <= MaxLen /\ MaxLen <= MaxRec
        /\ MaxLen \in Nat /\ MaxRec \in Nat /\ RecSize \in Nat
    BY <1>1, ConstantsAre DEF Tellable
  <1>3. rec \in Seq(Byte) /\ Len(rec) = n
    BY <1>2, FunctionIsSeq
  <1>4. LengthBytes(n) \in [1 .. RecSize -> Byte]
    BY <1>2, LengthDigits
  <1> DEFINE b == LengthBytes(n)
  <1>5. b \in Seq(Byte) /\ Len(b) = RecSize
    BY <1>2, <1>4, FunctionIsSeq
  <1>6. Framed(rec) = b \o rec
    BY <1>3 DEF Framed
  <1> HIDE DEF b
  <1>7. /\ b \o rec \in Seq(Byte) /\ Len(b \o rec) = RecSize + n
        /\ \A p \in 1 .. RecSize + n : (b \o rec)[p] = IF p <= RecSize THEN b[p] ELSE rec[p - RecSize]
    BY <1>3, <1>5, ConcatProperties
  <1>8. \A p \in 1 .. RecSize : (b \o rec)[p] = b[p]
    BY <1>2, <1>7
  <1>9. \A p \in 1 .. n : (b \o rec)[RecSize + p] = rec[p]
    <2> TAKE p \in 1 .. n
    <2>1. RecSize + p \in 1 .. RecSize + n /\ ~(RecSize + p <= RecSize) /\ (RecSize + p) - RecSize = p
      BY <1>2
    <2> QED
      BY <1>7, <2>1
  <1> QED
    BY <1>2, <1>3, <1>6, <1>7, <1>8, <1>9 DEF b

\* The records of a sequence, each behind its own length.
FramesOf(rs) == [k \in DOMAIN rs |-> Framed(rs[k])]
Frames(rs) == FlattenSeq(FramesOf(rs))

LEMMA FramesOfIs ==
    ASSUME RecAssumption, Tellable, NEW rs \in Seq(Records)
    PROVE  /\ FramesOf(rs) \in Seq(Seq(Byte)) /\ Len(FramesOf(rs)) = Len(rs)
           /\ \A k \in 1 .. Len(rs) : FramesOf(rs)[k] = Framed(rs[k])
           /\ Frames(rs) \in Seq(Byte)
  <1>1. DOMAIN rs = 1 .. Len(rs) /\ Len(rs) \in Nat
    BY LenProperties
  <1>2. \A k \in 1 .. Len(rs) : rs[k] \in Records /\ Framed(rs[k]) \in Seq(Byte)
    BY ElementOfSeq, FramedIs
  <1>3. FramesOf(rs) \in [1 .. Len(rs) -> Seq(Byte)]
    BY <1>1, <1>2 DEF FramesOf
  <1>4. FramesOf(rs) \in Seq(Seq(Byte)) /\ Len(FramesOf(rs)) = Len(rs)
    BY <1>1, <1>3, FunctionIsSeq
  <1>5. \A k \in 1 .. Len(rs) : FramesOf(rs)[k] = Framed(rs[k])
    BY <1>1 DEF FramesOf
  <1> QED
    BY <1>4, <1>5, FlatType DEF Frames

LEMMA FramesEmpty == Frames(<<>>) = <<>>
  <1>1. FramesOf(<<>>) = <<>>
    BY DEF FramesOf
  <1> QED
    BY <1>1, FlatEmpty DEF Frames

LEMMA FramesConcat ==
    ASSUME RecAssumption, Tellable, NEW a \in Seq(Records), NEW b \in Seq(Records)
    PROVE  Frames(a \o b) = Frames(a) \o Frames(b)
  <1> DEFINE c == a \o b  fa == FramesOf(a)  fb == FramesOf(b)  fc == FramesOf(c)
  <1>1. /\ c \in Seq(Records) /\ Len(c) = Len(a) + Len(b)
        /\ \A k \in 1 .. Len(a) + Len(b) : c[k] = IF k <= Len(a) THEN a[k] ELSE b[k - Len(a)]
    BY ConcatProperties
  <1>0. Len(a) \in Nat /\ Len(b) \in Nat
    BY LenProperties
  <1> HIDE DEF c
  <1>2. /\ fa \in Seq(Seq(Byte)) /\ Len(fa) = Len(a)
        /\ \A k \in 1 .. Len(a) : fa[k] = Framed(a[k])
    BY FramesOfIs
  <1>3. /\ fb \in Seq(Seq(Byte)) /\ Len(fb) = Len(b)
        /\ \A k \in 1 .. Len(b) : fb[k] = Framed(b[k])
    BY FramesOfIs
  <1>4. /\ fc \in Seq(Seq(Byte)) /\ Len(fc) = Len(c)
        /\ \A k \in 1 .. Len(c) : fc[k] = Framed(c[k])
    BY <1>1, FramesOfIs
  <1> HIDE DEF fa, fb, fc
  <1>5. /\ fa \o fb \in Seq(Seq(Byte)) /\ Len(fa \o fb) = Len(fa) + Len(fb)
        /\ \A k \in 1 .. Len(fa) + Len(fb) :
              (fa \o fb)[k] = IF k <= Len(fa) THEN fa[k] ELSE fb[k - Len(fa)]
    <2>1. PICK W : W = Seq(Byte)
      OBVIOUS
    <2>2. fa \in Seq(W) /\ fb \in Seq(W)
      BY <1>2, <1>3, <2>1, Zenon
    <2>3. /\ fa \o fb \in Seq(W) /\ Len(fa \o fb) = Len(fa) + Len(fb)
          /\ \A k \in 1 .. Len(fa) + Len(fb) :
                (fa \o fb)[k] = IF k <= Len(fa) THEN fa[k] ELSE fb[k - Len(fa)]
      BY <2>2, ConcatProperties
    <2> QED
      BY <2>1, <2>3, Zenon
  <1>6. \A k \in 1 .. Len(fc) : fc[k] = (fa \o fb)[k]
    <2> TAKE k \in 1 .. Len(fc)
    <2>1. k \in 1 .. Len(a) + Len(b) /\ k \in 1 .. Len(c) /\ k \in 1 .. Len(fa) + Len(fb)
      BY <1>1, <1>2, <1>3, <1>4
    <2>2. CASE k <= Len(a)
      <3>1. k \in 1 .. Len(a)
        BY <1>0, <2>1, <2>2
      <3>2. fc[k] = Framed(a[k])
        BY <1>1, <1>4, <2>1, <2>2
      <3>3. (fa \o fb)[k] = fa[k]
        BY <1>2, <1>5, <2>1, <2>2
      <3> QED
        BY <1>2, <3>1, <3>2, <3>3
    <2>3. CASE ~(k <= Len(a))
      <3>1. k - Len(a) \in 1 .. Len(b)
        BY <1>0, <2>1, <2>3
      <3>2. fc[k] = Framed(b[k - Len(a)])
        BY <1>1, <1>4, <2>1, <2>3
      <3>3. (fa \o fb)[k] = fb[k - Len(a)]
        BY <1>2, <1>5, <2>1, <2>3
      <3> QED
        BY <1>3, <3>1, <3>2, <3>3
    <2> QED
      BY <2>2, <2>3
  <1>7. Len(fc) = Len(fa \o fb)
    BY <1>1, <1>2, <1>3, <1>4, <1>5
  <1>8. fc = fa \o fb
    BY <1>4, <1>5, <1>6, <1>7, SeqEqual
  <1>9. FlattenSeq(fa \o fb) = FlattenSeq(fa) \o FlattenSeq(fb)
    BY <1>2, <1>3, FlatConcat
  <1> QED
    BY <1>8, <1>9 DEF Frames, fa, fb, fc, c

LEMMA FramesOne ==
    ASSUME RecAssumption, Tellable, NEW rec \in Records
    PROVE  <<rec>> \in Seq(Records) /\ Frames(<<rec>>) = Framed(rec)
  <1>1. /\ <<rec>> \in Seq(Records) /\ Framed(rec) \in Seq(Byte)
        /\ <<>> \in Seq(Seq(Byte)) /\ <<>> \in Seq(Byte)
    BY FramedIs
  <1>2. FramesOf(<<rec>>) = Append(<<>>, Framed(rec))
    BY DEF FramesOf
  <1>3. FlattenSeq(Append(<<>>, Framed(rec))) = FlattenSeq(<<>>) \o Framed(rec)
    BY <1>1, FlatAppend
  <1>4. <<>> \o Framed(rec) = Framed(rec)
    BY <1>1, ConcatEmptySeq
  <1> QED
    BY <1>1, <1>2, <1>3, <1>4, FlatEmpty DEF Frames

\* The first n records are in front of the others.
LEMMA FramesSplit ==
    ASSUME RecAssumption, Tellable, NEW rs \in Seq(Records), NEW n \in 0 .. Len(rs)
    PROVE  /\ SubSeq(rs, 1, n) \in Seq(Records) /\ SubSeq(rs, n + 1, Len(rs)) \in Seq(Records)
           /\ Frames(rs) = Frames(SubSeq(rs, 1, n)) \o Frames(SubSeq(rs, n + 1, Len(rs)))
  <1>1. Len(rs) \in Nat /\ n \in Nat /\ n <= Len(rs)
    BY LenProperties, SMT
  <1>2. \A k \in 1 .. Len(rs) : rs[k] \in Records
    BY ElementOfSeq
  <1>3. SubSeq(rs, 1, n) \in Seq(Records)
    <2>1. \A k \in 1 .. n : rs[k] \in Records
      BY <1>1, <1>2
    <2> QED
      BY <1>1, <2>1, SubSeqProperties
  <1>4. SubSeq(rs, n + 1, Len(rs)) \in Seq(Records)
    <2>1. \A k \in n + 1 .. Len(rs) : rs[k] \in Records
      BY <1>1, <1>2
    <2> QED
      BY <1>1, <2>1, SubSeqProperties
  <1>5. SubSeq(rs, 1, n) \o SubSeq(rs, n + 1, Len(rs)) = rs
    <2>1. 1 \in 1 .. Len(rs) + 1 /\ n \in 1 - 1 .. Len(rs) /\ Len(rs) \in n .. Len(rs)
      BY <1>1
    <2>2. SubSeq(rs, 1, n) \o SubSeq(rs, n + 1, Len(rs)) = SubSeq(rs, 1, Len(rs))
      BY <2>1, ConcatAdjacentSubSeq
    <2> QED
      BY <2>2, SubSeqFull
  <1> QED
    BY <1>3, <1>4, <1>5, FramesConcat

\* What is behind the first of two sequences is the second.
LEMMA BackOfConcat ==
    ASSUME NEW V, NEW x \in Seq(V), NEW y \in Seq(V)
    PROVE  SubSeq(x \o y, Len(x) + 1, Len(x) + Len(y)) = y
  <1>1. Len(x) \in Nat /\ Len(y) \in Nat
    BY LenProperties
  <1>2. CASE Len(y) = 0
    <2>1. y = <<>> /\ Len(x) + Len(y) < Len(x) + 1
      BY <1>1, <1>2
    <2> QED
      BY <1>1, <2>1, SubSeqEmpty
  <1>3. CASE Len(y) # 0
    <2>1. /\ Len(x) + 1 \in Len(x) + 1 .. Len(x) + Len(y)
          /\ Len(x) + Len(y) \in Len(x) + 1 .. Len(x) + Len(y)
          /\ (Len(x) + 1) - Len(x) = 1 /\ (Len(x) + Len(y)) - Len(x) = Len(y)
      BY <1>1, <1>3
    <2>2. SubSeq(x \o y, Len(x) + 1, Len(x) + Len(y)) = SubSeq(y, 1, Len(y))
      BY <2>1, SubSeqOfConcat2
    <2> QED
      BY <2>2, SubSeqFull
  <1> QED
    BY <1>2, <1>3

-----------------------------------------------------------------------------
(* The invariant *)

Types ==
    /\ data \in [Slots -> Byte]
    /\ in \in Index /\ out \in Index /\ rin \in Index
    /\ wleft \subseteq 1 .. Len(wbuf) /\ rleft \subseteq 1 .. Len(rbuf)
    /\ rop \in {"idle", "out", "peek", "reset"}
    /\ rn \in 0 .. MaxRec
    /\ rbuf \in Seq(Byte) /\ Len(rbuf) <= MaxRead
    /\ recs \in Seq(Records) /\ rseen \in Nat

\* The committed bytes are the records.
Committed == Contents(data, in, out) = Frames(recs)

\* A write in progress is a record that fits, and what is stored of it is where
\* a reader will look.
Staged ==
    /\ Used(in, out) + Len(wbuf) <= Size
    /\ wbuf = <<>> \/ \E rec \in Records : wbuf = Framed(rec)
    /\ \A p \in (1 .. Len(wbuf)) \ wleft : data[RingSlot(in, p)] = wbuf[p]

\* A read in progress is of the oldest record.
Reading ==
    /\ rop \in {"idle", "reset"} => rbuf = <<>>
    /\ rop \in {"out", "peek"} =>
        /\ recs # <<>> /\ rn = Len(recs[1]) /\ Len(rbuf) <= rn
        /\ \A p \in (1 .. Len(rbuf)) \ rleft : rbuf[p] = recs[1][p]

\* The `in` that pfifo_reset_out has loaded is the end of a record.
Resetting == rop = "reset" =>
    rseen <= Len(recs) /\ Used(rin, out) = Len(Frames(SubSeq(recs, 1, rseen)))

Inv == Types /\ Committed /\ Staged /\ Reading /\ Resetting

-----------------------------------------------------------------------------
(* What the reader finds *)

\* The committed bytes, one by one.
LEMMA CommittedIs ==
    ASSUME RecAssumption, Tellable, Types, Committed
    PROVE  /\ Frames(recs) \in Seq(Byte) /\ Len(Frames(recs)) = Used(in, out)
           /\ Used(in, out) \in Nat
           /\ \A p \in 1 .. Used(in, out) : Frames(recs)[p] = data[RingSlot(out, p)]
  <1>1. data \in [Slots -> Byte] /\ in \in Index /\ out \in Index
    BY DEF Types
  <1>2. /\ Contents(data, in, out) \in Seq(Byte)
        /\ Len(Contents(data, in, out)) = Used(in, out)
        /\ \A p \in 1 .. Used(in, out) : Contents(data, in, out)[p] = data[RingSlot(out, p)]
    BY <1>1, ContentsIsSeq
  <1>3. Used(in, out) \in Nat
    BY <1>2, LenProperties
  <1> QED
    BY <1>2, <1>3 DEF Committed

\* A fifo that is not empty has a record.
LEMMA HasRecord ==
    ASSUME RecAssumption, Tellable, Types, Committed, ~IsEmpty(in, out)
    PROVE  recs # <<>>
  <1> SUFFICES ASSUME recs = <<>> PROVE FALSE
    OBVIOUS
  <1>1. Len(Frames(recs)) = 0
    BY FramesEmpty
  <1>2. Used(in, out) = 0
    BY <1>1, CommittedIs
  <1>3. in \in Index /\ out \in Index
    BY DEF Types
  <1>4. Used(in, out) = IF out <= in THEN in - out ELSE in - out + Wrap
    BY <1>3, UsedIs
  <1> QED
    BY <1>2, <1>3, <1>4, WrapAssumption, SMT DEF Index, IsEmpty

\* The oldest record is at `out`, behind its own length.
LEMMA FirstRecord ==
    ASSUME RecAssumption, Tellable, Types, Committed, recs # <<>>
    PROVE  /\ recs[1] \in Records /\ Len(recs) \in Nat \ {0}
           /\ Len(recs[1]) \in Nat /\ Len(recs[1]) <= MaxRec
           /\ PeekN = Len(recs[1])
           /\ Len(recs[1]) + RecSize <= Used(in, out)
           /\ Len(Frames(SubSeq(recs, 1, 1))) = Len(recs[1]) + RecSize
           /\ \A p \in 1 .. Len(recs[1]) : data[RingSlot(out, RecSize + p)] = recs[1][p]
  <1> DEFINE r == recs[1]  y == Frames(SubSeq(recs, 1 + 1, Len(recs)))
  <1>1. recs \in Seq(Records) /\ Len(recs) \in Nat \ {0} /\ 1 \in 1 .. Len(recs)
    BY EmptySeq DEF Types
  <1>2. r \in Records
    BY <1>1, ElementOfSeq
  <1>3. SubSeq(recs, 1, 1) = <<r>>
    <2>1. SubSeq(recs, 1, 1) = SubSeq(recs, 1, 1 - 1) \o <<recs[1]>>
      BY <1>1, SubSeqRecursiveSecond
    <2>2. SubSeq(recs, 1, 1 - 1) = <<>>
      BY SubSeqEmpty
    <2>3. <<r>> \in Seq(Records)
      BY <1>2
    <2> QED
      BY <2>1, <2>2, <2>3, ConcatEmptySeq
  <1>4. Frames(recs) = Framed(r) \o y /\ y \in Seq(Byte)
    <2>1. 1 \in 0 .. Len(recs)
      BY <1>1
    <2>2. /\ Frames(recs) = Frames(SubSeq(recs, 1, 1)) \o y
          /\ SubSeq(recs, 1 + 1, Len(recs)) \in Seq(Records)
      BY <1>1, <2>1, FramesSplit
    <2>3. y \in Seq(Byte)
      BY <2>2, FramesOfIs
    <2> QED
      BY <1>2, <1>3, <2>2, <2>3, FramesOne
  <1>5. /\ r \in Seq(Byte) /\ Len(r) \in Nat /\ Len(r) <= MaxRec
        /\ Framed(r) \in Seq(Byte) /\ Len(Framed(r)) = RecSize + Len(r)
        /\ \A p \in 1 .. RecSize : Framed(r)[p] = LengthBytes(Len(r))[p]
        /\ \A p \in 1 .. Len(r) : Framed(r)[RecSize + p] = r[p]
    BY <1>2, FramedIs, LenProperties
  <1>6. Len(Frames(SubSeq(recs, 1, 1))) = Len(r) + RecSize
    <2>1. Frames(SubSeq(recs, 1, 1)) = Framed(r)
      BY <1>2, <1>3, FramesOne
    <2> QED
      BY <1>5, <2>1, ConstantsAre
  <1> HIDE DEF r, y
  <1>7. PICK l \in Nat, s \in Nat, u \in Nat, m \in Nat :
            l = Len(r) /\ s = RecSize /\ u = Used(in, out) /\ m = Len(y)
    BY <1>4, <1>5, CommittedIs, ConstantsAre, LenProperties
  <1>8. /\ Len(Framed(r) \o y) = (s + l) + m
        /\ \A p \in 1 .. (s + l) + m : (Framed(r) \o y)[p] =
              IF p <= s + l THEN Framed(r)[p] ELSE y[p - (s + l)]
    BY <1>4, <1>5, <1>7, ConcatProperties
  <1>9. u = (s + l) + m /\ \A p \in 1 .. u : (Framed(r) \o y)[p] = data[RingSlot(out, p)]
    BY <1>4, <1>7, <1>8, CommittedIs
  <1>10. \A p \in 1 .. s + l : data[RingSlot(out, p)] = Framed(r)[p]
    <2> TAKE p \in 1 .. s + l
    <2>1. p \in 1 .. u /\ p \in 1 .. (s + l) + m /\ p <= s + l
      BY <1>7, <1>9
    <2> QED
      BY <1>8, <1>9, <2>1
  <1>11. PeekN = Len(r)
    <2>1. out \in Int
      BY WrapAssumption, SMT DEF Types, Index
    <2>2. RingSlot(out, 1) = Masked(out) /\ RingSlot(out, 2) = Masked(out + 1)
      <3>1. out + (1 - 1) = out /\ out + (2 - 1) = out + 1
        BY <2>1
      <3> QED
        BY <3>1 DEF RingSlot, Masked
    <2>3. /\ s \in {1, 2} /\ 1 \in 1 .. s + l /\ 1 \in 1 .. s
          /\ (s > 1 => 2 \in 1 .. s + l /\ 2 \in 1 .. s)
      BY <1>7, ConstantsAre
    <2>4. /\ data[Masked(out)] = LengthBytes(l)[1]
          /\ s > 1 => data[Masked(out + 1)] = LengthBytes(l)[2]
      BY <1>5, <1>7, <1>10, <2>2, <2>3
    <2>5. l = LengthBytes(l)[1] + (IF s > 1 THEN Base * LengthBytes(l)[2] ELSE 0)
      BY <1>5, <1>7, LengthDigits
    <2> QED
      BY <1>7, <2>4, <2>5 DEF PeekN
  <1>12. \A p \in 1 .. l : data[RingSlot(out, s + p)] = r[p]
    <2> TAKE p \in 1 .. l
    <2>1. s + p \in 1 .. s + l
      BY <1>7
    <2> QED
      BY <1>5, <1>7, <1>10, <2>1
  <1>13. l + s <= u
    BY <1>7, <1>9
  <1> QED
    BY <1>1, <1>2, <1>5, <1>6, <1>7, <1>11, <1>12, <1>13 DEF r

\* Moving `out` behind the first n records removes them.
LEMMA RecordsDropped ==
    ASSUME RecAssumption, Tellable, Types, Committed, NEW n \in 0 .. Len(recs), NEW o \in Index,
           NEW l, l = Len(Frames(SubSeq(recs, 1, n))),
           Used(in, o) = Used(in, out) - l,
           \A p \in Int : RingSlot(o, p) = RingSlot(out, l + p)
    PROVE  /\ l \in 0 .. Used(in, out)
           /\ SubSeq(recs, n + 1, Len(recs)) \in Seq(Records)
           /\ Contents(data, in, o) = Frames(SubSeq(recs, n + 1, Len(recs)))
  <1> DEFINE x == Frames(SubSeq(recs, 1, n))  y == Frames(SubSeq(recs, n + 1, Len(recs)))
  <1>1. recs \in Seq(Records) /\ data \in [Slots -> Byte] /\ in \in Index /\ out \in Index
    BY DEF Types
  <1>2. /\ Frames(recs) = x \o y
        /\ SubSeq(recs, 1, n) \in Seq(Records) /\ SubSeq(recs, n + 1, Len(recs)) \in Seq(Records)
    BY <1>1, FramesSplit
  <1>3. x \in Seq(Byte) /\ y \in Seq(Byte)
    BY <1>2, FramesOfIs
  <1>c. /\ Len(Frames(recs)) = Used(in, out) /\ Used(in, out) \in Nat
        /\ Contents(data, in, out) = Frames(recs)
    BY CommittedIs DEF Committed
  <1>l. l = Len(x)
    OBVIOUS
  <1>o. \A p \in Int : RingSlot(o, p) = RingSlot(out, l + p)
    OBVIOUS
  <1> HIDE DEF x, y
  <1>4. Len(x \o y) = Len(x) + Len(y) /\ Len(x) \in Nat /\ Len(y) \in Nat
    BY <1>3, ConcatProperties, LenProperties
  <1>5. PICK u \in Nat, k \in Nat, m \in Nat :
            u = Used(in, out) /\ k = l /\ m = Len(y) /\ u = k + m
    BY <1>2, <1>4, <1>c, <1>l
  <1>6. k \in 0 .. u
    BY <1>5
  <1>7. Contents(data, in, o) = SubSeq(Contents(data, in, out), k + 1, u)
    <2>1. /\ k \in 0 .. Used(in, out) /\ Used(in, o) = Used(in, out) - k
          /\ \A p \in 1 .. Used(in, out) - k : RingSlot(o, p) = RingSlot(out, k + p)
      BY <1>5, <1>6, <1>o
    <2>2. Contents(data, in, o) = SubSeq(Contents(data, in, out), k + 1, Used(in, out))
      BY <1>1, <2>1, ContentsDropped
    <2> QED
      BY <1>5, <2>2
  <1>8. SubSeq(x \o y, k + 1, u) = y
    BY <1>3, <1>5, <1>l, BackOfConcat
  <1> QED
    BY <1>2, <1>5, <1>6, <1>7, <1>8, <1>c DEF y

-----------------------------------------------------------------------------
(* The invariant is inductive: the writer *)

LEMMA InvInit ==
    ASSUME RecAssumption, Tellable, Init
    PROVE  Inv
  <1>0. Base \in Nat /\ Base >= 2 /\ MaxRec \in Nat /\ MaxRead \in Nat /\ 0 \in Byte
    BY ConstantsAre DEF Byte
  <1>1. 0 \in Index
    BY WrapAssumption, SizeAssumption, SMT DEF Index
  <1>2. Used(in, out) = 0
    BY <1>1, UsedIs, SMT DEF Init
  <1>e. <<>> \in Seq(Byte) /\ <<>> \in Seq(Records) /\ Len(<<>>) = 0
    OBVIOUS
  <1>3. data \in [Slots -> Byte] /\ data = [s \in Slots |-> 0]
    BY <1>0 DEF Init
  <1>4. Types
    BY <1>0, <1>1, <1>3, <1>e DEF Init, Types
  <1>5. Committed
    <2>1. Contents(data, in, out) \in Seq(Byte) /\ Len(Contents(data, in, out)) = 0
      BY <1>1, <1>2, <1>3, ContentsIsSeq DEF Init
    <2>2. Contents(data, in, out) = <<>>
      BY <2>1
    <2> QED
      BY <2>2, FramesEmpty DEF Committed, Init
  <1>6. Staged
    BY <1>2, <1>e, SizeAssumption DEF Init, Staged
  <1> QED
    BY <1>4, <1>5, <1>6 DEF Inv, Init, Reading, Resetting

\* What Inv says of the indices and the sizes.
LEMMA InvFacts ==
    ASSUME RecAssumption, Tellable, Inv
    PROVE  /\ in \in Index /\ out \in Index /\ rin \in Index
           /\ in \in Int /\ out \in Int
           /\ Used(in, out) \in 0 .. Size /\ Used(in, out) \in Nat
           /\ Size \in Nat /\ RecSize \in Nat /\ RecSize >= 1
           /\ wbuf \in Seq(Byte) /\ Len(wbuf) \in Nat /\ Len(wbuf) <= Size
           /\ Unused(in, out) = Size - Used(in, out)
  <1>1. in \in Index /\ out \in Index /\ rin \in Index
    BY DEF Inv, Types
  <1>2. in \in Int /\ out \in Int
    BY <1>1, WrapAssumption, SMT DEF Index
  <1>3. wbuf \in Seq(Byte) /\ Len(wbuf) \in Nat
    <2>1. CASE wbuf = <<>>
      BY <2>1, EmptySeq
    <2>2. ASSUME NEW rec \in Records, wbuf = Framed(rec) PROVE wbuf \in Seq(Byte)
      BY <2>2, FramedIs
    <2>3. wbuf \in Seq(Byte)
      BY <2>1, <2>2, EmptySeq DEF Inv, Staged
    <2> QED
      BY <2>3, LenProperties
  <1>4. Used(in, out) \in Nat /\ Used(in, out) + Len(wbuf) <= Size /\ Size \in Nat
    BY <1>1, UsedIs, SizeAssumption, WrapAssumption, SMT DEF Inv, Staged
  <1>5. PICK u \in Nat, l \in Nat : u = Used(in, out) /\ l = Len(wbuf)
    BY <1>3, <1>4
  <1>6. u <= Size /\ l <= Size
    BY <1>4, <1>5
  <1>7. Unused(in, out) = Size - Used(in, out)
    BY <1>1, <1>5, <1>6, UnusedIs
  <1>8. Used(in, out) \in 0 .. Size /\ Len(wbuf) <= Size
    <2>1. u \in 0 .. Size
      BY <1>4, <1>6
    <2> QED
      BY <2>1, <1>5, <1>6, Zenon
  <1>9. RecSize \in Nat /\ RecSize >= 1
    BY ConstantsAre
  <1> QED
    BY <1>1, <1>2, <1>3, <1>4, <1>7, <1>8, <1>9, Zenon

LEMMA InvInRBegin ==
    ASSUME RecAssumption, Tellable, Inv, NEW rec \in Records, InRBegin(rec)
    PROVE  Inv'
  <1>1. /\ Len(rec) + RecSize <= Size - Used(in, out)
        /\ wbuf' = Framed(rec) /\ wleft' = 1 .. RecSize + Len(rec)
        /\ UNCHANGED <<data, in, out, reader, recs>>
    BY InvFacts DEF InRBegin, Framed
  <1>2. Len(wbuf') = RecSize + Len(rec) /\ Len(rec) \in Nat
    BY <1>1, FramedIs, LenProperties
  <1>3. Types'
    BY <1>1, <1>2 DEF Inv, Types, reader
  <1>4. Staged'
    <2>1. PICK u \in Nat, l \in Nat : u = Used(in, out) /\ l = Len(rec)
      BY <1>2, InvFacts
    <2>2. Used(in', out') + Len(wbuf') <= Size
      BY <1>1, <1>2, <2>1, InvFacts
    <2> QED
      BY <1>1, <1>2, <2>2 DEF Staged
  <1> QED
    BY <1>1, <1>3, <1>4 DEF Inv, Committed, Reading, Resetting, reader

\* Every byte of the record goes where a reader will look for it.
LEMMA StoreSlotIs ==
    ASSUME RecAssumption, Tellable, Inv, NEW p \in 1 .. Len(wbuf)
    PROVE  StoreSlot(p) = RingSlot(in, p) /\ p \in 1 .. Size /\ RingSlot(in, p) \in Slots
  <1>1. p \in 1 .. Size /\ p \in Int
    BY InvFacts
  <1>2. RingSlot(in, p) \in Slots
    BY <1>1, InvFacts, RingSlotType
  <1>3. CASE p <= RecSize
    BY <1>1, <1>2, <1>3 DEF StoreSlot, RingSlot, Masked
  <1>4. CASE ~(p <= RecSize)
    <2> DEFINE l == Len(wbuf) - RecSize  q == p - RecSize
    <2>1. l \in 0 .. Size /\ q \in 1 .. l /\ RecSize \in 0 .. Size /\ q \in Int /\ RecSize + q = p
      BY <1>1, <1>4, InvFacts
    <2>2. Advance(in, RecSize) \in Index
      BY <2>1, InvFacts, AdvanceIs
    <2>3. Slot(l, Advance(in, RecSize), q) = RingSlot(Advance(in, RecSize), q)
      BY <2>1, <2>2, SlotIsRingSlot
    <2>4. RingSlot(Advance(in, RecSize), q) = RingSlot(in, RecSize + q)
      BY <2>1, InvFacts, RingSlotAdvance
    <2>5. StoreSlot(p) = Slot(l, Advance(in, RecSize), q)
      BY <1>4 DEF StoreSlot
    <2> QED
      BY <1>1, <1>2, <2>1, <2>3, <2>4, <2>5
  <1> QED
    BY <1>1, <1>2, <1>3, <1>4

LEMMA InvStoreByte ==
    ASSUME RecAssumption, Tellable, Inv, NEW p \in wleft, StoreByte(p)
    PROVE  Inv'
  <1>0. p \in 1 .. Len(wbuf) /\ wleft \subseteq 1 .. Len(wbuf)
    BY DEF Inv, Types
  <1>1. /\ data' = [data EXCEPT ![RingSlot(in, p)] = wbuf[p]]
        /\ wleft' = wleft \ {p}
        /\ UNCHANGED <<in, out, wbuf, reader, recs>>
    BY <1>0, StoreSlotIs DEF StoreByte
  <1>2. RingSlot(in, p) \in Slots /\ data \in [Slots -> Byte] /\ wbuf[p] \in Byte
    BY <1>0, StoreSlotIs, InvFacts, ElementOfSeq DEF Inv, Types
  <1>3. Types'
    BY <1>1, <1>2 DEF Inv, Types, reader
  <1>4. Committed'
    <2>1. p \in Nat \ {0} /\ Used(in, out) + p <= Size
      <3>1. PICK u \in Nat, l \in Nat : u = Used(in, out) /\ l = Len(wbuf) /\ u + l <= Size
        BY InvFacts DEF Inv, Staged
      <3> QED
        BY <1>0, <3>1, InvFacts
    <2>2. in \in Index /\ out \in Index /\ data \in [Slots -> Byte]
      BY <1>2, InvFacts
    <2>3. Contents([data EXCEPT ![RingSlot(in, p)] = wbuf[p]], in, out) = Contents(data, in, out)
      <3>1. PICK k \in Nat \ {0} : k = p
        BY <2>1
      <3>2. Used(in, out) + k <= Size
        BY <2>1, <3>1
      <3>3. \A v : Contents([data EXCEPT ![RingSlot(in, k)] = v], in, out) = Contents(data, in, out)
        BY <2>2, <3>2, ContentsSpared
      <3> QED
        BY <3>1, <3>3
    <2>4. Contents(data', in, out) = Contents(data, in, out)
      BY <1>1, <2>3
    <2> QED
      BY <1>1, <2>4 DEF Inv, Committed
  <1>5. Staged'
    <2> SUFFICES ASSUME NEW q \in (1 .. Len(wbuf)) \ (wleft \ {p})
                 PROVE  data'[RingSlot(in, q)] = wbuf[q]
      BY <1>1 DEF Inv, Staged
    <2>1. CASE q = p
      BY <1>1, <1>2, <2>1
    <2>2. CASE q # p
      <3>1. data[RingSlot(in, q)] = wbuf[q]
        BY <2>2 DEF Inv, Staged
      <3>2. /\ RingSlot(in, q) \in Slots /\ q \in 1 .. Size /\ p \in 1 .. Size
        BY <1>0, StoreSlotIs
      <3>3. RingSlot(in, q) # RingSlot(in, p)
        BY <2>2, <3>2, InvFacts, RingSlotInjective
      <3> QED
        BY <1>1, <1>2, <3>1, <3>2, <3>3
    <2> QED
      BY <2>1, <2>2
  <1> QED
    BY <1>1, <1>3, <1>4, <1>5 DEF Inv, Reading, Resetting, reader

\* A record that is published is the newest one.
LEMMA InvInRCommit ==
    ASSUME RecAssumption, Tellable, Inv, InRCommit
    PROVE  /\ Inv'
           /\ \E rec \in Records : recs' = Append(recs, rec)
  <1>1. /\ wbuf # <<>> /\ wleft = {} /\ in' = Advance(in, Len(wbuf))
        /\ recs' = Append(recs, SubSeq(wbuf, RecSize + 1, Len(wbuf)))
        /\ wbuf' = <<>> /\ UNCHANGED <<data, out, wleft, reader>>
    BY DEF InRCommit
  <1>2. PICK rec \in Records : wbuf = Framed(rec)
    BY <1>1 DEF Inv, Staged
  <1>3. SubSeq(wbuf, RecSize + 1, Len(wbuf)) = rec
    <2>1. Len(rec) \in Nat /\ rec \in Seq(Byte) /\ Len(rec) <= MaxRec /\ Len(wbuf) = RecSize + Len(rec)
      BY <1>2, FramedIs, LenProperties
    <2> DEFINE b == LengthBytes(Len(rec))
    <2>2. b \in Seq(Byte) /\ Len(b) = RecSize
      BY <2>1, LengthDigits, ConstantsAre, FunctionIsSeq
    <2>3. wbuf = b \o rec
      BY <1>2 DEF Framed
    <2> HIDE DEF b
    <2>4. SubSeq(b \o rec, Len(b) + 1, Len(b) + Len(rec)) = rec
      BY <2>1, <2>2, BackOfConcat
    <2> QED
      BY <2>1, <2>2, <2>3, <2>4
  <1>4. recs' = Append(recs, rec) /\ recs \in Seq(Records)
    BY <1>1, <1>3 DEF Inv, Types
  <1>5. /\ recs' \in Seq(Records) /\ Len(recs') = Len(recs) + 1 /\ Len(recs) \in Nat
        /\ \A k \in 1 .. Len(recs) : recs'[k] = recs[k]
    BY <1>4, AppendProperties, LenProperties
  <1>6. \A p \in 1 .. Len(wbuf) : data[RingSlot(in, p)] = wbuf[p]
    BY <1>1 DEF Inv, Staged
  <1>7. /\ Used(in', out) = Used(in, out) + Len(wbuf)
        /\ Contents(data, in', out) = Contents(data, in, out) \o wbuf
    <2>1. /\ data \in [Slots -> Byte] /\ in \in Index /\ out \in Index /\ wbuf \in Seq(Byte)
          /\ Used(in, out) + Len(wbuf) <= Size
      BY InvFacts DEF Inv, Types, Staged
    <2>2. /\ Used(Advance(in, Len(wbuf)), out) = Used(in, out) + Len(wbuf)
          /\ Contents(data, Advance(in, Len(wbuf)), out) = Contents(data, in, out) \o wbuf
      BY <1>6, <2>1, ContentsAppended
    <2> QED
      BY <1>1, <2>2
  <1>8. in' \in Index
    <2>1. Len(wbuf) \in 0 .. Size
      BY InvFacts
    <2> QED
      BY <1>1, <2>1, InvFacts, AdvanceIs
  <1>9. Types'
    BY <1>1, <1>5, <1>8 DEF Inv, Types, reader
  <1>10. Committed'
    <2>1. recs' = recs \o <<rec>>
      BY <1>4, AppendIsConcat
    <2>2. <<rec>> \in Seq(Records) /\ Frames(<<rec>>) = wbuf
      BY <1>2, FramesOne
    <2>3. Frames(recs') = Frames(recs) \o wbuf
      BY <1>4, <2>1, <2>2, FramesConcat
    <2> QED
      BY <1>1, <1>7, <2>3 DEF Inv, Committed
  <1>11. Staged'
    <2>1. Len(wbuf') = 0
      BY <1>1
    <2>2. Used(in', out') + 0 <= Size
      BY <1>1, <1>7, InvFacts DEF Inv, Staged
    <2> QED
      BY <1>1, <2>1, <2>2 DEF Staged
  <1>12. Reading'
    <2>1. recs # <<>> => recs' # <<>> /\ recs'[1] = recs[1]
      BY <1>4, <1>5, EmptySeq
    <2> QED
      BY <1>1, <2>1 DEF Inv, Reading, reader
  <1>13. Resetting'
    <2> SUFFICES ASSUME rop = "reset"
                 PROVE  /\ rseen <= Len(recs')
                        /\ Used(rin, out) = Len(Frames(SubSeq(recs', 1, rseen)))
      BY <1>1 DEF Resetting, reader
    <2>1. /\ rseen \in Nat /\ rseen <= Len(recs)
          /\ Used(rin, out) = Len(Frames(SubSeq(recs, 1, rseen)))
      BY DEF Inv, Types, Resetting
    <2>2. SubSeq(recs', 1, rseen) = SubSeq(recs, 1, rseen)
      BY <1>5, <2>1
    <2>3. rseen <= Len(recs')
      BY <1>5, <2>1
    <2> QED
      BY <2>1, <2>2, <2>3, Zenon
  <1> QED
    BY <1>4, <1>9, <1>10, <1>11, <1>12, <1>13 DEF Inv

-----------------------------------------------------------------------------
(* The invariant is inductive: the reader *)

LEMMA InvOutRBegin ==
    ASSUME RecAssumption, Tellable, Inv, NEW op \in {"out", "peek"}, NEW n \in 0 .. MaxRead,
           OutRBegin(op, n)
    PROVE  Inv'
  <1> DEFINE m == MinOf(n, PeekN)
  <1>1. /\ rop = "idle" /\ rop' = op /\ rn' = PeekN
        /\ rbuf' = [p \in 1 .. m |-> 0] /\ rleft' = 1 .. m
        /\ ~IsEmpty(in, out)
        /\ UNCHANGED <<data, in, out, writer, rin, got, rseen, recs>>
    BY DEF OutRBegin
  <1>2. Types /\ Committed
    BY DEF Inv
  <1>3. recs # <<>>
    BY <1>1, <1>2, HasRecord
  <1>4. PeekN = Len(recs[1]) /\ PeekN \in Nat /\ PeekN <= MaxRec
    BY <1>2, <1>3, FirstRecord
  <1>5. m \in Nat /\ m <= PeekN /\ m <= MaxRead
    BY <1>4, ConstantsAre DEF MinOf
  <1> HIDE DEF m
  <1>6. rbuf' \in Seq(Byte) /\ Len(rbuf') = m
    <2>1. 0 \in Byte
      BY ConstantsAre DEF Byte
    <2>2. rbuf' \in [1 .. m -> Byte]
      BY <1>1, <2>1
    <2> QED
      BY <1>5, <2>2, FunctionIsSeq
  <1>7. Types'
    <2>1. rn' \in 0 .. MaxRec
      BY <1>1, <1>4, ConstantsAre
    <2> QED
      BY <1>1, <1>2, <1>5, <1>6, <2>1 DEF Types, writer
  <1>8. Committed' /\ Staged'
    BY <1>1 DEF Inv, Committed, Staged, writer
  <1>9. Reading' /\ Resetting'
    BY <1>1, <1>3, <1>4, <1>5, <1>6 DEF Reading, Resetting
  <1> QED
    BY <1>7, <1>8, <1>9 DEF Inv

LEMMA InvLoadByte ==
    ASSUME RecAssumption, Tellable, Inv, NEW p \in rleft, LoadByte(p)
    PROVE  Inv'
  <1>1. /\ rbuf' = [rbuf EXCEPT ![p] = data[LoadSlot(p)]] /\ rleft' = rleft \ {p}
        /\ UNCHANGED <<data, in, out, writer, rop, rn, rin, got, rseen, recs>>
    BY DEF LoadByte
  <1>2. /\ Types /\ Committed /\ p \in 1 .. Len(rbuf) /\ rleft \subseteq 1 .. Len(rbuf)
        /\ rbuf \in Seq(Byte) /\ Len(rbuf) \in Nat
    BY LenProperties DEF Inv, Types
  <1>3. rop \in {"out", "peek"}
    <2>1. rbuf # <<>>
      BY <1>2
    <2> QED
      BY <2>1 DEF Inv, Types, Reading
  <1>4. recs # <<>> /\ rn = Len(recs[1]) /\ Len(rbuf) <= rn
    BY <1>3 DEF Inv, Reading
  <1>5. /\ Len(recs[1]) \in Nat /\ Len(recs[1]) + RecSize <= Used(in, out)
        /\ \A k \in 1 .. Len(recs[1]) : data[RingSlot(out, RecSize + k)] = recs[1][k]
    BY <1>2, <1>4, FirstRecord
  <1>6. p \in 1 .. Len(recs[1]) /\ p \in Int /\ Len(rbuf) \in 0 .. Size /\ RecSize \in 0 .. Size
    <2>1. PICK u \in Nat, l \in Nat : u = Used(in, out) /\ l = Len(recs[1]) /\ u <= Size
      BY <1>5, InvFacts
    <2> QED
      BY <1>2, <1>4, <1>5, <2>1, InvFacts, SMTT(60)
  <1>7. LoadSlot(p) = RingSlot(out, RecSize + p)
    <2>1. Advance(out, RecSize) \in Index
      BY <1>6, InvFacts, AdvanceIs
    <2>2. Slot(Len(rbuf), Advance(out, RecSize), p) = RingSlot(Advance(out, RecSize), p)
      BY <1>2, <1>6, <2>1, SlotIsRingSlot
    <2>3. RingSlot(Advance(out, RecSize), p) = RingSlot(out, RecSize + p)
      BY <1>6, InvFacts, RingSlotAdvance
    <2> QED
      BY <2>2, <2>3 DEF LoadSlot
  <1>8. rbuf' = [rbuf EXCEPT ![p] = recs[1][p]]
    BY <1>1, <1>5, <1>6, <1>7
  <1>9. recs[1][p] \in Byte
    <2>1. recs[1] \in Records
      BY <1>2, <1>4, FirstRecord
    <2>2. recs[1] \in Seq(Byte)
      BY <2>1, FramedIs
    <2> QED
      BY <1>6, <2>2, ElementOfSeq
  <1>10. rbuf' \in Seq(Byte) /\ Len(rbuf') = Len(rbuf)
         /\ \A q \in 1 .. Len(rbuf) : rbuf'[q] = IF q = p THEN recs[1][p] ELSE rbuf[q]
    BY <1>2, <1>8, <1>9, ExceptSeq
  <1>11. Types'
    BY <1>1, <1>2, <1>10 DEF Types, writer
  <1>12. Committed' /\ Staged' /\ Resetting'
    BY <1>1 DEF Inv, Committed, Staged, Resetting, writer
  <1>13. Reading'
    <2>1. \A q \in (1 .. Len(rbuf)) \ rleft : rbuf[q] = recs[1][q]
      BY <1>3 DEF Inv, Reading
    <2>2. \A q \in (1 .. Len(rbuf)) \ (rleft \ {p}) : rbuf'[q] = recs[1][q]
      BY <1>10, <2>1
    <2> QED
      BY <1>1, <1>3, <1>4, <1>10, <2>2 DEF Reading
  <1> QED
    BY <1>11, <1>12, <1>13 DEF Inv

\* A reader that moves `out` and has no read in progress afterwards.
LEMMA InvMoveOut ==
    ASSUME RecAssumption, Tellable, Inv, NEW n \in 0 .. Len(recs),
           out' \in Index,
           Used(in, out') = Used(in, out) - Len(Frames(SubSeq(recs, 1, n))),
           \A p \in Int : RingSlot(out', p) = RingSlot(out, Len(Frames(SubSeq(recs, 1, n))) + p),
           UNCHANGED <<data, in, writer>>, recs' = SubSeq(recs, n + 1, Len(recs)),
           rop' = "idle", rbuf' = <<>>, rleft' = {}, rn' \in 0 .. MaxRec,
           rin' \in Index, rseen' \in Nat
    PROVE  Inv'
  <1>1. Types /\ Committed
    BY DEF Inv
  <1>2. PICK l : l = Len(Frames(SubSeq(recs, 1, n)))
    OBVIOUS
  <1>3. /\ Used(in, out') = Used(in, out) - l
        /\ \A p \in Int : RingSlot(out', p) = RingSlot(out, l + p)
    BY <1>2
  <1>o. PICK o \in Index : o = out'
    OBVIOUS
  <1>4. /\ l \in 0 .. Used(in, out)
        /\ SubSeq(recs, n + 1, Len(recs)) \in Seq(Records)
        /\ Contents(data, in, o) = Frames(SubSeq(recs, n + 1, Len(recs)))
    <2>1. Used(in, o) = Used(in, out) - l
      BY <1>3, <1>o
    <2>2. \A p \in Int : RingSlot(o, p) = RingSlot(out, l + p)
      BY <1>3, <1>o
    <2> QED
      BY <1>1, <1>2, <2>1, <2>2, RecordsDropped, ZenonT(60)
  <1>5. <<>> \in Seq(Byte) /\ Len(<<>>) = 0 /\ 1 .. 0 = {} /\ 0 <= MaxRead
    BY ConstantsAre
  <1>6. Types'
    BY <1>1, <1>4, <1>5 DEF Types, writer
  <1>7. Committed'
    BY <1>4, <1>o DEF Committed
  <1>8. Staged'
    <2>1. PICK u \in Nat, w \in Nat : u = Used(in, out) /\ w = Len(wbuf) /\ u + w <= Size
      BY InvFacts DEF Inv, Staged
    <2>2. PICK v \in Int : v = Used(in, out') /\ v = u - l
      BY <1>3, <1>4, <2>1
    <2>5. PICK k \in Nat : k = l /\ k <= u
      BY <1>4, <2>1
    <2>6. v = u - k
      BY <2>2, <2>5
    <2>3. v + w <= Size
      <3>1. u + w <= Size /\ Size \in Nat /\ k <= u
        BY <2>1, <2>5, SizeAssumption
      <3> QED
        BY <2>6, <3>1
    <2>4. Used(in, out') + w <= Size
      BY <2>2, <2>3
    <2> QED
      BY <2>1, <2>4 DEF Inv, Staged, writer
  <1> QED
    BY <1>6, <1>7, <1>8 DEF Inv, Reading, Resetting

\* The oldest record goes as a whole.
LEMMA FirstRecordGoes ==
    ASSUME RecAssumption, Tellable, Inv, recs # <<>>, out' = Advance(out, Len(recs[1]) + RecSize)
    PROVE  /\ 1 \in 0 .. Len(recs) /\ 1 + 1 = 2
           /\ out' \in Index
           /\ Used(in, out') = Used(in, out) - Len(Frames(SubSeq(recs, 1, 1)))
           /\ \A p \in Int :
                 RingSlot(out', p) = RingSlot(out, Len(Frames(SubSeq(recs, 1, 1))) + p)
  <1>1. Types /\ Committed
    BY DEF Inv
  <1>2. /\ Len(recs) \in Nat \ {0} /\ Len(recs[1]) \in Nat
        /\ Len(recs[1]) + RecSize <= Used(in, out)
        /\ Len(Frames(SubSeq(recs, 1, 1))) = Len(recs[1]) + RecSize
    BY <1>1, FirstRecord
  <1>3. PICK l \in Nat : l = Len(recs[1]) + RecSize
    BY <1>2, InvFacts
  <1>4. l \in 0 .. Size /\ l <= Used(in, out)
    <2>1. PICK u \in Nat : u = Used(in, out) /\ u <= Size
      BY InvFacts
    <2> QED
      BY <1>2, <1>3, <2>1, InvFacts
  <1>5. in \in Index /\ out \in Index
    BY InvFacts
  <1>6. Advance(out, l) \in Index
    BY <1>4, <1>5, AdvanceIs
  <1>7. Used(in, Advance(out, l)) = Used(in, out) - l
    BY <1>4, <1>5, UsedAfterOut
  <1>8. \A p \in Int : RingSlot(Advance(out, l), p) = RingSlot(out, l + p)
    BY <1>4, <1>5, RingSlotAdvance
  <1>9. Advance(out, l) = out' /\ Len(Frames(SubSeq(recs, 1, 1))) = l
    BY <1>2, <1>3
  <1>10. 1 \in 0 .. Len(recs)
    BY <1>2
  <1>11. /\ out' \in Index
         /\ Used(in, out') = Used(in, out) - Len(Frames(SubSeq(recs, 1, 1)))
    BY <1>6, <1>7, <1>9
  <1>12. PICK k \in Nat : k = Len(Frames(SubSeq(recs, 1, 1))) /\ k = l
    BY <1>9
  <1>13. \A p \in Int : RingSlot(out', p) = RingSlot(out, k + p)
    BY <1>8, <1>9, <1>12
  <1>14. \A p \in Int :
            RingSlot(out', p) = RingSlot(out, Len(Frames(SubSeq(recs, 1, 1))) + p)
    BY <1>12, <1>13
  <1> QED
    BY <1>10, <1>11, <1>14

LEMMA InvOutRCommit ==
    ASSUME RecAssumption, Tellable, Inv, OutRCommit
    PROVE  Inv'
  <1>1. /\ rop = "out" /\ rleft = {} /\ out' = Advance(out, rn + RecSize)
        /\ recs' = SubSeq(recs, 2, Len(recs))
        /\ rop' = "idle" /\ rn' = 0 /\ rbuf' = <<>>
        /\ UNCHANGED <<data, in, writer, rleft, rin, rseen>>
    BY DEF OutRCommit, FinishRead
  <1>2. recs # <<>> /\ rn = Len(recs[1])
    BY <1>1 DEF Inv, Reading
  <1>3. /\ 1 \in 0 .. Len(recs) /\ 1 + 1 = 2
        /\ out' \in Index
        /\ Used(in, out') = Used(in, out) - Len(Frames(SubSeq(recs, 1, 1)))
        /\ \A p \in Int :
              RingSlot(out', p) = RingSlot(out, Len(Frames(SubSeq(recs, 1, 1))) + p)
    BY <1>1, <1>2, FirstRecordGoes
  <1>4. rn' \in 0 .. MaxRec /\ rin' \in Index /\ rseen' \in Nat /\ rleft' = {}
        /\ recs' = SubSeq(recs, 1 + 1, Len(recs))
    BY <1>1, <1>3, ConstantsAre DEF Inv, Types
  <1> QED
    BY <1>1, <1>3, <1>4, InvMoveOut

LEMMA InvPeekREnd ==
    ASSUME RecAssumption, Tellable, Inv, PeekREnd
    PROVE  Inv'
  <1>1. /\ rop' = "idle" /\ rn' = 0 /\ rbuf' = <<>> /\ rleft = {}
        /\ UNCHANGED <<data, in, out, recs, writer, rleft, rin, rseen>>
    BY DEF PeekREnd, FinishRead
  <1>2. <<>> \in Seq(Byte) /\ Len(<<>>) = 0 /\ 1 .. 0 = {} /\ 0 <= MaxRead /\ 0 \in 0 .. MaxRec
    BY ConstantsAre
  <1>3. Types'
    BY <1>1, <1>2 DEF Inv, Types, writer
  <1> QED
    BY <1>1, <1>3 DEF Inv, Committed, Staged, Reading, Resetting, writer

LEMMA InvSkipR ==
    ASSUME RecAssumption, Tellable, Inv, SkipR
    PROVE  Inv' /\ recs # <<>>
  <1>1. /\ rop = "idle" /\ ~IsEmpty(in, out) /\ out' = Advance(out, PeekN + RecSize)
        /\ recs' = SubSeq(recs, 2, Len(recs))
        /\ UNCHANGED <<data, in, writer, reader>>
    BY DEF SkipR
  <1>2. Types /\ Committed
    BY DEF Inv
  <1>3. recs # <<>>
    BY <1>1, <1>2, HasRecord
  <1>4. PeekN = Len(recs[1])
    BY <1>2, <1>3, FirstRecord
  <1>5. /\ 1 \in 0 .. Len(recs) /\ 1 + 1 = 2
        /\ out' \in Index
        /\ Used(in, out') = Used(in, out) - Len(Frames(SubSeq(recs, 1, 1)))
        /\ \A p \in Int :
              RingSlot(out', p) = RingSlot(out, Len(Frames(SubSeq(recs, 1, 1))) + p)
    BY <1>1, <1>3, <1>4, FirstRecordGoes
  <1>6. rbuf = <<>> /\ rleft = {}
    <2>1. rbuf = <<>>
      BY <1>1 DEF Inv, Reading
    <2>2. Len(rbuf) = 0 /\ 1 .. 0 = {}
      BY <2>1
    <2> QED
      BY <1>2, <2>1, <2>2 DEF Types
  <1>7. /\ rn' \in 0 .. MaxRec /\ rin' \in Index /\ rseen' \in Nat
        /\ rop' = "idle" /\ rbuf' = <<>> /\ rleft' = {}
        /\ recs' = SubSeq(recs, 1 + 1, Len(recs)) /\ UNCHANGED <<data, in, writer>>
    BY <1>1, <1>2, <1>5, <1>6 DEF Types, reader
  <1> QED
    BY <1>3, <1>5, <1>7, InvMoveOut

LEMMA InvResetOutLoad ==
    ASSUME RecAssumption, Tellable, Inv, ResetOutLoad
    PROVE  Inv'
  <1>1. /\ rop = "idle" /\ rop' = "reset" /\ rin' = in /\ rseen' = Len(recs)
        /\ UNCHANGED <<data, in, out, writer, rn, rbuf, rleft, got, recs>>
    BY DEF ResetOutLoad
  <1>2. Types /\ Committed /\ recs \in Seq(Records) /\ Len(recs) \in Nat
    BY LenProperties DEF Inv, Types
  <1>3. Types'
    BY <1>1, <1>2 DEF Types, writer
  <1>4. Resetting'
    <2>1. SubSeq(recs, 1, Len(recs)) = recs
      BY <1>2, SubSeqFull
    <2>2. Used(in, out) = Len(Frames(recs))
      BY <1>2, CommittedIs
    <2>3. SubSeq(recs', 1, rseen') = recs /\ Used(rin', out') = Used(in, out)
      BY <1>1, <2>1
    <2>4. rseen' <= Len(recs')
      BY <1>1, <1>2
    <2>5. Used(rin', out') = Len(Frames(SubSeq(recs', 1, rseen')))
      BY <2>2, <2>3
    <2> QED
      BY <2>4, <2>5 DEF Resetting
  <1> QED
    BY <1>1, <1>3, <1>4 DEF Inv, Committed, Staged, Reading, writer

LEMMA InvResetOutStore ==
    ASSUME RecAssumption, Tellable, Inv, ResetOutStore
    PROVE  Inv' /\ rseen \in 0 .. Len(recs)
  <1>1. /\ rop = "reset" /\ out' = rin /\ recs' = SubSeq(recs, rseen + 1, Len(recs))
        /\ rop' = "idle" /\ rin' = 0 /\ rseen' = 0
        /\ UNCHANGED <<data, in, writer, rn, rbuf, rleft, got>>
    BY DEF ResetOutStore
  <1>2. Types /\ Committed /\ recs \in Seq(Records) /\ Len(recs) \in Nat
    BY LenProperties DEF Inv, Types
  <1>3. rseen \in 0 .. Len(recs) /\ Used(rin, out) = Len(Frames(SubSeq(recs, 1, rseen)))
    BY <1>1, <1>2 DEF Inv, Types, Resetting
  <1>4. Used(rin, out) <= Used(in, out)
    <2>1. /\ Frames(recs) = Frames(SubSeq(recs, 1, rseen))
                              \o Frames(SubSeq(recs, rseen + 1, Len(recs)))
          /\ SubSeq(recs, 1, rseen) \in Seq(Records)
          /\ SubSeq(recs, rseen + 1, Len(recs)) \in Seq(Records)
      BY <1>2, <1>3, FramesSplit
    <2>2. PICK x \in Seq(Byte), y \in Seq(Byte) :
              x = Frames(SubSeq(recs, 1, rseen)) /\ y = Frames(SubSeq(recs, rseen + 1, Len(recs)))
      BY <2>1, FramesOfIs
    <2>3. Len(x \o y) = Len(x) + Len(y) /\ Len(x) \in Nat /\ Len(y) \in Nat
      BY ConcatProperties, LenProperties
    <2>4. Used(in, out) = Len(x \o y)
      BY <1>2, <2>1, <2>2, CommittedIs
    <2>5. PICK j \in Nat, k \in Nat : j = Len(x) /\ k = Len(y) /\ Len(x \o y) = j + k
      BY <2>3
    <2>6. Used(in, out) = j + k /\ Used(rin, out) = j
      BY <1>3, <2>2, <2>4, <2>5
    <2> QED
      BY <2>5, <2>6
  <1>5. /\ Used(in, rin) = Used(in, out) - Used(rin, out)
        /\ \A p \in Int : RingSlot(rin, p) = RingSlot(out, Used(rin, out) + p)
    BY <1>4, InvFacts, IndexBetween
  <1>6. /\ out' \in Index
        /\ Used(in, out') = Used(in, out) - Len(Frames(SubSeq(recs, 1, rseen)))
        /\ \A p \in Int :
              RingSlot(out', p) = RingSlot(out, Len(Frames(SubSeq(recs, 1, rseen))) + p)
    BY <1>1, <1>3, <1>5, InvFacts
  <1>7. rbuf = <<>> /\ rleft = {}
    <2>1. rbuf = <<>>
      BY <1>1 DEF Inv, Reading
    <2>2. Len(rbuf) = 0 /\ 1 .. 0 = {}
      BY <2>1
    <2> QED
      BY <1>2, <2>1, <2>2 DEF Types
  <1>8. 0 \in Index /\ 0 \in Nat
    BY WrapAssumption, SizeAssumption, SMT DEF Index
  <1>9. /\ rn' \in 0 .. MaxRec /\ rin' \in Index /\ rseen' \in Nat
        /\ rop' = "idle" /\ rbuf' = <<>> /\ rleft' = {} /\ UNCHANGED <<data, in, writer>>
    BY <1>1, <1>2, <1>7, <1>8 DEF Types
  <1> QED
    BY <1>1, <1>3, <1>6, <1>9, InvMoveOut

-----------------------------------------------------------------------------
(* Every step, and the theorems *)

LEMMA InvStep ==
    ASSUME RecAssumption, Tellable, Inv, [Next]_vars
    PROVE  Inv'
  <1>1. CASE \E rec \in Records : InRBegin(rec)
    BY <1>1, InvInRBegin
  <1>2. CASE \E p \in wleft : StoreByte(p)
    BY <1>2, InvStoreByte
  <1>3. CASE InRCommit
    BY <1>3, InvInRCommit
  <1>4. CASE \E op \in {"out", "peek"}, n \in 0 .. MaxRead : OutRBegin(op, n)
    BY <1>4, InvOutRBegin
  <1>5. CASE \E p \in rleft : LoadByte(p)
    BY <1>5, InvLoadByte
  <1>6. CASE OutRCommit
    BY <1>6, InvOutRCommit
  <1>7. CASE PeekREnd
    BY <1>7, InvPeekREnd
  <1>8. CASE SkipR
    BY <1>8, InvSkipR
  <1>9. CASE ResetOutLoad
    BY <1>9, InvResetOutLoad
  <1>10. CASE ResetOutStore
    BY <1>10, InvResetOutStore
  <1>11. CASE UNCHANGED vars
    BY <1>11 DEF vars, writer, reader, Inv, Types, Committed, Staged, Reading, Resetting
  <1> QED
    BY <1>1, <1>2, <1>3, <1>4, <1>5, <1>6, <1>7, <1>8, <1>9, <1>10, <1>11 DEF Next

LEMMA InvAlways ==
    ASSUME RecAssumption, Tellable
    PROVE  Spec => []Inv
  <1>1. Init => Inv
    BY InvInit
  <1>2. Inv /\ [Next]_vars => Inv'
    BY InvStep
  <1> QED
    BY <1>1, <1>2, PTL DEF Spec

\* A record fifo keeps its shape: no write runs past the buffer and no read past
\* the caller's, wherever the indices have wrapped to.
THEOREM RecordsTyped ==
    ASSUME RecAssumption, Tellable
    PROVE  Spec => []TypeOK
  <1>1. Inv => TypeOK
    <2> SUFFICES ASSUME Inv PROVE TypeOK
      OBVIOUS
    <2>1. Len(wbuf) <= Size
      BY InvFacts
    <2> QED
      BY <2>1 DEF Inv, Types, TypeOK, Byte
  <1> QED
    BY <1>1, InvAlways, PTL

\* The bytes between out and in are the records that were published and not yet
\* taken, each behind its own length, after any number of steps of both threads.
THEOREM RecordsAreFramed ==
    ASSUME RecAssumption, Tellable
    PROVE  Spec => []Framing
  <1>1. Inv => Framing
    BY DEF Inv, Committed, Framing, Frames, FramesOf
  <1> QED
    BY <1>1, InvAlways, PTL

\* What pfifo_peek_len and __pfifo_out_r find at out is the length of the oldest
\* record, as its writer stored it.
THEOREM LengthIsTold ==
    ASSUME RecAssumption, Tellable
    PROVE  Spec => []PeekIsLength
  <1>1. Inv => PeekIsLength
    BY HasRecord, FirstRecord DEF Inv, PeekIsLength
  <1> QED
    BY <1>1, InvAlways, PTL

-----------------------------------------------------------------------------
(* A fifo of records implements the record queue *)

LEMMA CommitAccepts ==
    ASSUME RecAssumption, Tellable, Inv, InRCommit
    PROVE  Queue!Accept
  <1>1. PICK rec \in Records : recs' = Append(recs, rec)
    BY InvInRCommit
  <1>2. recs \in Seq(Records) /\ UNCHANGED got
    BY DEF Inv, Types, InRCommit, reader
  <1>3. /\ Len(recs') = Len(recs) + 1 /\ Len(recs) \in Nat /\ recs' \in Seq(Records)
        /\ \A k \in 1 .. Len(recs) : recs'[k] = recs[k]
    BY <1>1, <1>2, AppendProperties, LenProperties
  <1>4. SubSeq(recs', 1, Len(recs)) = recs
    <2>1. SubSeq(recs', 1, Len(recs)) \in Seq(Records)
          /\ Len(SubSeq(recs', 1, Len(recs))) = Len(recs)
          /\ \A k \in 1 .. Len(recs) : SubSeq(recs', 1, Len(recs))[k] = recs'[k]
      BY <1>3
    <2> QED
      BY <1>2, <1>3, <2>1, SeqEqual
  <1> QED
    BY <1>2, <1>3, <1>4 DEF Queue!Accept

\* A finished read hands over the oldest record's beginning.
LEMMA ReadDelivers ==
    ASSUME RecAssumption, Tellable, Inv, rop \in {"out", "peek"}, FinishRead
    PROVE  /\ Queue!Deliver
           /\ Tail(recs) = SubSeq(recs, 2, Len(recs))
  <1>1. rleft = {} /\ got' = rbuf /\ rbuf \in Seq(Byte) /\ recs \in Seq(Records)
    BY DEF FinishRead, Inv, Types
  <1>2. /\ recs # <<>> /\ Len(rbuf) <= Len(recs[1])
        /\ \A p \in 1 .. Len(rbuf) : rbuf[p] = recs[1][p]
    BY <1>1 DEF Inv, Reading
  <1>3. recs[1] \in Records /\ Len(recs[1]) \in Nat /\ Len(recs) \in Nat \ {0}
    BY <1>2, FirstRecord DEF Inv
  <1>4. recs[1] \in Seq(Byte)
    BY <1>3, FramedIs
  <1>5. Head(recs) = recs[1]
    BY <1>1, <1>2
  <1>6. PICK r \in Seq(Byte), l \in Nat : r = recs[1] /\ l = Len(rbuf) /\ l <= Len(r)
    BY <1>1, <1>2, <1>4, LenProperties
  <1>7. rbuf = SubSeq(r, 1, l)
    <2>1. SubSeq(r, 1, l) \in Seq(Byte) /\ Len(SubSeq(r, 1, l)) = l
          /\ \A k \in 1 .. l : SubSeq(r, 1, l)[k] = r[k]
      BY <1>6, LenProperties
    <2>2. \A p \in 1 .. l : rbuf[p] = r[p]
      BY <1>2, <1>6
    <2> QED
      BY <1>1, <1>6, <2>1, <2>2, SeqEqual
  <1>8. l \in 0 .. Len(Head(recs)) /\ got' = SubSeq(Head(recs), 1, l)
    <2>1. got' = SubSeq(recs[1], 1, l)
      BY <1>1, <1>6, <1>7
    <2>2. l \in 0 .. Len(recs[1])
      BY <1>3, <1>6
    <2> QED
      BY <1>5, <2>1, <2>2
  <1>9. Tail(recs) = SubSeq(recs, 2, Len(recs))
    BY <1>1, <1>3
  <1> QED
    BY <1>2, <1>8, <1>9 DEF Queue!Deliver

LEMMA QueueStep ==
    ASSUME RecAssumption, Tellable, Inv, [Next]_vars
    PROVE  [Queue!Next]_(Queue!rvars)
  <1>0. recs \in Seq(Records) /\ Len(recs) \in Nat
    BY LenProperties DEF Inv, Types
  <1>1. ASSUME NEW rec \in Records, InRBegin(rec) PROVE UNCHANGED <<recs, got>>
    BY <1>1 DEF InRBegin, reader
  <1>2. ASSUME NEW p \in wleft, StoreByte(p) PROVE UNCHANGED <<recs, got>>
    BY <1>2 DEF StoreByte, reader
  <1>3. CASE InRCommit
    BY <1>3, CommitAccepts DEF Queue!Next
  <1>4. ASSUME NEW op \in {"out", "peek"}, NEW n \in 0 .. MaxRead, OutRBegin(op, n)
        PROVE  UNCHANGED <<recs, got>>
    BY <1>4 DEF OutRBegin
  <1>5. ASSUME NEW p \in rleft, LoadByte(p) PROVE UNCHANGED <<recs, got>>
    BY <1>5 DEF LoadByte
  <1>6. CASE OutRCommit
    <2>1. rop = "out" /\ FinishRead /\ recs' = SubSeq(recs, 2, Len(recs))
      BY <1>6 DEF OutRCommit
    <2>2. Queue!Deliver /\ Tail(recs) = SubSeq(recs, 2, Len(recs))
      BY <2>1, ReadDelivers
    <2> QED
      BY <2>1, <2>2 DEF Queue!Next, Queue!Take
  <1>7. CASE PeekREnd
    <2>1. rop = "peek" /\ FinishRead /\ UNCHANGED recs
      BY <1>7 DEF PeekREnd
    <2>2. Queue!Deliver
      BY <2>1, ReadDelivers
    <2> QED
      BY <2>1, <2>2 DEF Queue!Next, Queue!Peek
  <1>8. CASE SkipR
    <2>1. recs' = SubSeq(recs, 1 + 1, Len(recs)) /\ UNCHANGED got
      BY <1>8 DEF SkipR, reader
    <2>2. 1 \in 1 .. Len(recs)
      BY <1>0, <1>8, InvSkipR, EmptySeq
    <2>3. Queue!Drop
      BY <2>1, <2>2 DEF Queue!Drop
    <2> QED
      BY <2>3 DEF Queue!Next
  <1>9. CASE ResetOutLoad
    BY <1>9 DEF ResetOutLoad, Queue!rvars
  <1>10. CASE ResetOutStore
    <2>1. recs' = SubSeq(recs, rseen + 1, Len(recs)) /\ UNCHANGED got
      BY <1>10 DEF ResetOutStore
    <2>2. rseen \in 0 .. Len(recs)
      BY <1>10, InvResetOutStore
    <2>3. CASE rseen = 0
      <3>1. recs' = recs
        BY <1>0, <2>1, <2>3, SubSeqFull
      <3> QED
        BY <2>1, <3>1 DEF Queue!rvars
    <2>4. CASE rseen # 0
      <3>1. rseen \in 1 .. Len(recs)
        BY <1>0, <2>2, <2>4
      <3>2. Queue!Drop
        BY <2>1, <3>1 DEF Queue!Drop
      <3> QED
        BY <3>2 DEF Queue!Next
    <2> QED
      BY <2>3, <2>4
  <1>11. CASE UNCHANGED vars
    BY <1>11 DEF vars, reader, Queue!rvars
  <1> QED
    BY <1>1, <1>2, <1>3, <1>4, <1>5, <1>6, <1>7, <1>8, <1>9, <1>10, <1>11
    DEF Next, Queue!rvars

\* Records come out whole and in the order they went in, or cut to the reader's
\* buffer: every step of the two threads is one of the queue's or none.
THEOREM RecordsRefine ==
    ASSUME RecAssumption, Tellable
    PROVE  Spec => ImplementsRecordQueue
  <1>1. Init => Queue!Init
    BY DEF Init, Queue!Init
  <1>2. Inv /\ [Next]_vars => [Queue!Next]_(Queue!rvars)
    BY QueueStep
  <1> QED
    BY <1>1, <1>2, InvAlways, PTL DEF Spec, ImplementsRecordQueue, Queue!Spec

-----------------------------------------------------------------------------
(* What pfifo_avail promises, whatever the callers pass *)

\* The indices and all that they are computed from stay numbers.
Numbers ==
    /\ in \in Int /\ out \in Int /\ rin \in Int /\ rn \in Int
    /\ data \in [Slots -> Int]
    /\ wbuf \in Seq(Int) /\ wleft \subseteq 1 .. Len(wbuf)

LEMMA IndexIsNumber ==
    ASSUME NEW i \in Int, NEW n \in Int
    PROVE  Advance(i, n) \in Int /\ Masked(i) \in Slots
  <1>1. Advance(i, n) \in Int
    BY WrapAssumption, SizeAssumption, SMT DEF Advance
  <1> QED
    BY <1>1, MaskedWrap

LEMMA PeekIsNumber ==
    ASSUME RecAssumption, Numbers
    PROVE  PeekN \in Int
  <1>1. Masked(out) \in Slots /\ Masked(out + 1) \in Slots
    <2>1. out \in Int /\ out + 1 \in Int
      BY DEF Numbers
    <2> QED
      BY <2>1, MaskedWrap
  <1>2. PICK a \in Int, b \in Int : a = data[Masked(out)] /\ b = data[Masked(out + 1)]
    BY <1>1 DEF Numbers
  <1>3. PICK c \in Int : c = Base * b
    <2>1. Base \in Int /\ b \in Int
      BY ConstantsAre
    <2> QED
      BY <2>1
  <1>4. a + c \in Int /\ a + 0 \in Int
    OBVIOUS
  <1> QED
    BY <1>2, <1>3, <1>4 DEF PeekN

LEMMA NumbersStep ==
    ASSUME RecAssumption, Numbers, [Next]_vars
    PROVE  Numbers'
  <1>0. /\ RecSize \in Int /\ Len(wbuf) \in Nat
    BY ConstantsAre, LenProperties DEF Numbers
  <1>1. ASSUME NEW rec \in Records, InRBegin(rec) PROVE Numbers'
    <2>1. PICK n \in Nat : rec \in [1 .. n -> Payload]
      BY ConstantsAre DEF Records
    <2>2. rec \in Seq(Int) /\ Len(rec) = n
      <3>1. rec \in [1 .. n -> Int]
        BY <2>1, ConstantsAre DEF Byte
      <3> QED
        BY <3>1, FunctionIsSeq
    <2>3. LengthBytes(Len(rec)) \in Seq(Int) /\ Len(LengthBytes(Len(rec))) = RecSize
      <3>1. n % Base \in Int /\ (n \div Base) % Base \in Int
        <4>1. Base \in Nat \ {0}
          BY ConstantsAre
        <4>2. n % Base \in Int /\ n \div Base \in Int
          BY <4>1, DivMod
        <4>3. PICK q \in Int : q = n \div Base
          BY <4>2
        <4>4. q % Base \in Int
          BY <4>1, DivMod
        <4> QED
          BY <4>2, <4>3, <4>4
      <3>2. LengthBytes(n) \in [1 .. RecSize -> Int]
        BY <3>1 DEF LengthBytes
      <3> QED
        BY <2>2, <3>2, ConstantsAre, FunctionIsSeq
    <2>4. wbuf' = LengthBytes(Len(rec)) \o rec /\ wleft' = 1 .. RecSize + Len(rec)
      BY <1>1 DEF InRBegin
    <2>5. wbuf' \in Seq(Int) /\ Len(wbuf') = RecSize + Len(rec)
      BY <2>2, <2>3, <2>4, ConcatProperties
    <2> QED
      BY <1>1, <2>4, <2>5 DEF InRBegin, Numbers, reader
  <1>2. ASSUME NEW p \in wleft, StoreByte(p) PROVE Numbers'
    <2>1. /\ data' = [data EXCEPT ![StoreSlot(p)] = wbuf[p]] /\ wleft' = wleft \ {p}
          /\ UNCHANGED <<in, out, wbuf, reader, recs>>
      BY <1>2 DEF StoreByte
    <2>2. wbuf[p] \in Int
      BY <1>0, ElementOfSeq DEF Numbers
    <2>3. data' \in [Slots -> Int]
      BY <2>1, <2>2 DEF Numbers
    <2> QED
      BY <2>1, <2>3 DEF Numbers, reader
  <1>3. CASE InRCommit
    <2>1. /\ in' = Advance(in, Len(wbuf)) /\ wbuf' = <<>> /\ wleft = {}
          /\ UNCHANGED <<data, out, wleft, reader>>
      BY <1>3 DEF InRCommit
    <2>2. in' \in Int
      BY <1>0, <2>1, IndexIsNumber DEF Numbers
    <2> QED
      BY <2>1, <2>2 DEF Numbers, reader
  <1>4. ASSUME NEW op \in {"out", "peek"}, NEW n \in 0 .. MaxRead, OutRBegin(op, n)
        PROVE  Numbers'
    BY <1>4, PeekIsNumber DEF OutRBegin, Numbers, writer
  <1>5. ASSUME NEW p \in rleft, LoadByte(p) PROVE Numbers'
    BY <1>5 DEF LoadByte, Numbers, writer
  <1>6. CASE OutRCommit
    <2>1. /\ out' = Advance(out, rn + RecSize) /\ rn' = 0
          /\ UNCHANGED <<data, in, writer, rin>>
      BY <1>6 DEF OutRCommit, FinishRead
    <2>2. out' \in Int
      BY <1>0, <2>1, IndexIsNumber DEF Numbers
    <2> QED
      BY <2>1, <2>2 DEF Numbers, writer
  <1>7. CASE PeekREnd
    BY <1>7 DEF PeekREnd, FinishRead, Numbers, writer
  <1>8. CASE SkipR
    <2>1. out' = Advance(out, PeekN + RecSize) /\ UNCHANGED <<data, in, writer, reader>>
      BY <1>8 DEF SkipR
    <2>2. PeekN + RecSize \in Int
      BY <1>0, PeekIsNumber
    <2>3. out' \in Int
      BY <2>1, <2>2, IndexIsNumber DEF Numbers
    <2> QED
      BY <2>1, <2>3 DEF Numbers, writer, reader
  <1>9. CASE ResetOutLoad
    BY <1>9 DEF ResetOutLoad, Numbers, writer
  <1>10. CASE ResetOutStore
    BY <1>10 DEF ResetOutStore, Numbers, writer
  <1>11. CASE UNCHANGED vars
    BY <1>11 DEF vars, writer, reader, Numbers
  <1> QED
    BY <1>1, <1>2, <1>3, <1>4, <1>5, <1>6, <1>7, <1>8, <1>9, <1>10, <1>11 DEF Next

\* pfifo_avail tells exactly which records go in and can be told by their length
\* field: also when the free space is one, two or more than the field can say.
THEOREM AvailTold ==
    ASSUME RecAssumption
    PROVE  Spec => []AvailIsExact
  <1>1. Init => Numbers
    BY DEF Init, Numbers
  <1>2. Numbers /\ [Next]_vars => Numbers'
    BY NumbersStep
  <1>3. Numbers => AvailIsExact
    <2> SUFFICES ASSUME Numbers, NEW n \in 1 .. Size
                 PROVE  n <= Avail <=> n + RecSize <= Unused(in, out) /\ n <= MaxRec
      BY DEF AvailIsExact
    <2>1. PICK a \in Int : a = Unused(in, out)
      <3>1. Used(in, out) \in Int
        BY WrapAssumption, SizeAssumption, SMT DEF Used, Numbers
      <3>2. PICK u \in Int : u = Used(in, out)
        BY <3>1
      <3>3. (Size - u) % Wrap \in Int
        BY WrapAssumption, SizeAssumption, SMT
      <3> QED
        BY <3>2, <3>3 DEF Unused
    <2>2. PICK m \in Nat, r \in Nat : m = MaxRec /\ r = RecSize
      BY ConstantsAre
    <2>3. Avail = IF a <= r THEN 0 ELSE IF a - r < m THEN a - r ELSE m
      BY <2>1, <2>2 DEF Avail, MinOf
    <2>4. n \in Nat /\ n >= 1
      BY SizeAssumption
    <2> QED
      BY <2>1, <2>2, <2>3, <2>4
  <1> QED
    BY <1>1, <1>2, <1>3, PTL DEF Spec
=============================================================================
