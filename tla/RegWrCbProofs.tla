----------------------------- MODULE RegWrCbProofs -----------------------------
(***************************************************************************)
(* The ring over the bus, for a ring and elements of every size: the size  *)
(* that a call of regwr_cb.c has asked for is still good enough when its   *)
(* second access arrives (Inv); no byte is lost or torn, and what is       *)
(* reported is there (LinkInv).                                            *)
(***************************************************************************)
EXTENDS Devices, SequenceTheorems, TLAPS

Types ==
    /\ mode \in Modes
    /\ link_ring \in Seq(Int) /\ Len(link_ring) <= LinkCapacity
    /\ made \in Int
    /\ op \in C!Ops \cup {"none"} /\ size \in Nat
    /\ len \in Int /\ len >= -1
    /\ len >= 0 => op \in C!Takes \cup C!Fills

\* What a call goes for is there, or fits.
Enough == len >= 0 /\ ~C!MayClear =>
    /\ op \in C!Takes => len <= Len(link_ring)
    /\ op \in C!Fills => len <= LinkCapacity - Len(link_ring)

Inv == Types /\ Enough

-----------------------------------------------------------------------------
(* Lemmas *)

LEMMA DivMod ==
    ASSUME NEW a \in Nat, NEW b \in Nat \ {0}
    PROVE  /\ (a % b) \in 0 .. b - 1 /\ (a % b) <= a
           /\ (a \div b) \in Nat /\ b * (a \div b) <= a
  BY SMT

\* Only a remainder is cut off.
LEMMA SmallMod ==
    ASSUME NEW b \in Nat \ {0}, NEW a \in 0 .. b - 1
    PROVE  (a % b) = a
  BY SMT

LEMMA TimesMonotone ==
    ASSUME NEW x \in Nat, NEW y \in Nat, NEW g \in Nat, x <= y
    PROVE  x * g \in Nat /\ x * g <= g * y
  BY SMT

\* A call never goes for more than the device reports.
LEMMA LengthFits ==
    ASSUME C!LinkAssumption, Types, NEW n \in Nat
    PROVE  C!Length(n) \in Nat /\ C!Length(n) <= n
  <1>1. W16 \in Nat \ {0} /\ C!Gran \in 1 .. W16 - 1
    BY DEF C!LinkAssumption, Types, C!Gran
  <1>2. (size % W16) \in 0 .. W16 - 1 /\ (n % W16) \in 0 .. W16 - 1 /\ (n % W16) <= n
    BY <1>1, DivMod DEF Types
  <1>3. CASE op \in {"GranRead", "GranWrite"}
    <2> DEFINE r == n % W16
               q == r \div C!Gran
               e == C!LessOf(size % W16, q)
    <2>1. q \in Nat /\ C!Gran * q <= r
      <3>1. r \in Nat /\ C!Gran \in Nat \ {0}
        BY <1>1, <1>2
      <3> HIDE DEF r
      <3> QED
        BY <3>1, DivMod
    <2>2. e \in Nat /\ e <= q
      BY <1>2, <2>1 DEF C!LessOf
    <2> HIDE DEF q
    <2>3. e * C!Gran \in Nat /\ e * C!Gran <= C!Gran * q
      BY <1>1, <2>1, <2>2, TimesMonotone
    <2>4. e * C!Gran \in 0 .. W16 - 1 /\ e * C!Gran <= n
      BY <1>1, <1>2, <2>1, <2>3
    <2>5. ((e * C!Gran) % W16) = e * C!Gran
      BY <1>1, <2>4, SmallMod
    <2>6. C!Length(n) = (e * C!Gran) % W16
      BY <1>3 DEF C!Length, q
    <2> HIDE DEF e
    <2> QED
      BY <2>3, <2>4, <2>5, <2>6
  <1>4. CASE op \notin {"GranRead", "GranWrite"}
    BY <1>2, <1>4 DEF C!Length, C!LessOf
  <1> QED
    BY <1>3, <1>4

\* A Gran call goes for whole elements, the others for what they were asked for
\* at most.
LEMMA TimesMod ==
    ASSUME NEW e \in Nat, NEW g \in Nat \ {0}
    PROVE  ((e * g) % g) = 0
  BY SMT

LEMMA LengthIsWhole ==
    ASSUME C!LinkAssumption, Types, NEW n \in Nat, op \in {"GranRead", "GranWrite"}
    PROVE  (C!Length(n) % C!Gran) = 0
  <1>1. W16 \in Nat \ {0} /\ C!Gran \in 1 .. W16 - 1 /\ C!Gran \in Nat \ {0}
    BY DEF C!LinkAssumption, Types, C!Gran
  <1>2. (size % W16) \in 0 .. W16 - 1 /\ (n % W16) \in 0 .. W16 - 1
    BY <1>1, DivMod DEF Types
  <1> DEFINE r == n % W16
             q == r \div C!Gran
             e == C!LessOf(size % W16, q)
  <1>3. q \in Nat /\ C!Gran * q <= r
    <2>1. r \in Nat
      BY <1>2
    <2> HIDE DEF r
    <2> QED
      BY <1>1, <2>1, DivMod
  <1>4. e \in Nat /\ e <= q
    BY <1>2, <1>3 DEF C!LessOf
  <1>5. C!Length(n) = (e * C!Gran) % W16
    BY DEF C!Length
  <1> HIDE DEF e, q
  <1>6. e * C!Gran \in Nat /\ e * C!Gran <= C!Gran * q
    BY <1>1, <1>3, <1>4, TimesMonotone
  <1>7. e * C!Gran \in 0 .. W16 - 1
    BY <1>1, <1>2, <1>3, <1>6
  <1>8. ((e * C!Gran) % W16) = e * C!Gran
    BY <1>1, <1>7, SmallMod
  <1>9. ((e * C!Gran) % C!Gran) = 0
    BY <1>1, <1>4, TimesMod
  <1> QED
    BY <1>5, <1>8, <1>9

LEMMA LengthAsAsked ==
    ASSUME C!LinkAssumption, Types, NEW n \in Nat, op \notin {"GranRead", "GranWrite"}
    PROVE  C!Length(n) <= size
  <1>1. W16 \in Nat \ {0}
    BY DEF C!LinkAssumption, Types
  <1>2. (size % W16) \in 0 .. W16 - 1 /\ (size % W16) <= size /\ size \in Nat
    BY <1>1, DivMod DEF Types
  <1> QED
    BY <1>2 DEF C!Length, C!LessOf

\* The commands, one by one.
LEMMA CbReadIs ==
    ASSUME NEW r, NEW n
    PROVE  /\ n = LinkCountSize => C!CbRead(r, C!GET_SIZE, n).data = <<C!RingSize(r)>>
           /\ n = LinkCountSize => C!CbRead(r, C!GET_FREESIZE, n).data = <<C!RingFree(r)>>
           /\ C!CbRead(r, C!READ, n) =
                IF n <= C!RingSize(r) THEN C!Done(n, C!Front(r, n), C!Rest(r, n)) ELSE C!Refused(r)
           /\ C!CbRead(r, C!PEEP, n) =
                IF n <= C!RingSize(r) THEN C!Done(n, C!Front(r, n), r) ELSE C!Refused(r)
  <1> USE DEF C!GET_SIZE, C!GET_FREESIZE, C!READ, C!PEEP
  <1>1. n = LinkCountSize => C!CbRead(r, C!GET_SIZE, n) = C!Done(LinkCountSize, <<C!RingSize(r)>>, r)
    BY DEF C!CbRead
  <1>2. n = LinkCountSize => C!CbRead(r, C!GET_FREESIZE, n) = C!Done(LinkCountSize, <<C!RingFree(r)>>, r)
    BY DEF C!CbRead
  <1>3. C!CbRead(r, C!READ, n) =
          IF n <= C!RingSize(r) THEN C!Done(n, C!Front(r, n), C!Rest(r, n)) ELSE C!Refused(r)
    BY DEF C!CbRead
  <1>4. C!CbRead(r, C!PEEP, n) = IF n <= C!RingSize(r) THEN C!Done(n, C!Front(r, n), r) ELSE C!Refused(r)
    BY DEF C!CbRead
  <1> QED
    BY <1>1, <1>2, <1>3, <1>4 DEF C!Done

\* What the device reports to a call.
LEMMA ReportedIs ==
    ASSUME C!LinkAssumption, Types
    PROVE  /\ C!Reported \in Nat
           /\ op \in C!Takes => C!Reported = Len(link_ring)
           /\ op \in C!Fills => C!Reported = LinkCapacity - Len(link_ring)
  <1>1. Len(link_ring) \in Nat /\ LinkCapacity - Len(link_ring) \in Nat
    BY LenProperties DEF C!LinkAssumption, Types
  <1>2. CASE op \in C!Fills \cup {"FreeSize"}
    <2>1. C!Reported = LinkCapacity - Len(link_ring)
      BY <1>2, CbReadIs DEF C!Reported, C!SizeReg, C!RingFree
    <2> QED
      BY <1>1, <1>2, <2>1 DEF C!Takes, C!Fills
  <1>3. CASE op \notin C!Fills \cup {"FreeSize"}
    <2>1. C!Reported = Len(link_ring)
      <3>1. C!SizeReg = C!GET_SIZE
        BY <1>3 DEF C!SizeReg
      <3>2. C!CbRead(link_ring, C!GET_SIZE, LinkCountSize).data = <<C!RingSize(link_ring)>>
        BY CbReadIs
      <3> QED
        BY <3>1, <3>2 DEF C!Reported, C!RingSize
    <2> QED
      BY <1>1, <1>3, <2>1
  <1> QED
    BY <1>2, <1>3

LEMMA RestOf ==
    ASSUME NEW s \in Seq(Int), NEW n \in Nat, n <= Len(s)
    PROVE  C!Rest(s, n) \in Seq(Int) /\ Len(C!Rest(s, n)) = Len(s) - n
  <1>1. C!Rest(s, n) = SubSeq(s, n + 1, Len(s))
    BY DEF C!Rest
  <1>2. /\ Len(s) \in Nat /\ n + 1 \in Int
        /\ \A i \in n + 1 .. Len(s) : s[i] \in Int
    BY LenProperties
  <1>3. /\ SubSeq(s, n + 1, Len(s)) \in Seq(Int)
        /\ Len(SubSeq(s, n + 1, Len(s))) =
              IF n + 1 <= Len(s) THEN Len(s) - (n + 1) + 1 ELSE 0
    BY <1>2, SubSeqProperties
  <1> QED
    BY <1>1, <1>2, <1>3

LEMMA JoinedOf ==
    ASSUME NEW s \in Seq(Int), NEW m \in Int, NEW n \in Nat
    PROVE  s \o C!UpFrom(m, n) \in Seq(Int) /\ Len(s \o C!UpFrom(m, n)) = Len(s) + n
  <1>1. C!UpFrom(m, n) \in Seq(Int) /\ Len(C!UpFrom(m, n)) = n
    BY IsASeq DEF C!UpFrom
  <1> QED
    BY <1>1, ConcatProperties

-----------------------------------------------------------------------------
(* The second access *)

\* When there is enough, the device does what it is asked for.
LEMMA NotRefused ==
    ASSUME C!LinkAssumption, Inv, C!InCommand, ~C!MayClear
    PROVE  ~C!Refusal
  <1>1. CASE op = "Clean"
    BY <1>1 DEF C!Refusal, C!Command, C!CbWrite, C!CLEAN, C!WRITE, C!READAIR, C!Done
  <1>2. CASE op # "Clean"
    <2>1. len >= 0 /\ len \in Nat /\ op \in C!Takes \cup C!Fills
      BY <1>2 DEF C!InCommand, Inv, Types
    <2>2. /\ op \in C!Takes => len <= C!RingSize(link_ring)
          /\ op \in C!Fills => len <= C!RingFree(link_ring)
      BY <2>1 DEF Inv, Enough, C!RingSize, C!RingFree
    <2>3. CASE op \in {"Read", "GranRead"}
      <3>1. C!Command = C!CbRead(link_ring, C!READ, len)
        BY <2>3 DEF C!Command, C!Fills
      <3>2. C!CbRead(link_ring, C!READ, len).ret = len
        BY <2>1, <2>2, <2>3, CbReadIs DEF C!Done, C!Takes
      <3> QED
        BY <3>1, <3>2 DEF C!Refusal
    <2>4. CASE op = "Peep"
      <3>1. C!Command = C!CbRead(link_ring, C!PEEP, len)
        BY <2>4 DEF C!Command, C!Fills
      <3>2. C!CbRead(link_ring, C!PEEP, len).ret = len
        BY <2>1, <2>2, <2>4, CbReadIs DEF C!Done, C!Takes
      <3> QED
        BY <3>1, <3>2 DEF C!Refusal
    <2>5. CASE op \in C!Fills
      <3>1. C!Command = C!CbWrite(link_ring, C!WRITE, len, C!UpFrom(made, len))
        BY <2>5 DEF C!Command, C!Fills
      <3>2. C!CbWrite(link_ring, C!WRITE, len, C!UpFrom(made, len)).ret = len
        BY <2>1, <2>2, <2>5 DEF C!CbWrite, C!WRITE, C!CLEAN, C!READAIR, C!Done
      <3> QED
        BY <3>1, <3>2 DEF C!Refusal
    <2>6. CASE op = "ReadAir"
      <3>1. C!Command = C!CbWrite(link_ring, C!READAIR, LinkCountSize, <<len>>)
        BY <2>6 DEF C!Command, C!Fills
      <3>2. C!CbWrite(link_ring, C!READAIR, LinkCountSize, <<len>>).ret = LinkCountSize
        BY <2>1, <2>2, <2>6 DEF C!CbWrite, C!WRITE, C!CLEAN, C!READAIR, C!Done, C!Takes
      <3> QED
        BY <3>1, <3>2 DEF C!Refusal, C!LinkAssumption, C!OneUser
    <2> QED
      BY <2>1, <2>3, <2>4, <2>5, <2>6 DEF C!Takes
  <1> QED
    BY <1>1, <1>2

\* What the device does leaves a ring.
LEMMA CommandRing ==
    ASSUME C!LinkAssumption, Inv, C!InCommand
    PROVE  C!Command.ring \in Seq(Int) /\ Len(C!Command.ring) <= LinkCapacity
  <1>1. link_ring \in Seq(Int) /\ Len(link_ring) \in Nat /\ Len(link_ring) <= LinkCapacity /\ LinkCapacity \in Nat
    BY LenProperties DEF Inv, Types, C!LinkAssumption
  <1>2. CASE op = "Clean"
    <2>1. C!Command.ring = <<>>
      BY <1>2 DEF C!Command, C!CbWrite, C!CLEAN, C!WRITE, C!READAIR, C!Done
    <2> QED
      BY <2>1, <1>1
  <1>3. CASE op # "Clean"
    <2>1. len \in Nat /\ op \in C!Takes \cup C!Fills /\ made \in Int
      BY <1>3 DEF C!InCommand, Inv, Types
    <2>2. \/ C!Command.ring = link_ring
          \/ len <= Len(link_ring) /\ C!Command.ring = C!Rest(link_ring, len)
          \/ len <= LinkCapacity - Len(link_ring) /\ C!Command.ring = link_ring \o C!UpFrom(made, len)
      <3>1. CASE op \in {"Read", "GranRead"}
        <4>1. C!Command = C!CbRead(link_ring, C!READ, len)
          BY <3>1 DEF C!Command, C!Fills
        <4> QED
          BY <4>1, CbReadIs DEF C!Done, C!Refused, C!RingSize
      <3>2. CASE op = "Peep"
        <4>1. C!Command = C!CbRead(link_ring, C!PEEP, len)
          BY <3>2 DEF C!Command, C!Fills
        <4> QED
          BY <4>1, CbReadIs DEF C!Done, C!Refused, C!RingSize
      <3>3. CASE op \in C!Fills
        <4>1. C!Command = C!CbWrite(link_ring, C!WRITE, len, C!UpFrom(made, len))
          BY <3>3 DEF C!Command, C!Fills
        <4> QED
          BY <4>1 DEF C!CbWrite, C!WRITE, C!CLEAN, C!READAIR, C!Done, C!Refused, C!RingFree
      <3>4. CASE op = "ReadAir"
        <4>1. C!Command = C!CbWrite(link_ring, C!READAIR, LinkCountSize, <<len>>)
          BY <3>4 DEF C!Command, C!Fills
        <4> QED
          BY <4>1 DEF C!CbWrite, C!WRITE, C!CLEAN, C!READAIR, C!Done, C!Refused, C!RingSize
      <3> QED
        BY <2>1, <3>1, <3>2, <3>3, <3>4 DEF C!Takes
    <2>3. CASE C!Command.ring = link_ring
      BY <1>1, <2>3
    <2>4. CASE len <= Len(link_ring) /\ C!Command.ring = C!Rest(link_ring, len)
      <3>1. C!Rest(link_ring, len) \in Seq(Int) /\ Len(C!Rest(link_ring, len)) = Len(link_ring) - len
        BY <1>1, <2>1, <2>4, RestOf
      <3> QED
        BY <1>1, <2>1, <2>4, <3>1
    <2>5. CASE len <= LinkCapacity - Len(link_ring) /\ C!Command.ring = link_ring \o C!UpFrom(made, len)
      <3>1. /\ link_ring \o C!UpFrom(made, len) \in Seq(Int)
            /\ Len(link_ring \o C!UpFrom(made, len)) = Len(link_ring) + len
        BY <1>1, <2>1, JoinedOf
      <3> QED
        BY <1>1, <2>1, <2>5, <3>1
    <2> QED
      BY <2>2, <2>3, <2>4, <2>5
  <1> QED
    BY <1>2, <1>3

-----------------------------------------------------------------------------
(* The invariant is inductive. *)

LEMMA InvInit == ASSUME C!LinkAssumption, C!Init PROVE Inv
  <1>1. <<>> \in Seq(Int) /\ Len(<<>>) = 0
    OBVIOUS
  <1> QED
    BY <1>1 DEF C!Init, Inv, Types, Enough, C!LinkAssumption

\* The device's program fills the ring of a host that takes, and the other way
\* round: it can only make more room for what the host is after.
LEMMA DeviceInv ==
    ASSUME C!LinkAssumption, Inv, UNCHANGED mode, NEW n \in Nat,
           C!DeviceWrite(n) \/ C!DeviceRead(n) \/ C!DeviceClear
    PROVE  Inv'
  <1>1. /\ link_ring \in Seq(Int) /\ Len(link_ring) \in Nat /\ Len(link_ring) <= LinkCapacity /\ LinkCapacity \in Nat
        /\ made \in Int /\ mode \in Modes /\ op \in C!Ops \cup {"none"} /\ len \in Int
    BY LenProperties DEF Inv, Types, C!LinkAssumption
  <1>2. UNCHANGED <<mode, op, size, len>>
    BY DEF C!DeviceWrite, C!DeviceRead, C!DeviceClear
  <1>3. CASE C!DeviceWrite(n)
    <2>1. /\ link_ring' \in Seq(Int) /\ Len(link_ring') = Len(link_ring) + n /\ made' \in Int
          /\ Len(link_ring) + n <= LinkCapacity
      BY <1>1, <1>3, JoinedOf DEF C!DeviceWrite, C!RingFree
    <2>2. op \notin C!Fills
      BY <1>1, <1>3 DEF C!LinkAssumption, C!OneUser, C!DeviceWrite, C!Producer, C!Ops, C!Fills
    <2> QED
      BY <1>1, <1>2, <2>1, <2>2 DEF Inv, Types, Enough, C!Ops, C!MayClear
  <1>4. CASE C!DeviceRead(n)
    <2>1. link_ring' \in Seq(Int) /\ Len(link_ring') = Len(link_ring) - n /\ made' = made /\ n <= Len(link_ring)
      BY <1>1, <1>4, RestOf DEF C!DeviceRead, C!RingSize
    <2>2. op \notin C!Takes
      BY <1>1, <1>4 DEF C!LinkAssumption, C!OneUser, C!DeviceRead, C!Producer, C!Ops, C!Takes
    <2> QED
      BY <1>1, <1>2, <2>1, <2>2 DEF Inv, Types, Enough, C!Ops, C!MayClear
  <1>5. CASE C!DeviceClear
    <2>1. C!MayClear /\ link_ring' = <<>> /\ made' = made
      BY <1>5 DEF C!DeviceClear
    <2> QED
      BY <1>1, <1>2, <2>1 DEF Inv, Types, Enough, C!Ops, C!MayClear
  <1> QED
    BY <1>3, <1>4, <1>5

\* Between calls there is nothing to be enough for.
LEMMA ReturnInv ==
    ASSUME C!LinkAssumption, Inv, UNCHANGED mode, NEW r, NEW buf, C!Return(r, buf),
           link_ring' \in Seq(Int), Len(link_ring') <= LinkCapacity, made' \in Int
    PROVE  Inv'
  BY DEF C!Return, Inv, Types, Enough, C!Ops

LEMMA CallInv ==
    ASSUME C!LinkAssumption, Inv, UNCHANGED mode, NEW o \in C!Ops, NEW n \in C!Sizes, C!Call(o, n)
    PROVE  Inv'
  <1>1. n \in Nat
    BY DEF C!LinkAssumption, C!OneUser, Inv, Types, C!Sizes
  <1> QED
    BY <1>1 DEF C!Call, Inv, Types, Enough, C!Ops

LEMMA AnsweredInv ==
    ASSUME C!LinkAssumption, Inv, UNCHANGED mode, C!SizeAnswered
    PROVE  Inv'
  <1>1. Types /\ UNCHANGED <<link_ring, made>>
    BY DEF Inv, C!SizeAnswered
  <1>2. CASE \E r, buf : C!Return(r, buf)
    BY <1>1, <1>2, ReturnInv DEF Types
  <1>3. CASE /\ len' = C!Length(C!Reported) /\ UNCHANGED <<op, size, link_ret, got>>
             /\ op \notin C!OneAccess \cup {"none", "Clean"}
    <2>1. C!Reported \in Nat /\ C!Length(C!Reported) \in Nat /\ C!Length(C!Reported) <= C!Reported
      BY <1>1, ReportedIs, LengthFits
    <2>2. op \in C!Takes \cup C!Fills
      BY <1>1, <1>3 DEF C!LinkAssumption, C!OneUser, Types, C!Ops
    <2>3. /\ op \in C!Takes => len' <= Len(link_ring)
          /\ op \in C!Fills => len' <= LinkCapacity - Len(link_ring)
      BY <1>1, <1>3, <2>1, ReportedIs
    <2> QED
      BY <1>1, <1>3, <2>1, <2>2, <2>3 DEF Inv, Types, Enough, C!Ops, C!MayClear
  <1> QED
    BY <1>2, <1>3 DEF C!SizeAnswered

LEMMA CommandInv ==
    ASSUME C!LinkAssumption, Inv, UNCHANGED mode,
           C!CommandDone \/ C!CommandRefused \/ C!AnswerLost
    PROVE  Inv'
  <1>1. C!InCommand /\ \E r, buf : C!Return(r, buf)
    BY DEF C!CommandDone, C!CommandRefused, C!AnswerLost
  <1>2. link_ring' \in Seq(Int) /\ Len(link_ring') <= LinkCapacity
    <2>1. link_ring' = link_ring \/ link_ring' = C!Command.ring
      BY DEF C!CommandDone, C!CommandRefused, C!AnswerLost
    <2> QED
      BY <1>1, <2>1, CommandRing DEF Inv, Types
  <1>3. made' \in Int
    <2>1. made \in Int /\ C!Gran \in Nat \ {0} /\ len \in Int
      BY DEF Inv, Types, C!LinkAssumption, C!Gran
    <2>2. CASE made' = made
      BY <2>1, <2>2
    <2>3. CASE /\ C!CommandDone /\ op \in C!Fills
               /\ made' = made + C!Result * (IF op = "GranWrite" THEN C!Gran ELSE 1)
      <3>1. len \in Nat
        BY <1>1, <2>1, <2>3 DEF C!InCommand, C!Fills
      <3>2. C!Result \in Nat
        BY <2>1, <3>1, DivMod DEF C!Result
      <3> HIDE DEF C!Result
      <3>3. (IF op = "GranWrite" THEN C!Gran ELSE 1) \in Nat
        BY <2>1
      <3>4. C!Result * (IF op = "GranWrite" THEN C!Gran ELSE 1) \in Nat
        BY <3>2, <3>3, TimesMonotone
      <3> QED
        BY <2>1, <2>3, <3>4
    <2> QED
      BY <2>2, <2>3 DEF C!CommandDone, C!CommandRefused, C!AnswerLost
  <1> QED
    BY <1>1, <1>2, <1>3, ReturnInv

LEMMA InvNext == ASSUME C!LinkAssumption, Inv, [C!Next]_(C!vars) PROVE Inv'
  <1>1. CASE UNCHANGED mode /\ \E n \in 1 .. MaxByte : C!DeviceWrite(n) \/ C!DeviceRead(n)
    <2>1. PICK n \in 1 .. MaxByte : C!DeviceWrite(n) \/ C!DeviceRead(n)
      BY <1>1
    <2>2. n \in Nat
      OBVIOUS
    <2> QED
      BY <1>1, <2>1, <2>2, DeviceInv
  <1>2. CASE UNCHANGED mode /\ C!DeviceClear
    <2>1. 0 \in Nat
      OBVIOUS
    <2> QED
      BY <1>2, <2>1, DeviceInv
  <1>3. CASE UNCHANGED mode /\ \E o \in C!Ops, n \in C!Sizes : C!Call(o, n)
    BY <1>3, CallInv
  <1>4. CASE UNCHANGED mode /\ C!SizeAnswered
    BY <1>4, AnsweredInv
  <1>5. CASE UNCHANGED mode /\ C!BusFails
    BY <1>5, ReturnInv DEF C!BusFails, Inv, Types
  <1>6. CASE UNCHANGED mode /\ (C!CommandDone \/ C!CommandRefused \/ C!AnswerLost)
    BY <1>6, CommandInv
  <1>7. CASE UNCHANGED C!vars
    BY <1>7 DEF C!vars, Inv, Types, Enough, C!Ops, C!MayClear
  <1> QED
    BY <1>1, <1>2, <1>3, <1>4, <1>5, <1>6, <1>7 DEF C!Next

\* The device never refuses the second access of a call, for a ring of every
\* capacity, elements and sizes of every length, and counts cut to every width,
\* as long as each end of the ring has one user.
THEOREM SizeStaysGood == DevicesSpec => []NeverRefused
  <1>1. DevicesInit => Inv
    BY InvInit, DevicesAssumption DEF DevicesInit
  <1>2. Inv /\ [DevicesNext]_devicevars => Inv'
    <2> SUFFICES ASSUME Inv, [DevicesNext]_devicevars PROVE Inv'
      OBVIOUS
    <2>1. C!Next \/ UNCHANGED C!vars
      BY DEF DevicesNext, devicevars, linkvars, C!vars
    <2> QED
      BY <2>1, InvNext, DevicesAssumption
  <1>3. Inv => NeverRefused
    BY NotRefused, DevicesAssumption DEF NeverRefused, C!NeverRefused
  <1> QED
    BY <1>1, <1>2, <1>3, PTL DEF DevicesSpec

-----------------------------------------------------------------------------
(* What is in the ring *)

\* A Gran call goes for whole elements.
Whole == op \in {"GranRead", "GranWrite"} /\ len >= 0 => (len % C!Gran) = 0

\* The last byte in the ring is not older than what the producer knows of: a
\* write whose answer is lost leaves newer ones.
Newest == Len(link_ring) > 0 => made <= link_ring[Len(link_ring)]

\* What a careful host has peeped at is still at the front of the ring, and
\* ReadAir is used for nothing else.
Looked == C!Lossless =>
    /\ peeped \in Nat /\ peeped <= Len(link_ring)
    /\ \A k \in 1 .. peeped : link_ring[k] \in seen
    /\ C!Producer = "host" => peeped = 0
    /\ op = "ReadAir" => size <= peeped /\ len <= peeped

\* The elements that the producer has made are whole ones, as are those in the
\* ring and in the host's buffer.
Aligned == C!Bytewise \/ (C!WholeElements /\ got \in Seq(Int) /\ (made % C!Gran) = 0)

LinkInv == Inv /\ Whole /\ C!InOrder /\ Newest /\ Looked /\ C!NothingLost /\ Aligned

-----------------------------------------------------------------------------
(* Lemmas on sequences and remainders *)

LEMMA ModIs ==
    ASSUME NEW a \in Int, NEW g \in Nat \ {0}
    PROVE  /\ (a % g) \in 0 .. g - 1
           /\ a = g * (a \div g) + (a % g) /\ (a \div g) \in Int
  BY SMT

LEMMA ModOnly ==
    ASSUME NEW q \in Int, NEW g \in Nat \ {0}, NEW r \in 0 .. g - 1
    PROVE  ((g * q + r) % g) = r
  BY SMT

LEMMA ModSum ==
    ASSUME NEW a \in Int, NEW b \in Int, NEW g \in Nat \ {0}, (a % g) = 0
    PROVE  ((a + b) % g) = (b % g)
  <1>1. a = g * (a \div g) /\ (a \div g) \in Int
    BY ModIs
  <1>2. b = g * (b \div g) + (b % g) /\ (b \div g) \in Int /\ (b % g) \in 0 .. g - 1
    BY ModIs
  <1> DEFINE p == a \div g
             q == b \div g
             r == b % g
  <1>3. p \in Int /\ q \in Int /\ r \in 0 .. g - 1 /\ a = g * p /\ b = g * q + r
    BY <1>1, <1>2
  <1> HIDE DEF p, q, r
  <1>4. a + b = g * (p + q) + r /\ p + q \in Int
    BY <1>3
  <1>5. ((a + b) % g) = r
    BY <1>3, <1>4, ModOnly
  <1> QED
    BY <1>5 DEF r

LEMMA ModDifference ==
    ASSUME NEW a \in Int, NEW b \in Int, NEW g \in Nat \ {0}, (a % g) = 0, (b % g) = 0
    PROVE  ((a - b) % g) = 0
  <1>1. b + (a - b) = a /\ a - b \in Int
    OBVIOUS
  <1>2. ((b + (a - b)) % g) = ((a - b) % g)
    BY <1>1, ModSum
  <1> QED
    BY <1>1, <1>2

\* What is taken from a ring, and what is left.
LEMMA FrontOf ==
    ASSUME NEW s \in Seq(Int), NEW n \in Nat, n <= Len(s)
    PROVE  /\ C!Front(s, n) \in Seq(Int) /\ Len(C!Front(s, n)) = n
           /\ \A k \in 1 .. n : C!Front(s, n)[k] = s[k]
           /\ C!SetOf(C!Front(s, n)) = {s[k] : k \in 1 .. n}
  <1>1. C!Front(s, n) = SubSeq(s, 1, n)
    BY DEF C!Front
  <1>2. /\ Len(s) \in Nat
        /\ \A i \in 1 .. n : s[i] \in Int
    BY LenProperties
  <1>3. /\ SubSeq(s, 1, n) \in Seq(Int)
        /\ Len(SubSeq(s, 1, n)) = IF 1 <= n THEN n - 1 + 1 ELSE 0
        /\ \A i \in 1 .. n - 1 + 1 : SubSeq(s, 1, n)[i] = s[1 + i - 1]
    BY <1>2, SubSeqProperties
  <1>4. /\ C!Front(s, n) \in Seq(Int) /\ Len(C!Front(s, n)) = n
        /\ \A k \in 1 .. n : C!Front(s, n)[k] = s[k]
    BY <1>1, <1>3
  <1>5. DOMAIN C!Front(s, n) = 1 .. n
    BY <1>4, LenProperties
  <1> QED
    BY <1>4, <1>5 DEF C!SetOf

LEMMA RestAt ==
    ASSUME NEW s \in Seq(Int), NEW n \in Nat, n <= Len(s)
    PROVE  \A k \in 1 .. Len(s) - n : C!Rest(s, n)[k] = s[k + n]
  <1>1. C!Rest(s, n) = SubSeq(s, n + 1, Len(s))
    BY DEF C!Rest
  <1>2. /\ Len(s) \in Nat /\ n + 1 \in Int
        /\ \A i \in n + 1 .. Len(s) : s[i] \in Int
    BY LenProperties
  <1>3. \A i \in 1 .. Len(s) - (n + 1) + 1 : SubSeq(s, n + 1, Len(s))[i] = s[n + 1 + i - 1]
    BY <1>2, SubSeqProperties
  <1> TAKE k \in 1 .. Len(s) - n
  <1>4. k \in 1 .. Len(s) - (n + 1) + 1 /\ n + 1 + k - 1 = k + n
    BY <1>2
  <1> QED
    BY <1>1, <1>3, <1>4

LEMMA JoinedAt ==
    ASSUME NEW s \in Seq(Int), NEW m \in Int, NEW n \in Nat
    PROVE  \A k \in 1 .. Len(s) + n :
              (s \o C!UpFrom(m, n))[k] = IF k <= Len(s) THEN s[k] ELSE m + (k - Len(s))
  <1>1. /\ C!UpFrom(m, n) \in Seq(Int) /\ Len(C!UpFrom(m, n)) = n
        /\ \A j \in 1 .. n : C!UpFrom(m, n)[j] = m + j
    BY IsASeq DEF C!UpFrom
  <1>2. Len(s) \in Nat
    BY LenProperties
  <1> TAKE k \in 1 .. Len(s) + n
  <1>3. (s \o C!UpFrom(m, n))[k] = IF k <= Len(s) THEN s[k] ELSE C!UpFrom(m, n)[k - Len(s)]
    BY <1>1, <1>2, ConcatProperties
  <1>4. k > Len(s) => k - Len(s) \in 1 .. n
    BY <1>2
  <1> QED
    BY <1>1, <1>3, <1>4

-----------------------------------------------------------------------------
(* What a step does to the ring: nothing, or one of three moves *)

Kept == UNCHANGED <<link_ring, made>>

Emptied == link_ring' = <<>> /\ made' = made /\ ~C!Lossless

\* The consumer has seen what leaves the ring for good.
Taken(n) ==
    /\ n \in 0 .. Len(link_ring)
    /\ link_ring' = C!Rest(link_ring, n) /\ made' = made
    /\ C!Bytewise \/ (n % C!Gran) = 0
    /\ C!Lossless => \A k \in 1 .. n : link_ring[k] \in seen'

\* The producer may not know of what it has put there.
Given(n) ==
    /\ n \in Nat
    /\ link_ring' = link_ring \o C!UpFrom(made, n) /\ made' \in {made, made + n}
    /\ C!Bytewise \/ (n % C!Gran) = 0

\* The buffer of the host's last read
Filled(n) ==
    /\ n \in 0 .. Len(link_ring)
    /\ got' = C!Front(link_ring, n)
    /\ C!Bytewise \/ (n % C!Gran) = 0

Moves ==
    /\ Kept \/ Emptied \/ (\E n \in Nat : Taken(n)) \/ (\E n \in Nat : Given(n))
    /\ got' = got \/ (\E n \in Nat : Filled(n))
    /\ seen \subseteq seen'

\* The command of a second access that the device accepts.
LEMMA CommandIs ==
    ASSUME C!LinkAssumption, Inv, C!InCommand, ~C!Refusal
    PROVE  /\ op = "Clean" => C!Command.ring = <<>>
           /\ op # "Clean" => len \in Nat /\ op \in C!Takes \cup C!Fills
           /\ op \in {"Read", "GranRead"} =>
                 /\ len <= Len(link_ring)
                 /\ C!Command.ring = C!Rest(link_ring, len) /\ C!Command.data = C!Front(link_ring, len)
           /\ op = "Peep" =>
                 /\ len <= Len(link_ring)
                 /\ C!Command.ring = link_ring /\ C!Command.data = C!Front(link_ring, len)
           /\ op \in C!Fills => C!Command.ring = link_ring \o C!UpFrom(made, len)
           /\ op = "ReadAir" => len <= Len(link_ring) /\ C!Command.ring = C!Rest(link_ring, len)
  <1>1. Len(link_ring) \in Nat /\ LinkCapacity \in Nat /\ Len(link_ring) <= LinkCapacity
    BY LenProperties DEF Inv, Types, C!LinkAssumption
  <1>2. op = "Clean" => C!Command.ring = <<>>
    BY DEF C!Command, C!CbWrite, C!CLEAN, C!WRITE, C!READAIR, C!Done
  <1>3. op # "Clean" => len \in Nat /\ op \in C!Takes \cup C!Fills
    BY DEF C!InCommand, Inv, Types
  <1>4. ASSUME op \in {"Read", "GranRead"}
        PROVE  /\ len <= Len(link_ring)
               /\ C!Command.ring = C!Rest(link_ring, len) /\ C!Command.data = C!Front(link_ring, len)
    <2>1. C!Command = C!CbRead(link_ring, C!READ, len) /\ len \in Nat
      BY <1>3, <1>4 DEF C!Command, C!Fills
    <2>2. C!Command = IF len <= C!RingSize(link_ring)
                      THEN C!Done(len, C!Front(link_ring, len), C!Rest(link_ring, len))
                      ELSE C!Refused(link_ring)
      BY <2>1, CbReadIs
    <2>3. len <= C!RingSize(link_ring)
      BY <1>1, <2>1, <2>2 DEF C!Refusal, C!Refused, C!RingSize
    <2> QED
      BY <2>2, <2>3 DEF C!Done, C!RingSize
  <1>5. ASSUME op = "Peep"
        PROVE  /\ len <= Len(link_ring)
               /\ C!Command.ring = link_ring /\ C!Command.data = C!Front(link_ring, len)
    <2>1. C!Command = C!CbRead(link_ring, C!PEEP, len) /\ len \in Nat
      BY <1>3, <1>5 DEF C!Command, C!Fills
    <2>2. C!Command = IF len <= C!RingSize(link_ring)
                      THEN C!Done(len, C!Front(link_ring, len), link_ring)
                      ELSE C!Refused(link_ring)
      BY <2>1, CbReadIs
    <2>3. len <= C!RingSize(link_ring)
      BY <1>1, <2>1, <2>2 DEF C!Refusal, C!Refused, C!RingSize
    <2> QED
      BY <2>2, <2>3 DEF C!Done, C!RingSize
  <1>6. ASSUME op \in C!Fills
        PROVE  C!Command.ring = link_ring \o C!UpFrom(made, len)
    <2>1. C!Command = C!CbWrite(link_ring, C!WRITE, len, C!UpFrom(made, len)) /\ len \in Nat
      BY <1>3, <1>6 DEF C!Command, C!Fills
    <2>2. C!Command = IF len <= C!RingFree(link_ring)
                      THEN C!Done(len, <<>>, link_ring \o C!UpFrom(made, len))
                      ELSE C!Refused(link_ring)
      BY <2>1 DEF C!CbWrite, C!WRITE, C!CLEAN, C!READAIR
    <2>3. len <= C!RingFree(link_ring)
      BY <1>1, <2>1, <2>2 DEF C!Refusal, C!Refused, C!RingFree
    <2> QED
      BY <2>2, <2>3 DEF C!Done
  <1>7. ASSUME op = "ReadAir"
        PROVE  len <= Len(link_ring) /\ C!Command.ring = C!Rest(link_ring, len)
    <2>1. C!Command = C!CbWrite(link_ring, C!READAIR, LinkCountSize, <<len>>) /\ len \in Nat
      BY <1>3, <1>7 DEF C!Command, C!Fills
    <2>2. C!Command = IF len <= C!RingSize(link_ring)
                      THEN C!Done(LinkCountSize, <<>>, C!Rest(link_ring, len))
                      ELSE C!Refused(link_ring)
      BY <2>1 DEF C!CbWrite, C!WRITE, C!CLEAN, C!READAIR
    <2>3. len <= C!RingSize(link_ring)
      BY <1>1, <2>1, <2>2 DEF C!Refusal, C!Refused, C!RingSize
    <2> QED
      BY <2>2, <2>3 DEF C!Done, C!RingSize
  <1> QED
    BY <1>2, <1>3, <1>4, <1>5, <1>6, <1>7

\* An empty range of the ring is one of whole elements.
LEMMA ZeroMod == ASSUME NEW g \in Nat \ {0} PROVE (0 % g) = 0
  BY SMT

\* A call that counts bytes makes a behaviour bytewise, any other goes for
\* whole elements.
LEMMA LenIsWhole ==
    ASSUME C!LinkAssumption, Inv, Whole, len >= 0, op \in C!Takes \cup C!Fills
    PROVE  C!Bytewise \/ (len % C!Gran) = 0
  <1>1. op \in C!Ops \cup {"none"} /\ op # "none"
    BY DEF Inv, Types, C!Takes, C!Fills
  <1> QED
    BY <1>1 DEF Whole, C!Bytewise, C!Takes, C!Fills

LEMMA DeviceMoves ==
    ASSUME C!LinkAssumption, LinkInv, UNCHANGED mode, NEW n \in Nat,
           C!DeviceWrite(n) \/ C!DeviceRead(n) \/ C!DeviceClear
    PROVE  Moves
  <1>1. link_ring \in Seq(Int) /\ made \in Int
    BY DEF LinkInv, Inv, Types
  <1>2. CASE C!DeviceWrite(n)
    <2>1. Given(n) /\ got' = got /\ seen' = seen
      BY <1>2 DEF C!DeviceWrite, Given
    <2> QED
      BY <2>1 DEF Moves
  <1>3. CASE C!DeviceRead(n)
    <2>1. n <= Len(link_ring) /\ n \in 0 .. Len(link_ring)
      BY <1>1, <1>3, LenProperties DEF C!DeviceRead, C!RingSize
    <2>2. seen' = seen \cup {link_ring[k] : k \in 1 .. n}
      BY <1>1, <1>3, <2>1, FrontOf DEF C!DeviceRead
    <2>3. Taken(n) /\ got' = got /\ seen \subseteq seen'
      BY <1>3, <2>1, <2>2 DEF C!DeviceRead, Taken
    <2> QED
      BY <2>3 DEF Moves
  <1>4. CASE C!DeviceClear
    BY <1>4 DEF C!DeviceClear, Moves, Emptied, C!Lossless
  <1> QED
    BY <1>2, <1>3, <1>4

\* What a successful write adds to what the producer knows of.
LEMMA MadeIs ==
    ASSUME C!LinkAssumption, Inv, Whole, len \in Nat, op \in C!Fills, C!CommandDone \/ made' # made,
           C!CommandDone \/ C!AnswerLost
    PROVE  made' = made + len
  <1>1. C!CommandDone
    BY DEF C!AnswerLost
  <1>2. made' = made + C!Result * (IF op = "GranWrite" THEN C!Gran ELSE 1)
    BY <1>1 DEF C!CommandDone
  <1>3. CASE op = "GranWrite"
    <2>1. (len % C!Gran) = 0 /\ C!Gran \in Nat \ {0}
      BY <1>3 DEF Whole, Inv, Types, C!LinkAssumption, C!Gran
    <2>2. len = C!Gran * (len \div C!Gran) /\ (len \div C!Gran) \in Int
      BY <2>1, ModIs
    <2>3. C!Result = len \div C!Gran
      BY <1>3 DEF C!Result
    <2> DEFINE q == len \div C!Gran
    <2>4. q \in Int /\ len = C!Gran * q /\ C!Result = q
      BY <2>2, <2>3
    <2> HIDE DEF q
    <2>5. C!Result * C!Gran = len
      BY <2>1, <2>4
    <2> QED
      BY <1>2, <1>3, <2>5
  <1>4. CASE op = "Write"
    <2>1. C!Result = len
      BY <1>4 DEF C!Result
    <2> QED
      BY <1>2, <1>4, <2>1
  <1> QED
    BY <1>3, <1>4 DEF C!Fills

\* An executed access, whether the host hears of it or not.
LEMMA CommandMoves ==
    ASSUME C!LinkAssumption, LinkInv, UNCHANGED mode, C!CommandDone \/ C!AnswerLost
    PROVE  Moves
  <1>1. /\ link_ring \in Seq(Int) /\ made \in Int /\ op \in C!Ops \cup {"none"}
        /\ C!InCommand /\ ~C!Refusal /\ Inv /\ Whole /\ link_ring' = C!Command.ring
    BY DEF LinkInv, Inv, Types, C!CommandDone, C!AnswerLost
  <1>2. seen \subseteq seen'
    BY DEF C!CommandDone, C!AnswerLost
  <1>3. op \notin C!Fills => made' = made
    BY DEF C!CommandDone, C!AnswerLost
  <1>4. op \notin {"Read", "GranRead", "Peep"} => got' = got
    BY DEF C!CommandDone, C!AnswerLost, C!Return
  <1>5. C!AnswerLost => got' = got /\ made' = made
    BY DEF C!AnswerLost, C!Return
  <1>6. CASE op = "Clean"
    <2>1. op \in C!Ops /\ link_ring' = <<>>
      BY <1>1, <1>6, CommandIs
    <2>2. Emptied
      BY <1>3, <1>6, <2>1 DEF Emptied, C!Lossless, C!Fills
    <2> QED
      BY <1>2, <1>4, <1>6, <2>2 DEF Moves
  <1>7. CASE op # "Clean"
    <2>1. len \in Nat /\ op \in C!Takes \cup C!Fills /\ op \in C!Ops
      BY <1>1, <1>7, CommandIs DEF C!Takes, C!Fills
    <2>2. C!Bytewise \/ (len % C!Gran) = 0
      BY <1>1, <2>1, LenIsWhole
    <2>3. CASE op \in {"Read", "GranRead"}
      <3>1. len \in 0 .. Len(link_ring) /\ link_ring' = C!Rest(link_ring, len) /\ C!Command.data = C!Front(link_ring, len)
        BY <1>1, <2>1, <2>3, CommandIs
      <3>2. ~C!Lossless /\ made' = made
        BY <1>3, <2>1, <2>3 DEF C!Lossless, C!Fills
      <3>3. Taken(len)
        BY <2>2, <3>1, <3>2 DEF Taken
      <3>4. C!CommandDone => Filled(len)
        BY <2>2, <2>3, <3>1 DEF C!CommandDone, C!Return, Filled
      <3> QED
        BY <1>2, <1>5, <2>1, <3>3, <3>4 DEF Moves
    <2>4. CASE op = "Peep"
      <3>1. len \in 0 .. Len(link_ring) /\ link_ring' = link_ring /\ C!Command.data = C!Front(link_ring, len)
        BY <1>1, <2>1, <2>4, CommandIs
      <3>2. Kept
        BY <1>3, <2>4, <3>1 DEF C!Fills, Kept
      <3>3. C!CommandDone => Filled(len)
        BY <2>2, <2>4, <3>1 DEF C!CommandDone, C!Return, Filled
      <3> QED
        BY <1>2, <1>5, <2>1, <3>2, <3>3 DEF Moves
    <2>5. CASE op \in C!Fills
      <3>1. link_ring' = link_ring \o C!UpFrom(made, len)
        BY <1>1, <2>5, CommandIs
      <3>2. C!CommandDone => made' = made + len
        BY <1>1, <2>1, <2>5, MadeIs
      <3>3. made' \in {made, made + len}
        BY <1>5, <3>2
      <3>4. Given(len)
        BY <2>1, <2>2, <3>1, <3>3 DEF Given
      <3> QED
        BY <1>2, <1>4, <2>1, <2>5, <3>4 DEF Moves, C!Fills
    <2>6. CASE op = "ReadAir"
      <3>1. len \in 0 .. Len(link_ring) /\ link_ring' = C!Rest(link_ring, len)
        BY <1>1, <2>1, <2>6, CommandIs
      <3>2. C!Lossless => \A k \in 1 .. len : link_ring[k] \in seen'
        BY <1>2, <2>1, <2>6 DEF LinkInv, Looked
      <3>3. Taken(len)
        BY <1>3, <2>2, <2>6, <3>1, <3>2 DEF Taken, C!Fills
      <3> QED
        BY <1>2, <1>4, <2>1, <2>6, <3>3 DEF Moves
    <2> QED
      BY <2>1, <2>3, <2>4, <2>5, <2>6 DEF C!Takes
  <1> QED
    BY <1>6, <1>7

LEMMA OtherMoves ==
    ASSUME \/ \E o \in C!Ops, n \in C!Sizes : C!Call(o, n)
           \/ C!SizeAnswered \/ C!BusFails \/ C!CommandRefused
    PROVE  Moves
  <1>1. UNCHANGED <<link_ring, made, seen, got>>
    BY DEF C!Call, C!SizeAnswered, C!BusFails, C!CommandRefused, C!Return
  <1> QED
    BY <1>1 DEF Moves, Kept

LEMMA MovesNext ==
    ASSUME C!LinkAssumption, LinkInv, [C!Next]_(C!vars)
    PROVE  Moves /\ UNCHANGED mode
  <1>1. CASE UNCHANGED mode /\ \E n \in 1 .. MaxByte : C!DeviceWrite(n) \/ C!DeviceRead(n)
    <2>1. PICK n \in 1 .. MaxByte : C!DeviceWrite(n) \/ C!DeviceRead(n)
      BY <1>1
    <2>2. n \in Nat
      OBVIOUS
    <2> QED
      BY <1>1, <2>1, <2>2, DeviceMoves
  <1>2. CASE UNCHANGED mode /\ C!DeviceClear
    <2>1. 0 \in Nat
      OBVIOUS
    <2> QED
      BY <1>2, <2>1, DeviceMoves
  <1>3. CASE /\ UNCHANGED mode
             /\ \/ \E o \in C!Ops, n \in C!Sizes : C!Call(o, n)
                \/ C!SizeAnswered \/ C!BusFails \/ C!CommandRefused
    BY <1>3, OtherMoves
  <1>4. CASE UNCHANGED mode /\ (C!CommandDone \/ C!AnswerLost)
    BY <1>4, CommandMoves
  <1>5. CASE UNCHANGED C!vars
    BY <1>5 DEF C!vars, Moves, Kept
  <1> QED
    BY <1>1, <1>2, <1>3, <1>4, <1>5 DEF C!Next

-----------------------------------------------------------------------------
(* The parts of the invariant, move by move *)

LEMMA SameMode ==
    ASSUME UNCHANGED mode
    PROVE  /\ C!Lossless' = C!Lossless /\ C!Bytewise' = C!Bytewise
           /\ C!Gran' = C!Gran /\ C!Producer' = C!Producer /\ C!MayClear' = C!MayClear
  BY DEF C!Lossless, C!Bytewise, C!Gran, C!Producer, C!MayClear, C!Ops, C!Careful

\* The order, for any sequence and any number of bytes made
Ordered(s, m) ==
    /\ \A k \in 1 .. Len(s) - 1 : s[k + 1] <= s[k] + 1
    /\ Len(s) > 0 => m <= s[Len(s)]

LEMMA OrderedRest ==
    ASSUME NEW s \in Seq(Int), NEW m \in Int, NEW n \in Nat, n <= Len(s), Ordered(s, m)
    PROVE  Ordered(C!Rest(s, n), m)
  <1> DEFINE t == C!Rest(s, n)
             l == Len(s)
  <1>1. /\ l \in Nat /\ Len(t) = l - n
        /\ \A k \in 1 .. l - n : t[k] = s[k + n]
    BY LenProperties, RestOf, RestAt
  <1>2. /\ \A k \in 1 .. l - 1 : s[k + 1] <= s[k] + 1
        /\ l > 0 => m <= s[l]
    BY DEF Ordered
  <1> SUFFICES Ordered(t, m)
    OBVIOUS
  <1> HIDE DEF t, l
  <1>3. ASSUME NEW k \in 1 .. (l - n) - 1 PROVE t[k + 1] <= t[k] + 1
    <2>1. k + n \in 1 .. l - 1 /\ k \in 1 .. l - n /\ k + 1 \in 1 .. l - n /\ (k + 1) + n = (k + n) + 1
      BY <1>1
    <2>2. t[k] = s[k + n] /\ t[k + 1] = s[(k + n) + 1]
      BY <1>1, <2>1
    <2> QED
      BY <1>2, <2>1, <2>2
  <1>4. ASSUME l - n > 0 PROVE m <= t[l - n]
    <2>1. l - n \in 1 .. l - n /\ (l - n) + n = l /\ l > 0
      BY <1>1, <1>4
    <2> QED
      BY <1>1, <1>2, <2>1
  <1> QED
    BY <1>1, <1>3, <1>4 DEF Ordered

LEMMA OrderedJoined ==
    ASSUME NEW s \in Seq(Int), NEW m \in Int, NEW n \in Nat, NEW h \in {m, m + n}, Ordered(s, m)
    PROVE  Ordered(s \o C!UpFrom(m, n), h)
  <1> DEFINE t == s \o C!UpFrom(m, n)
             l == Len(s)
  <1>1. /\ l \in Nat /\ Len(t) = l + n
        /\ \A k \in 1 .. l + n : t[k] = IF k <= l THEN s[k] ELSE m + (k - l)
    BY LenProperties, JoinedOf, JoinedAt
  <1>2. /\ \A k \in 1 .. l - 1 : s[k + 1] <= s[k] + 1
        /\ l > 0 => m <= s[l]
        /\ l > 0 => s[l] \in Int
    BY LenProperties DEF Ordered
  <1> SUFFICES Ordered(t, h)
    OBVIOUS
  <1> HIDE DEF t, l
  <1>3. ASSUME NEW k \in 1 .. (l + n) - 1 PROVE t[k + 1] <= t[k] + 1
    <2>0. k \in 1 .. l + n /\ k + 1 \in 1 .. l + n
      BY <1>1
    <2>1. CASE k < l
      <3>1. t[k] = s[k] /\ t[k + 1] = s[k + 1] /\ k \in 1 .. l - 1
        BY <1>1, <2>0, <2>1
      <3> QED
        BY <1>2, <3>1
    <2>2. CASE k = l
      <3>1. t[k] = s[l] /\ t[k + 1] = m + 1 /\ l > 0
        BY <1>1, <2>0, <2>2
      <3> QED
        BY <1>2, <3>1
    <2>3. CASE k > l
      <3>1. t[k] = m + (k - l) /\ t[k + 1] = m + (k + 1 - l)
        BY <1>1, <2>0, <2>3
      <3> QED
        BY <1>1, <3>1
    <2> QED
      BY <1>1, <2>1, <2>2, <2>3
  <1>4. ASSUME l + n > 0 PROVE h <= t[l + n]
    <2>1. l + n \in 1 .. l + n
      BY <1>1, <1>4
    <2>2. CASE n = 0
      BY <1>1, <1>2, <1>4, <2>1, <2>2
    <2>3. CASE n > 0
      <3>1. t[l + n] = m + n
        BY <1>1, <2>1, <2>3
      <3> QED
        BY <3>1
    <2> QED
      BY <2>2, <2>3
  <1> QED
    BY <1>1, <1>3, <1>4 DEF Ordered

\* The ring never skips a byte.
LEMMA OrderKept ==
    ASSUME Inv, C!InOrder, Newest, Moves
    PROVE  (C!InOrder /\ Newest)'
  <1>1. link_ring \in Seq(Int) /\ made \in Int
    BY DEF Inv, Types
  <1>2. Ordered(link_ring, made)
    BY DEF C!InOrder, Newest, Ordered
  <1>3. Ordered(link_ring', made')
    <2>1. CASE Kept
      BY <1>2, <2>1 DEF Kept
    <2>2. CASE Emptied
      <3>1. link_ring' = <<>> /\ Len(<<>>) = 0
        BY <2>2 DEF Emptied
      <3> QED
        BY <3>1 DEF Ordered
    <2>3. ASSUME NEW n \in Nat, Taken(n) PROVE Ordered(link_ring', made')
      <3>1. Len(link_ring) \in Nat /\ n <= Len(link_ring)
        BY <1>1, <2>3, LenProperties DEF Taken
      <3>2. link_ring' = C!Rest(link_ring, n) /\ made' = made
        BY <2>3 DEF Taken
      <3>3. Ordered(C!Rest(link_ring, n), made)
        BY <1>1, <1>2, <3>1, OrderedRest
      <3> QED
        BY <3>2, <3>3
    <2>4. ASSUME NEW n \in Nat, Given(n) PROVE Ordered(link_ring', made')
      <3>1. link_ring' = link_ring \o C!UpFrom(made, n) /\ made' \in {made, made + n}
        BY <2>4 DEF Given
      <3>2. \A h \in {made, made + n} : Ordered(link_ring \o C!UpFrom(made, n), h)
        BY <1>1, <1>2, OrderedJoined
      <3> QED
        BY <3>1, <3>2
    <2> QED
      BY <2>1, <2>2, <2>3, <2>4 DEF Moves
  <1> QED
    BY <1>3 DEF C!InOrder, Newest, Ordered

\* Nothing is lost.
LEMMA NothingLostKept ==
    ASSUME Inv, C!NothingLost, Moves, UNCHANGED mode
    PROVE  C!NothingLost'
  <1>1. link_ring \in Seq(Int) /\ Len(link_ring) \in Nat /\ made \in Int /\ DOMAIN link_ring = 1 .. Len(link_ring)
    BY LenProperties DEF Inv, Types
  <1> SUFFICES ASSUME C!Lossless
               PROVE  1 .. made' \subseteq C!SetOf(link_ring') \cup seen'
    BY SameMode DEF C!NothingLost
  <1>2. seen \subseteq seen' /\ \A b \in 1 .. made : b \in seen \/ \E k \in 1 .. Len(link_ring) : link_ring[k] = b
    BY <1>1 DEF C!NothingLost, C!SetOf, Moves
  <1>3. CASE Kept
    BY <1>3 DEF Kept, C!NothingLost, Moves
  <1>4. ASSUME NEW n \in Nat, Taken(n)
        PROVE  1 .. made' \subseteq C!SetOf(link_ring') \cup seen'
    <2>1. n <= Len(link_ring) /\ link_ring' = C!Rest(link_ring, n) /\ made' = made
      BY <1>1, <1>4 DEF Taken
    <2>2. /\ Len(C!Rest(link_ring, n)) = Len(link_ring) - n
          /\ \A k \in 1 .. Len(link_ring) - n : C!Rest(link_ring, n)[k] = link_ring[k + n]
          /\ DOMAIN C!Rest(link_ring, n) = 1 .. Len(link_ring) - n
      BY <1>1, <2>1, RestOf, RestAt, LenProperties
    <2>3. ASSUME NEW k \in 1 .. Len(link_ring) PROVE link_ring[k] \in C!SetOf(link_ring') \cup seen'
      <3>1. CASE k <= n
        BY <1>4, <3>1 DEF Taken
      <3>2. CASE k > n
        <4>1. k - n \in 1 .. Len(link_ring) - n /\ (k - n) + n = k
          BY <1>1, <2>1, <3>2
        <4>2. C!Rest(link_ring, n)[k - n] = link_ring[k]
          BY <2>2, <4>1
        <4> QED
          BY <2>1, <2>2, <4>1, <4>2 DEF C!SetOf
      <3> QED
        BY <3>1, <3>2
    <2> QED
      BY <1>2, <2>1, <2>3
  <1>5. ASSUME NEW n \in Nat, Given(n)
        PROVE  1 .. made' \subseteq C!SetOf(link_ring') \cup seen'
    <2>1. link_ring' = link_ring \o C!UpFrom(made, n) /\ made' \in {made, made + n}
      BY <1>5 DEF Given
    <2> DEFINE t == link_ring \o C!UpFrom(made, n)
               l == Len(link_ring)
    <2>2. /\ DOMAIN t = 1 .. l + n
          /\ \A k \in 1 .. l + n : t[k] = IF k <= l THEN link_ring[k] ELSE made + (k - l)
      <3>1. t \in Seq(Int) /\ Len(t) = l + n
        BY <1>1, JoinedOf
      <3>2. DOMAIN t = 1 .. Len(t)
        BY <3>1, LenProperties
      <3> QED
        BY <1>1, <3>1, <3>2, JoinedAt
    <2>3. C!SetOf(link_ring') = {t[k] : k \in 1 .. l + n}
      BY <2>1, <2>2 DEF C!SetOf
    <2>4. l \in Nat /\ \A b \in 1 .. made : b \in seen \/ \E k \in 1 .. l : link_ring[k] = b
      BY <1>1, <1>2
    <2> HIDE DEF t, l
    <2>5. ASSUME NEW b \in 1 .. made PROVE b \in seen \/ \E k \in 1 .. l + n : t[k] = b
      <3>1. CASE b \in seen
        BY <3>1
      <3>2. ASSUME NEW k \in 1 .. l, link_ring[k] = b PROVE \E j \in 1 .. l + n : t[j] = b
        <4>1. k \in 1 .. l + n /\ t[k] = link_ring[k]
          BY <2>2, <2>4
        <4> QED
          BY <3>2, <4>1
      <3> QED
        BY <2>4, <3>1, <3>2
    <2>6. ASSUME NEW b \in made + 1 .. made + n PROVE \E k \in 1 .. l + n : t[k] = b
      <3>1. l + (b - made) \in 1 .. l + n /\ l + (b - made) > l /\ made + (l + (b - made) - l) = b
        BY <1>1, <2>4
      <3>2. t[l + (b - made)] = b
        BY <1>1, <2>2, <2>4, <3>1
      <3> QED
        BY <3>1, <3>2
    <2>7. \A b \in 1 .. made' : b \in 1 .. made \/ b \in made + 1 .. made + n
      BY <1>1, <2>1
    <2> QED
      BY <1>2, <2>3, <2>5, <2>6, <2>7
  <1> QED
    BY <1>3, <1>4, <1>5 DEF Moves, Emptied

\* The remainder of an element's place in the ring by the size of an element
Placed(s, g) == (Len(s) % g) = 0 /\ \A k \in 1 .. Len(s) : (s[k] % g) = (k % g)

LEMMA PlacedRest ==
    ASSUME NEW g \in Nat \ {0}, NEW s \in Seq(Int), NEW n \in Nat, n <= Len(s), Placed(s, g), (n % g) = 0
    PROVE  Placed(C!Rest(s, n), g)
  <1> DEFINE t == C!Rest(s, n)
             l == Len(s)
  <1>1. /\ l \in Nat /\ Len(t) = l - n
        /\ \A k \in 1 .. l - n : t[k] = s[k + n]
    BY LenProperties, RestOf, RestAt
  <1>2. (l % g) = 0 /\ \A k \in 1 .. l : (s[k] % g) = (k % g)
    BY DEF Placed
  <1> SUFFICES Placed(t, g)
    OBVIOUS
  <1> HIDE DEF t, l
  <1>0. l \in Int /\ n \in Int
    BY <1>1
  <1>3. ((l - n) % g) = 0
    BY <1>2, <1>0, ModDifference, Zenon
  <1>4. ASSUME NEW k \in 1 .. l - n PROVE (t[k] % g) = (k % g)
    <2>1. k + n \in 1 .. l /\ k \in Int /\ n + k = k + n
      BY <1>1
    <2>2. ((n + k) % g) = (k % g)
      BY <1>0, <2>1, ModSum, Zenon
    <2>3. t[k] = s[k + n] /\ (s[k + n] % g) = ((k + n) % g)
      BY <1>1, <1>2, <2>1
    <2> QED
      BY <2>1, <2>2, <2>3
  <1> QED
    BY <1>1, <1>3, <1>4 DEF Placed

LEMMA PlacedFront ==
    ASSUME NEW g \in Nat \ {0}, NEW s \in Seq(Int), NEW n \in Nat, n <= Len(s), Placed(s, g), (n % g) = 0
    PROVE  Placed(C!Front(s, n), g)
  <1> DEFINE t == C!Front(s, n)
             l == Len(s)
  <1>1. /\ l \in Nat /\ n <= l /\ Len(t) = n
        /\ \A k \in 1 .. n : t[k] = s[k]
    BY LenProperties, FrontOf
  <1>2. \A k \in 1 .. l : (s[k] % g) = (k % g)
    BY DEF Placed
  <1> SUFFICES Placed(t, g)
    OBVIOUS
  <1> HIDE DEF t, l
  <1>3. \A k \in 1 .. n : k \in 1 .. l
    BY <1>1
  <1> QED
    BY <1>1, <1>2, <1>3 DEF Placed

LEMMA PlacedJoined ==
    ASSUME NEW g \in Nat \ {0}, NEW s \in Seq(Int), NEW m \in Int, NEW n \in Nat,
           Placed(s, g), (m % g) = 0, (n % g) = 0
    PROVE  Placed(s \o C!UpFrom(m, n), g)
  <1> DEFINE t == s \o C!UpFrom(m, n)
             l == Len(s)
  <1>1. /\ l \in Nat /\ Len(t) = l + n
        /\ \A k \in 1 .. l + n : t[k] = IF k <= l THEN s[k] ELSE m + (k - l)
    BY LenProperties, JoinedOf, JoinedAt
  <1>2. (l % g) = 0 /\ \A k \in 1 .. l : (s[k] % g) = (k % g)
    BY DEF Placed
  <1> SUFFICES Placed(t, g)
    OBVIOUS
  <1> HIDE DEF t, l
  <1>0. l \in Int /\ n \in Int
    BY <1>1
  <1>3. ((l + n) % g) = 0
    BY <1>2, <1>0, ModSum, Zenon
  <1>4. ASSUME NEW k \in 1 .. l + n PROVE (t[k] % g) = (k % g)
    <2>1. CASE k <= l
      <3>1. k \in 1 .. l /\ t[k] = s[k]
        BY <1>1, <2>1
      <3> QED
        BY <1>2, <3>1
    <2>2. CASE k > l
      <3>1. k - l \in Int /\ l + (k - l) = k /\ t[k] = m + (k - l)
        BY <1>1, <2>2
      <3>2. ((m + (k - l)) % g) = ((k - l) % g)
        BY <3>1, ModSum, Zenon
      <3>3. ((l + (k - l)) % g) = ((k - l) % g)
        BY <1>2, <1>0, <3>1, ModSum, Zenon
      <3> QED
        BY <3>1, <3>2, <3>3
    <2> QED
      BY <1>1, <2>1, <2>2
  <1> QED
    BY <1>1, <1>3, <1>4 DEF Placed

LEMMA PlacedIs ==
    ASSUME NEW s \in Seq(Int)
    PROVE  Placed(s, C!Gran) <=>
              (Len(s) % C!Gran) = 0 /\ \A k \in DOMAIN s : (s[k] % C!Gran) = (k % C!Gran)
  <1>1. DOMAIN s = 1 .. Len(s)
    BY LenProperties
  <1> QED
    BY <1>1 DEF Placed

LEMMA AlignedIs ==
    ASSUME Inv
    PROVE  Aligned <=> \/ C!Bytewise
                       \/ /\ got \in Seq(Int) /\ (made % C!Gran) = 0
                          /\ Placed(link_ring, C!Gran) /\ Placed(got, C!Gran)
  <1>1. link_ring \in Seq(Int)
    BY DEF Inv, Types
  <1>2. CASE ~C!Bytewise /\ got \in Seq(Int)
    BY <1>1, <1>2, PlacedIs, Zenon DEF Aligned, C!WholeElements
  <1> QED
    BY <1>2 DEF Aligned

\* An element is never torn.
LEMMA AlignedKept ==
    ASSUME C!LinkAssumption, Inv, Inv', Aligned, Moves, UNCHANGED mode
    PROVE  Aligned'
  <1> DEFINE g == C!Gran
  <1>1. link_ring \in Seq(Int) /\ made \in Int /\ g \in Nat \ {0} /\ C!Gran' = g /\ C!Bytewise' = C!Bytewise
    BY SameMode DEF Inv, Types, C!LinkAssumption, C!Gran
  <1>2. CASE C!Bytewise
    BY <1>1, <1>2 DEF Aligned
  <1>3. CASE ~C!Bytewise
    <2>1. /\ got \in Seq(Int) /\ (made % g) = 0
          /\ Placed(link_ring, g) /\ Placed(got, g)
      BY <1>3, AlignedIs
    <2> HIDE DEF g
    <2>2. got' \in Seq(Int) /\ Placed(got', g)
      <3>1. ASSUME NEW n \in Nat, Filled(n) PROVE got' \in Seq(Int) /\ Placed(got', g)
        <4>1. n <= Len(link_ring) /\ got' = C!Front(link_ring, n) /\ (n % g) = 0
          <5>1. Len(link_ring) \in Nat
            BY <1>1, LenProperties
          <5> QED
            BY <1>3, <3>1, <5>1 DEF Filled, g
        <4>2. C!Front(link_ring, n) \in Seq(Int)
          BY <1>1, <4>1, FrontOf
        <4>3. Placed(C!Front(link_ring, n), g)
          BY <1>1, <2>1, <4>1, PlacedFront
        <4> QED
          BY <4>1, <4>2, <4>3
      <3> QED
        BY <2>1, <3>1 DEF Moves
    <2>3. (made' % g) = 0 /\ Placed(link_ring', g)
      <3>1. CASE Kept
        BY <2>1, <3>1 DEF Kept
      <3>2. CASE Emptied
        <4>1. link_ring' = <<>> /\ made' = made /\ Len(<<>>) = 0
          BY <3>2 DEF Emptied
        <4>2. (0 % g) = 0
          BY <1>1, ZeroMod
        <4> QED
          BY <2>1, <4>1, <4>2 DEF Placed
      <3>3. ASSUME NEW n \in Nat, Taken(n) PROVE (made' % g) = 0 /\ Placed(link_ring', g)
        <4>1. n <= Len(link_ring) /\ link_ring' = C!Rest(link_ring, n) /\ made' = made /\ (n % g) = 0
          <5>1. Len(link_ring) \in Nat
            BY <1>1, LenProperties
          <5> QED
            BY <1>3, <3>3, <5>1 DEF Taken, g
        <4>2. Placed(C!Rest(link_ring, n), g)
          BY <1>1, <2>1, <4>1, PlacedRest
        <4> QED
          BY <2>1, <4>1, <4>2
      <3>4. ASSUME NEW n \in Nat, Given(n) PROVE (made' % g) = 0 /\ Placed(link_ring', g)
        <4>1. link_ring' = link_ring \o C!UpFrom(made, n) /\ made' \in {made, made + n} /\ (n % g) = 0
          BY <1>3, <3>4 DEF Given, g
        <4>2. Placed(link_ring \o C!UpFrom(made, n), g)
          BY <1>1, <2>1, <4>1, PlacedJoined
        <4>3. n \in Int
          OBVIOUS
        <4>4. ((made + n) % g) = 0
          BY <1>1, <2>1, <4>1, <4>3, ModSum, Zenon
        <4> QED
          BY <2>1, <4>1, <4>2, <4>4
      <3> QED
        BY <3>1, <3>2, <3>3, <3>4 DEF Moves
    <2>4. link_ring' \in Seq(Int)
      BY DEF Inv, Types
    <2>5. DOMAIN link_ring' = 1 .. Len(link_ring') /\ DOMAIN got' = 1 .. Len(got')
      BY <2>2, <2>4, LenProperties
    <2>6. C!Gran' = g
      BY <1>1 DEF g
    <2> QED
      BY <2>2, <2>3, <2>5, <2>6 DEF Aligned, C!WholeElements, Placed
  <1> QED
    BY <1>2, <1>3

\* A Gran call's length is a number of whole elements.
LEMMA WholeKept ==
    ASSUME C!LinkAssumption, Inv, Whole, [C!Next]_(C!vars), UNCHANGED mode
    PROVE  Whole'
  <1>1. C!Gran' = C!Gran
    BY SameMode
  <1>2. CASE len' = -1
    BY <1>2 DEF Whole
  <1>3. CASE UNCHANGED <<op, len>>
    BY <1>1, <1>3 DEF Whole
  <1>4. CASE C!SizeAnswered /\ len' = C!Length(C!Reported) /\ UNCHANGED op
    <2>1. SUFFICES ASSUME op \in {"GranRead", "GranWrite"}
                   PROVE  (C!Length(C!Reported) % C!Gran) = 0
      BY <1>1, <1>4 DEF Whole
    <2>2. C!Reported \in Nat /\ Types
      BY ReportedIs DEF Inv
    <2>3. (C!Length(C!Reported) % C!Gran) = 0
      BY <2>1, <2>2, LengthIsWhole
    <2> QED
      BY <2>3
  <1>5. len' = -1 \/ UNCHANGED <<op, len>> \/ (C!SizeAnswered /\ len' = C!Length(C!Reported) /\ UNCHANGED op)
    BY DEF C!Next, C!vars, C!DeviceWrite, C!DeviceRead, C!DeviceClear, C!Call, C!SizeAnswered, C!BusFails,
           C!CommandDone, C!CommandRefused, C!AnswerLost, C!Return
  <1> QED
    BY <1>2, <1>3, <1>4, <1>5

\* What has been peeped at stays in front of the ring until it is taken.
LEMMA LookedKept ==
    ASSUME C!LinkAssumption, Inv, Looked, [C!Next]_(C!vars), UNCHANGED mode
    PROVE  Looked'
  <1> DEFINE Goal == /\ peeped' \in Nat /\ peeped' <= Len(link_ring')
                     /\ \A k \in 1 .. peeped' : link_ring'[k] \in seen'
                     /\ C!Producer = "host" => peeped' = 0
                     /\ op' = "ReadAir" => size' <= peeped' /\ len' <= peeped'
  <1> SUFFICES ASSUME C!Lossless PROVE Goal
    BY SameMode DEF Looked
  <1>1. /\ peeped \in Nat /\ peeped <= Len(link_ring)
        /\ \A k \in 1 .. peeped : link_ring[k] \in seen
        /\ C!Producer = "host" => peeped = 0
        /\ op = "ReadAir" => size <= peeped /\ len <= peeped
    BY DEF Looked
  <1>2. /\ link_ring \in Seq(Int) /\ Len(link_ring) \in Nat /\ made \in Int /\ size \in Nat
        /\ mode \in Modes /\ op \in C!Ops \cup {"none"}
        /\ len \in Int /\ len >= -1 /\ Types
    BY LenProperties DEF Inv, Types
  <1>3. UNCHANGED <<link_ring, seen, peeped, op, size, len>> => Goal
    BY <1>1
  \* Back to no call
  <1>4. ASSUME UNCHANGED <<link_ring, seen>>, peeped' \in {0, peeped}, op' = "none" PROVE Goal
    <2>1. CASE peeped' = 0
      BY <1>2, <1>4, <2>1
    <2>2. CASE peeped' = peeped
      BY <1>1, <1>4, <2>2
    <2> QED
      BY <1>4, <2>1, <2>2
  <1>5. ASSUME NEW n \in Nat, C!DeviceWrite(n) PROVE Goal
    <2>1. link_ring' = link_ring \o C!UpFrom(made, n) /\ UNCHANGED <<seen, peeped, op, size, len>>
      BY <1>5 DEF C!DeviceWrite
    <2>2. /\ Len(link_ring \o C!UpFrom(made, n)) = Len(link_ring) + n
          /\ \A k \in 1 .. Len(link_ring) + n :
                (link_ring \o C!UpFrom(made, n))[k] =
                    IF k <= Len(link_ring) THEN link_ring[k] ELSE made + (k - Len(link_ring))
      BY <1>2, JoinedOf, JoinedAt
    <2>3. peeped <= Len(link_ring) + n /\ \A k \in 1 .. peeped : k \in 1 .. Len(link_ring) + n /\ k <= Len(link_ring)
      BY <1>1, <1>2
    <2>4. \A k \in 1 .. peeped : (link_ring \o C!UpFrom(made, n))[k] = link_ring[k]
      BY <2>2, <2>3
    <2> QED
      BY <1>1, <2>1, <2>2, <2>3, <2>4
  <1>6. ASSUME NEW n \in Nat, C!DeviceRead(n) PROVE Goal
    <2>1. C!Producer = "host" /\ UNCHANGED <<peeped, op, size, len>>
      BY <1>6 DEF C!DeviceRead
    <2>2. link_ring' = C!Rest(link_ring, n) /\ n <= Len(link_ring)
      BY <1>6 DEF C!DeviceRead, C!RingSize
    <2>3. peeped' = 0 /\ Len(link_ring') \in Nat
      <3>1. Len(C!Rest(link_ring, n)) = Len(link_ring) - n
        BY <1>2, <2>2, RestOf
      <3> QED
        BY <1>1, <1>2, <2>1, <2>2, <3>1
    <2> QED
      BY <1>1, <2>1, <2>3
  <1>7. ASSUME NEW o \in C!Ops, NEW n \in C!Sizes, C!Call(o, n) PROVE Goal
    <2>1. UNCHANGED <<link_ring, seen, peeped>> /\ op' = o /\ size' = n /\ len' = -1
      BY <1>7 DEF C!Call
    <2>2. o = "ReadAir" => n = peeped
      BY <1>7 DEF C!Call, C!Sensible, C!Lossless
    <2> QED
      BY <1>1, <2>1, <2>2
  <1>8. CASE C!SizeAnswered
    <2>1. UNCHANGED <<link_ring, seen, peeped>>
      BY <1>8 DEF C!SizeAnswered
    <2>2. op' = "none" \/ (UNCHANGED <<op, size>> /\ len' = C!Length(C!Reported))
      BY <1>8 DEF C!SizeAnswered, C!Return
    <2>3. CASE op' = "none"
      BY <1>4, <2>1, <2>3
    <2>4. CASE UNCHANGED <<op, size>> /\ len' = C!Length(C!Reported)
      <3>1. ASSUME op = "ReadAir" PROVE len' <= peeped
        <4>1. C!Reported \in Nat
          BY <1>2, ReportedIs
        <4>2. C!Length(C!Reported) \in Nat /\ C!Length(C!Reported) <= size
          BY <1>2, <3>1, <4>1, LengthAsAsked, LengthFits
        <4> QED
          BY <1>1, <1>2, <2>4, <3>1, <4>2
      <3> QED
        BY <1>1, <2>1, <2>4, <3>1
    <2> QED
      BY <2>2, <2>3, <2>4
  <1>9. CASE C!BusFails \/ C!CommandRefused
    BY <1>4, <1>9 DEF C!BusFails, C!CommandRefused, C!Return
  <1>10. CASE C!CommandDone \/ C!AnswerLost
    <2>1. op' = "none" /\ link_ring' = C!Command.ring /\ C!InCommand /\ ~C!Refusal /\ seen \subseteq seen'
      BY <1>10 DEF C!CommandDone, C!AnswerLost, C!Return
    <2>2. CASE peeped' = 0
      <3>1. link_ring' \in Seq(Int)
        BY <2>1, CommandRing
      <3>2. Len(link_ring') \in Nat
        BY <3>1, LenProperties
      <3> QED
        BY <2>1, <2>2, <3>2
    <2>3. CASE C!CommandDone /\ op = "Peep" /\ peeped' = len
      <3>1. /\ len \in Nat /\ len <= Len(link_ring)
            /\ link_ring' = link_ring /\ C!Command.data = C!Front(link_ring, len)
        BY <2>1, <2>3, CommandIs
      <3>2. seen' = seen \cup {link_ring[k] : k \in 1 .. len}
        BY <1>2, <2>3, <3>1, FrontOf DEF C!CommandDone
      <3>3. C!Producer # "host"
        BY <1>2, <2>3 DEF C!LinkAssumption, C!OneUser, C!Producer, C!Ops, C!Takes
      <3> QED
        BY <2>1, <2>3, <3>1, <3>2, <3>3
    <2> QED
      BY <1>10, <2>2, <2>3 DEF C!CommandDone, C!AnswerLost
  <1>11. ~C!DeviceClear
    BY DEF C!DeviceClear, C!Lossless
  <1>12. (\E n \in 1 .. MaxByte : C!DeviceWrite(n) \/ C!DeviceRead(n)) => Goal
    <2>1. \A n \in 1 .. MaxByte : n \in Nat
      OBVIOUS
    <2> QED
      BY <1>5, <1>6, <2>1
  <1> HIDE DEF Goal
  <1> QED
    BY <1>3, <1>7, <1>8, <1>9, <1>10, <1>11, <1>12 DEF C!Next, C!vars

LEMMA LinkInvInit == ASSUME C!LinkAssumption, C!Init PROVE LinkInv
  <1>1. Inv
    BY InvInit
  <1>2. /\ link_ring = <<>> /\ made = 0 /\ op = "none" /\ len = -1 /\ got = <<>> /\ peeped = 0
        /\ Len(<<>>) = 0 /\ <<>> \in Seq(Int) /\ mode \in Modes
    BY DEF C!Init
  <1>3. C!InOrder /\ Newest /\ Whole /\ Looked /\ C!NothingLost
    BY <1>2 DEF C!InOrder, Newest, Whole, Looked, C!NothingLost
  <1>4. Aligned
    <2>1. C!Gran \in Nat \ {0}
      BY <1>2 DEF C!LinkAssumption, C!Gran
    <2>2. (0 % C!Gran) = 0
      BY <2>1, ZeroMod
    <2>3. Placed(<<>>, C!Gran)
      BY <1>2, <2>2 DEF Placed
    <2> QED
      BY <1>1, <1>2, <2>2, <2>3, AlignedIs
  <1> QED
    BY <1>1, <1>3, <1>4 DEF LinkInv

LEMMA LinkInvNext ==
    ASSUME C!LinkAssumption, LinkInv, [C!Next]_(C!vars)
    PROVE  LinkInv'
  <1>1. Inv /\ Inv' /\ Moves /\ UNCHANGED mode
    BY InvNext, MovesNext DEF LinkInv
  <1>2. (C!InOrder /\ Newest)'
    BY <1>1, OrderKept DEF LinkInv
  <1>3. C!NothingLost'
    BY <1>1, NothingLostKept DEF LinkInv
  <1>4. Aligned'
    BY <1>1, AlignedKept DEF LinkInv
  <1>5. Whole'
    BY <1>1, WholeKept DEF LinkInv
  <1>6. Looked'
    BY <1>1, LookedKept DEF LinkInv
  <1> QED
    BY <1>1, <1>2, <1>3, <1>4, <1>5, <1>6 DEF LinkInv

LEMMA LinkStep ==
  /\ DevicesInit => LinkInv
  /\ LinkInv /\ [DevicesNext]_devicevars => LinkInv'
  <1>1. DevicesInit => LinkInv
    BY LinkInvInit, DevicesAssumption DEF DevicesInit
  <1>2. ASSUME LinkInv, [DevicesNext]_devicevars PROVE LinkInv'
    <2>1. C!Next \/ UNCHANGED C!vars
      BY <1>2 DEF DevicesNext, devicevars, linkvars, C!vars
    <2> QED
      BY <1>2, <2>1, LinkInvNext, DevicesAssumption
  <1> QED
    BY <1>1, <1>2

\* Whatever access fails and wherever, a byte that the producer knows to be in
\* the ring is in the ring or has been handed to the consumer: for every size of
\* the ring and of the reads, as long as each end has one user, and a reading
\* host peeps before it takes.
THEOREM BytesAreNotLost == DevicesSpec => []NothingLost
  <1>1. LinkInv => NothingLost
    BY DEF LinkInv, NothingLost
  <1> QED
    BY <1>1, LinkStep, PTL DEF DevicesSpec

\* Whatever fails, is repeated, refused or answered late, the ring never skips a
\* byte, and with the Gran calls the ring and the host's buffer begin and end
\* with a whole element, for elements of every size.
THEOREM ElementsStayWhole == DevicesSpec => []RingIsSound
  <1>1. LinkInv => RingIsSound
    BY DEF LinkInv, Aligned, RingIsSound, C!RingIsSound, C!WholeElements
  <1> QED
    BY <1>1, LinkStep, PTL DEF DevicesSpec

LEMMA DeliveredStep ==
    ASSUME C!LinkAssumption, LinkInv, [C!Next]_(C!vars),
           len > 0, op \in {"Read", "GranRead", "Peep"}, op' = "none", link_ret' >= 0
    PROVE  Len(got') = link_ret' * C!Elements(op)
  <1>1. len \in Int /\ link_ring \in Seq(Int) /\ Inv /\ Whole /\ op # "Clean" /\ mode \in Modes
    BY DEF LinkInv, Inv, Types
  <1>2. ~(link_ret' = -1)
    OBVIOUS
  <1>3. C!CommandDone
    <2>1. UNCHANGED op => FALSE
      OBVIOUS
    <2>2. ~C!SizeAnswered
      BY <1>1 DEF C!SizeAnswered
    <2> QED
      BY <1>2, <2>1, <2>2 DEF C!Next, C!vars, C!DeviceWrite, C!DeviceRead, C!DeviceClear, C!Call, C!BusFails,
           C!CommandRefused, C!AnswerLost, C!Return
  <1>4. /\ len \in Nat /\ len <= Len(link_ring) /\ C!Command.data = C!Front(link_ring, len)
    BY <1>1, <1>3, CommandIs DEF C!CommandDone
  <1>5. got' = C!Front(link_ring, len) /\ link_ret' = C!Result
    BY <1>3, <1>4 DEF C!CommandDone, C!Return
  <1>6. Len(got') = len
    BY <1>1, <1>4, <1>5, FrontOf
  <1>7. CASE op = "GranRead"
    <2>1. C!Gran \in Nat \ {0} /\ (len % C!Gran) = 0
      BY <1>1, <1>4, <1>7 DEF Whole, C!LinkAssumption, C!Gran
    <2>2. len = C!Gran * (len \div C!Gran) /\ (len \div C!Gran) \in Int
      BY <1>1, <2>1, ModIs
    <2>3. C!Result = len \div C!Gran /\ C!Elements(op) = C!Gran
      BY <1>7 DEF C!Result, C!Elements
    <2> DEFINE q == len \div C!Gran
               g == C!Gran
    <2>4. q \in Int /\ g \in Nat /\ len = g * q /\ link_ret' = q /\ C!Elements(op) = g
      BY <1>5, <2>1, <2>2, <2>3
    <2> HIDE DEF q, g
    <2>5. q * g = g * q
      BY <2>4
    <2> QED
      BY <1>6, <2>4, <2>5
  <1>8. CASE op # "GranRead"
    <2>1. C!Result = len /\ C!Elements(op) = 1
      BY <1>1, <1>8 DEF C!Result, C!Elements
    <2> QED
      BY <1>1, <1>5, <1>6, <2>1
  <1> QED
    BY <1>7, <1>8

\* A call that reports success has filled as much of the host's buffer as it
\* returns, also when the device's program has used or emptied the ring between
\* its two accesses, for elements and sizes of every length.
THEOREM WhatIsReportedIsThere == DevicesSpec => ReportedIsDelivered
  <1>1. LinkInv /\ [DevicesNext]_devicevars =>
            [len > 0 /\ op \in {"Read", "GranRead", "Peep"} /\ op' = "none" /\ link_ret' >= 0
                => Len(got') = link_ret' * C!Elements(op)]_(C!vars)
    <2> SUFFICES ASSUME LinkInv, [DevicesNext]_devicevars,
                        len > 0, op \in {"Read", "GranRead", "Peep"}, op' = "none", link_ret' >= 0
                 PROVE  Len(got') = link_ret' * C!Elements(op)
      OBVIOUS
    <2>1. C!Next \/ UNCHANGED C!vars
      BY DEF DevicesNext, devicevars, linkvars, C!vars
    <2> QED
      BY <2>1, DeliveredStep, DevicesAssumption
  <1> QED
    BY <1>1, LinkStep, PTL DEF DevicesSpec, ReportedIsDelivered, C!ReportedIsDelivered

-----------------------------------------------------------------------------
(* The types of the link *)

LinkTypes ==
    /\ C!SetOf(link_ring) \subseteq C!Bytes /\ C!SetOf(got) \subseteq C!Bytes /\ seen \subseteq C!Bytes
    /\ made \in 0 .. MaxByte
    /\ size \in C!Sizes \cup {0}
    /\ len <= LinkCapacity
    /\ link_ret \in -1 .. LinkCapacity
    /\ peeped \in 0 .. LinkCapacity

\* A host that writes does not go beyond the bytes there are.
Room ==
    /\ op = "Write" => made + size <= MaxByte
    /\ op = "GranWrite" => made + size * C!Gran <= MaxByte
    /\ op \in C!Fills /\ len >= 0 => made + len <= MaxByte

LEMMA SetsOf ==
    ASSUME NEW s \in Seq(Int), NEW n \in Nat, NEW m \in Int
    PROVE  /\ n <= Len(s) => C!SetOf(C!Front(s, n)) \subseteq C!SetOf(s)
           /\ n <= Len(s) => C!SetOf(C!Rest(s, n)) \subseteq C!SetOf(s)
           /\ C!SetOf(s \o C!UpFrom(m, n)) \subseteq C!SetOf(s) \cup (m + 1 .. m + n)
  <1>1. Len(s) \in Nat /\ C!SetOf(s) = {s[k] : k \in 1 .. Len(s)}
    BY LenProperties DEF C!SetOf
  <1>2. ASSUME n <= Len(s) PROVE C!SetOf(C!Front(s, n)) \subseteq C!SetOf(s)
    <2>1. C!SetOf(C!Front(s, n)) = {s[k] : k \in 1 .. n}
      BY <1>2, FrontOf
    <2>2. \A k \in 1 .. n : k \in 1 .. Len(s)
      BY <1>1, <1>2
    <2> QED
      BY <1>1, <2>1, <2>2
  <1>3. ASSUME n <= Len(s) PROVE C!SetOf(C!Rest(s, n)) \subseteq C!SetOf(s)
    <2> DEFINE t == C!Rest(s, n)
               l == Len(s)
    <2>1. t \in Seq(Int) /\ Len(t) = l - n
      BY <1>3, RestOf
    <2>2. C!SetOf(t) = {t[k] : k \in 1 .. l - n}
      BY <2>1, LenProperties DEF C!SetOf
    <2>3. \A k \in 1 .. l - n : t[k] = s[k + n]
      BY <1>3, RestAt
    <2>4. l \in Nat /\ n <= l /\ C!SetOf(s) = {s[k] : k \in 1 .. l}
      BY <1>1, <1>3
    <2> HIDE DEF t, l
    <2>5. \A k \in 1 .. l - n : k + n \in 1 .. l
      BY <2>4
    <2> QED
      BY <2>2, <2>3, <2>4, <2>5 DEF t
  <1>4. C!SetOf(s \o C!UpFrom(m, n)) \subseteq C!SetOf(s) \cup (m + 1 .. m + n)
    <2> DEFINE t == s \o C!UpFrom(m, n)
               l == Len(s)
    <2>1. t \in Seq(Int) /\ Len(t) = l + n
      BY JoinedOf
    <2>2. C!SetOf(t) = {t[k] : k \in 1 .. l + n}
      BY <2>1, LenProperties DEF C!SetOf
    <2>3. \A k \in 1 .. l + n : t[k] = IF k <= l THEN s[k] ELSE m + (k - l)
      BY JoinedAt
    <2>4. l \in Nat /\ C!SetOf(s) = {s[k] : k \in 1 .. l}
      BY <1>1
    <2> HIDE DEF t, l
    <2>5. ASSUME NEW k \in 1 .. l + n PROVE t[k] \in C!SetOf(s) \cup (m + 1 .. m + n)
      <3>1. CASE k <= l
        <4>1. t[k] = s[k] /\ k \in 1 .. l
          BY <2>3, <2>4, <3>1
        <4> QED
          BY <2>4, <4>1
      <3>2. CASE k > l
        <4>1. t[k] = m + (k - l)
          BY <2>3, <2>4, <3>2
        <4>2. m + (k - l) \in m + 1 .. m + n
          BY <2>4, <3>2
        <4> QED
          BY <4>1, <4>2
      <3> QED
        BY <2>4, <3>1, <3>2
    <2> QED
      BY <2>2, <2>5 DEF t
  <1> QED
    BY <1>2, <1>3, <1>4

LEMMA ReportedInRange ==
    ASSUME C!LinkAssumption, Types
    PROVE  C!Reported \in 0 .. LinkCapacity
  <1>1. Len(link_ring) \in 0 .. LinkCapacity /\ LinkCapacity - Len(link_ring) \in 0 .. LinkCapacity
    BY LenProperties DEF C!LinkAssumption, Types
  <1>2. \/ C!Reported = C!RingFree(link_ring)
        \/ C!Reported = C!RingSize(link_ring)
    BY CbReadIs DEF C!Reported, C!SizeReg
  <1> QED
    BY <1>1, <1>2 DEF C!RingFree, C!RingSize

\* A Gran call goes for the elements it was asked for at most.
LEMMA GranLength ==
    ASSUME C!LinkAssumption, Types, NEW n \in Nat, op \in {"GranRead", "GranWrite"}
    PROVE  C!Length(n) <= size * C!Gran
  <1>1. W16 \in Nat \ {0} /\ C!Gran \in 1 .. W16 - 1 /\ C!Gran \in Nat \ {0} /\ size \in Nat
    BY DEF C!LinkAssumption, Types, C!Gran
  <1>2. (size % W16) \in 0 .. W16 - 1 /\ (n % W16) \in 0 .. W16 - 1 /\ (size % W16) <= size
    BY <1>1, DivMod
  <1> DEFINE r == n % W16
             q == r \div C!Gran
             e == C!LessOf(size % W16, q)
             g == C!Gran
  <1>3. q \in Nat
    <2>1. r \in Nat
      BY <1>2
    <2> HIDE DEF r
    <2> QED
      BY <1>1, <2>1, DivMod
  <1> HIDE DEF q
  <1>4. e \in Nat /\ e <= size
    BY <1>1, <1>2, <1>3 DEF C!LessOf
  <1>5. C!Length(n) = (e * g) % W16
    BY DEF C!Length, q
  <1>6. g \in Nat
    BY <1>1
  <1> HIDE DEF e, g
  <1>7. e * g \in Nat /\ e * g <= g * size
    BY <1>1, <1>4, <1>6, TimesMonotone
  <1> DEFINE p == e * g
  <1>8. p \in Nat /\ p <= g * size /\ C!Length(n) = (p % W16)
    BY <1>5, <1>7
  <1> HIDE DEF p
  <1>9. (p % W16) <= p /\ (p % W16) \in 0 .. W16 - 1
    BY <1>1, <1>8, DivMod
  <1>10. g * size = size * g /\ size * g \in Int
    BY <1>1, <1>6
  <1>11. (p % W16) \in Int
    BY <1>1, <1>9
  <1> QED
    BY <1>8, <1>9, <1>10, <1>11 DEF g

LEMMA RoomKept ==
    ASSUME C!LinkAssumption, Inv, Room, [C!Next]_(C!vars), UNCHANGED mode
    PROVE  Room'
  <1>1. /\ C!Gran' = C!Gran /\ C!Gran \in Nat \ {0} /\ made \in Int /\ size \in Nat /\ Types
        /\ mode \in Modes /\ op \in C!Ops \cup {"none"} /\ len \in Int
    BY SameMode DEF Inv, Types, C!LinkAssumption, C!Gran
  <1>2. CASE op' = "none"
    BY <1>2 DEF Room, C!Fills
  <1>3. CASE UNCHANGED <<op, size, len, made>>
    BY <1>1, <1>3 DEF Room
  <1>4. ASSUME NEW n \in Nat, C!DeviceWrite(n) PROVE Room'
    <2>1. op \notin C!Fills /\ UNCHANGED op
      BY <1>1, <1>4 DEF C!LinkAssumption, C!OneUser, C!DeviceWrite, C!Producer, C!Ops, C!Fills
    <2> QED
      BY <2>1 DEF Room, C!Fills
  <1>5. ASSUME NEW o \in C!Ops, NEW n \in C!Sizes, C!Call(o, n) PROVE Room'
    BY <1>1, <1>5 DEF C!Call, C!Sensible, Room
  <1>6. CASE UNCHANGED <<op, size, made>> /\ len' = C!Length(C!Reported)
    <2>1. C!Reported \in Nat
      BY <1>1, ReportedIs
    <2>2. C!Length(C!Reported) \in Nat
      BY <1>1, <2>1, LengthFits
    <2>3. op = "Write" => C!Length(C!Reported) <= size
      BY <1>1, <2>1, LengthAsAsked
    <2>4. op = "GranWrite" => C!Length(C!Reported) <= size * C!Gran
      BY <1>1, <2>1, GranLength
    <2> DEFINE l == C!Length(C!Reported)
               p == size * C!Gran
    <2>5. p \in Int
      <3> DEFINE g == C!Gran
      <3>1. g \in Int
        BY <1>1
      <3> HIDE DEF g
      <3>2. size * g \in Int
        BY <1>1, <3>1
      <3> QED
        BY <3>2 DEF g
    <2>6. /\ l \in Nat /\ (op = "Write" => l <= size) /\ (op = "GranWrite" => l <= p)
          /\ op = "Write" => made + size <= MaxByte
          /\ op = "GranWrite" => made + p <= MaxByte
          /\ MaxByte \in Nat
      BY <2>2, <2>3, <2>4 DEF Room, C!LinkAssumption
    <2> HIDE DEF l, p
    <2>7. op \in C!Fills => made + l <= MaxByte
      BY <1>1, <2>5, <2>6 DEF C!Fills
    <2> QED
      BY <1>1, <1>6, <2>7 DEF Room, l
  <1>8. (\E n \in 1 .. MaxByte : C!DeviceWrite(n) \/ C!DeviceRead(n)) => Room'
    <2> SUFFICES ASSUME NEW n \in 1 .. MaxByte, C!DeviceWrite(n) \/ C!DeviceRead(n) PROVE Room'
      OBVIOUS
    <2>1. n \in Nat
      BY DEF C!LinkAssumption
    <2>2. C!DeviceRead(n) => UNCHANGED <<op, size, len, made>>
      BY DEF C!DeviceRead
    <2> QED
      BY <1>3, <1>4, <2>1, <2>2
  <1>9. C!DeviceClear \/ UNCHANGED C!vars => UNCHANGED <<op, size, len, made>>
    BY DEF C!DeviceClear, C!vars
  <1>10. C!SizeAnswered => op' = "none" \/ (UNCHANGED <<op, size, made>> /\ len' = C!Length(C!Reported))
    BY DEF C!SizeAnswered, C!Return
  <1>11. C!BusFails \/ C!CommandDone \/ C!CommandRefused \/ C!AnswerLost => op' = "none"
    BY DEF C!BusFails, C!CommandDone, C!CommandRefused, C!AnswerLost, C!Return
  <1> QED
    BY <1>2, <1>3, <1>5, <1>6, <1>8, <1>9, <1>10, <1>11 DEF C!Next

\* The bytes that the device's program or a command puts into the ring exist.
LEMMA RingBytes ==
    ASSUME C!LinkAssumption, Inv, LinkTypes, NEW n \in Nat, made + n <= MaxByte
    PROVE  C!SetOf(link_ring \o C!UpFrom(made, n)) \subseteq C!Bytes
  <1>1. link_ring \in Seq(Int) /\ made \in 0 .. MaxByte /\ MaxByte \in Nat
        /\ C!SetOf(link_ring) \subseteq 1 .. MaxByte
    BY DEF Inv, Types, LinkTypes, C!LinkAssumption, C!Bytes
  <1>2. C!SetOf(link_ring \o C!UpFrom(made, n)) \subseteq C!SetOf(link_ring) \cup (made + 1 .. made + n)
    BY <1>1, SetsOf
  <1>3. (made + 1 .. made + n) \subseteq 1 .. MaxByte
    BY <1>1
  <1> QED
    BY <1>1, <1>2, <1>3 DEF C!Bytes

\* An executed command
LEMMA CommandTypes ==
    ASSUME C!LinkAssumption, Inv, Whole, LinkTypes, Room, UNCHANGED mode, C!CommandDone \/ C!AnswerLost
    PROVE  LinkTypes'
  <1>1. /\ link_ring \in Seq(Int) /\ Len(link_ring) \in Nat /\ Len(link_ring) <= LinkCapacity
        /\ made \in 0 .. MaxByte /\ MaxByte \in Nat /\ LinkCapacity \in Nat
        /\ C!SetOf(link_ring) \subseteq C!Bytes /\ C!SetOf(got) \subseteq C!Bytes /\ seen \subseteq C!Bytes
        /\ len \in Int /\ len <= LinkCapacity
        /\ C!InCommand /\ ~C!Refusal /\ link_ring' = C!Command.ring
    BY LenProperties DEF Inv, Types, LinkTypes, C!LinkAssumption, C!CommandDone, C!AnswerLost
  <1>2. size' = 0 /\ len' = -1
    BY DEF C!CommandDone, C!AnswerLost, C!Return
  <1>3. op # "Clean" => len \in Nat /\ op \in C!Takes \cup C!Fills
    BY <1>1, CommandIs
  <1>4. C!SetOf(link_ring') \subseteq C!Bytes
    <2>1. CASE op = "Clean"
      <3>1. link_ring' = <<>> /\ DOMAIN <<>> = {}
        BY <1>1, <2>1, CommandIs
      <3> QED
        BY <3>1 DEF C!SetOf
    <2>2. CASE op \in {"Read", "GranRead", "ReadAir"}
      <3>1. len \in Nat /\ len <= Len(link_ring) /\ link_ring' = C!Rest(link_ring, len)
        BY <1>1, <1>3, <2>2, CommandIs
      <3> QED
        BY <1>1, <3>1, SetsOf
    <2>3. CASE op = "Peep"
      BY <1>1, <2>3, CommandIs
    <2>4. CASE op \in C!Fills
      <3>1. len \in Nat /\ made + len <= MaxByte
        BY <1>3, <2>4 DEF Room, C!Fills
      <3> QED
        BY <1>1, <2>4, <3>1, CommandIs, RingBytes
    <2> QED
      BY <1>3, <2>1, <2>2, <2>3, <2>4 DEF C!Takes
  <1>5. ASSUME op \in {"Read", "GranRead", "Peep"}, C!CommandDone
        PROVE  C!SetOf(C!Command.data) \subseteq C!Bytes
    <2>1. len \in Nat /\ len <= Len(link_ring) /\ C!Command.data = C!Front(link_ring, len)
      BY <1>1, <1>3, <1>5, CommandIs
    <2> QED
      BY <1>1, <2>1, SetsOf
  <1>6. C!SetOf(got') \subseteq C!Bytes /\ seen' \subseteq C!Bytes
    BY <1>1, <1>5 DEF C!CommandDone, C!AnswerLost, C!Return
  <1>7. C!Result \in 0 .. LinkCapacity
    <2>1. CASE op = "Clean"
      BY <1>1, <2>1 DEF C!Result
    <2>2. CASE op # "Clean" /\ op \notin {"GranRead", "GranWrite"}
      BY <1>1, <1>3, <2>2 DEF C!Result
    <2>3. CASE op \in {"GranRead", "GranWrite"}
      <3> DEFINE g == C!Gran
                 q == len \div g
      <3>1. len \in Nat /\ g \in Nat \ {0}
        BY <1>3, <2>3 DEF Inv, Types, C!LinkAssumption, C!Gran
      <3> HIDE DEF g
      <3>2. q \in Nat /\ g * q <= len
        BY <3>1, DivMod
      <3> HIDE DEF q
      <3>3. q <= g * q
        BY <3>1, <3>2
      <3>4. C!Result = q
        BY <2>3 DEF C!Result, q, g
      <3>5. g * q \in Int
        BY <3>1, <3>2
      <3> QED
        BY <1>1, <3>1, <3>2, <3>3, <3>4, <3>5
    <2> QED
      BY <2>1, <2>2, <2>3
  <1>8. link_ret' \in -1 .. LinkCapacity
    BY <1>1, <1>7 DEF C!CommandDone, C!AnswerLost, C!Return
  <1>9. peeped' \in 0 .. LinkCapacity
    BY <1>1, <1>3 DEF C!CommandDone, C!AnswerLost
  <1>10. made' \in 0 .. MaxByte
    <2>1. CASE made' = made
      BY <1>1, <2>1
    <2>2. CASE made' # made
      <3>1. op \in C!Fills
        BY <2>2 DEF C!CommandDone, C!AnswerLost
      <3>2. len \in Nat /\ made + len <= MaxByte
        BY <1>3, <3>1 DEF Room, C!Fills
      <3>3. made' = made + len
        BY <1>1, <2>2, <3>1, <3>2, MadeIs
      <3> QED
        BY <1>1, <3>2, <3>3
    <2> QED
      BY <2>1, <2>2
  <1> QED
    BY <1>1, <1>2, <1>4, <1>6, <1>8, <1>9, <1>10 DEF LinkTypes, C!Bytes

LEMMA LinkTypesKept ==
    ASSUME C!LinkAssumption, Inv, Whole, LinkTypes, Room, [C!Next]_(C!vars), UNCHANGED mode
    PROVE  LinkTypes'
  <1>1. /\ link_ring \in Seq(Int) /\ Len(link_ring) \in Nat /\ Len(link_ring) <= LinkCapacity
        /\ made \in 0 .. MaxByte /\ MaxByte \in Nat /\ LinkCapacity \in Nat
        /\ C!SetOf(link_ring) \subseteq C!Bytes /\ C!SetOf(got) \subseteq C!Bytes /\ seen \subseteq C!Bytes
        /\ len \in Int /\ len <= LinkCapacity /\ link_ret \in -1 .. LinkCapacity
        /\ peeped \in 0 .. LinkCapacity /\ size \in C!Sizes \cup {0} /\ Types /\ -1 <= LinkCapacity
        /\ C!Sizes' = C!Sizes /\ C!Bytes' = C!Bytes
    BY LenProperties DEF Inv, Types, LinkTypes, C!LinkAssumption, C!Sizes, C!Bytes
  <1>2. CASE UNCHANGED C!vars
    BY <1>1, <1>2 DEF C!vars, LinkTypes
  <1>3. ASSUME NEW n \in 1 .. MaxByte, C!DeviceWrite(n) PROVE LinkTypes'
    <2>1. /\ made + n <= MaxByte /\ made' = made + n /\ link_ring' = link_ring \o C!UpFrom(made, n)
          /\ UNCHANGED <<op, size, len, link_ret, got, seen, peeped>>
      BY <1>3 DEF C!DeviceWrite
    <2>2. n \in Nat /\ made' \in 0 .. MaxByte
      BY <1>1, <2>1
    <2>3. C!SetOf(link_ring') \subseteq C!Bytes
      BY <2>1, <2>2, RingBytes
    <2> QED
      BY <1>1, <2>1, <2>2, <2>3 DEF LinkTypes
  <1>4. ASSUME NEW n \in 1 .. MaxByte, C!DeviceRead(n) PROVE LinkTypes'
    <2>1. /\ n \in Nat /\ n <= Len(link_ring) /\ link_ring' = C!Rest(link_ring, n)
          /\ seen' = seen \cup C!SetOf(C!Front(link_ring, n))
          /\ UNCHANGED <<made, op, size, len, link_ret, got, peeped>>
      BY <1>1, <1>4 DEF C!DeviceRead, C!RingSize
    <2>2. /\ C!SetOf(link_ring') \subseteq C!SetOf(link_ring)
          /\ C!SetOf(C!Front(link_ring, n)) \subseteq C!SetOf(link_ring)
      BY <1>1, <2>1, SetsOf
    <2> QED
      BY <1>1, <2>1, <2>2 DEF LinkTypes
  <1>5. CASE C!DeviceClear
    <2>1. link_ring' = <<>> /\ DOMAIN <<>> = {} /\ UNCHANGED <<made, op, size, len, link_ret, got, seen, peeped>>
      BY <1>5 DEF C!DeviceClear
    <2> QED
      BY <1>1, <2>1 DEF LinkTypes, C!SetOf
  <1>6. ASSUME NEW o \in C!Ops, NEW n \in C!Sizes, C!Call(o, n) PROVE LinkTypes'
    BY <1>1, <1>6 DEF C!Call, LinkTypes
  <1>7. CASE C!SizeAnswered
    <2>1. UNCHANGED <<link_ring, made, seen, peeped, got>>
      BY <1>7 DEF C!SizeAnswered, C!Return
    <2>2. \/ size' = 0 /\ len' = -1 /\ link_ret' \in {C!Reported, 0}
          \/ UNCHANGED <<size, link_ret>> /\ len' = C!Length(C!Reported)
      BY <1>7 DEF C!SizeAnswered, C!Return
    <2>3. C!Reported \in 0 .. LinkCapacity
      BY <1>1, ReportedInRange
    <2>4. C!Reported \in Nat
      BY <1>1, <2>3
    <2>5. C!Length(C!Reported) \in Nat /\ C!Length(C!Reported) <= C!Reported
      BY <1>1, <2>4, LengthFits
    <2>6. C!Length(C!Reported) <= LinkCapacity
      BY <1>1, <2>3, <2>5
    <2>7. link_ret' \in -1 .. LinkCapacity /\ size' \in C!Sizes \cup {0} /\ len' <= LinkCapacity
      BY <1>1, <2>2, <2>3, <2>6
    <2> QED
      BY <1>1, <2>1, <2>7 DEF LinkTypes
  <1>8. CASE C!BusFails \/ C!CommandRefused
    <2>1. /\ UNCHANGED <<link_ring, made, seen, got>> /\ peeped' = 0
          /\ size' = 0 /\ len' = -1 /\ link_ret' = -1
      BY <1>8 DEF C!BusFails, C!CommandRefused, C!Return
    <2> QED
      BY <1>1, <2>1 DEF LinkTypes
  <1>9. CASE C!CommandDone \/ C!AnswerLost
    BY <1>9, CommandTypes
  <1> QED
    BY <1>2, <1>3, <1>4, <1>5, <1>6, <1>7, <1>8, <1>9 DEF C!Next

LEMMA LinkTypesInit == ASSUME C!LinkAssumption, C!Init PROVE LinkTypes /\ Room
  <1>1. /\ link_ring = <<>> /\ got = <<>> /\ made = 0 /\ size = 0 /\ len = -1 /\ op = "none"
        /\ link_ret = 0 /\ seen = {} /\ peeped = 0 /\ DOMAIN <<>> = {}
    BY DEF C!Init
  <1>2. C!SetOf(<<>>) = {}
    BY <1>1 DEF C!SetOf
  <1> QED
    BY <1>1, <1>2 DEF LinkTypes, Room, C!Fills, C!LinkAssumption

\* The type invariant of the link, and what it needs of the rest
LinkTyped == LinkInv /\ LinkTypes /\ Room

LEMMA LinkTypedStep ==
  /\ DevicesInit => LinkTyped
  /\ LinkTyped /\ [DevicesNext]_devicevars => LinkTyped'
  <1>1. DevicesInit => LinkTyped
    BY LinkTypesInit, LinkStep, DevicesAssumption DEF DevicesInit, LinkTyped
  <1>2. ASSUME LinkTyped, [DevicesNext]_devicevars PROVE LinkTyped'
    <2>1. [C!Next]_(C!vars)
      BY <1>2 DEF DevicesNext, devicevars, linkvars, C!vars
    <2>2. UNCHANGED mode /\ LinkInv'
      BY <1>2, <2>1, MovesNext, LinkStep, DevicesAssumption DEF LinkTyped
    <2> QED
      BY <1>2, <2>1, <2>2, LinkTypesKept, RoomKept, DevicesAssumption DEF LinkTyped, LinkInv
  <1> QED
    BY <1>1, <1>2

LEMMA LinkTypeOK == LinkTyped => C!TypeOK
  <1> SUFFICES ASSUME LinkTyped PROVE C!TypeOK
    OBVIOUS
  <1>1. /\ mode \in Modes /\ Len(link_ring) <= LinkCapacity /\ op \in C!Ops \cup {"none"}
        /\ len \in Int /\ len >= -1 /\ len <= LinkCapacity /\ LinkCapacity \in Nat
    BY DevicesAssumption DEF LinkTyped, LinkInv, Inv, Types, LinkTypes, C!LinkAssumption
  <1>2. len \in -1 .. LinkCapacity
    BY <1>1
  <1> QED
    BY <1>1, <1>2 DEF LinkTyped, LinkTypes, C!TypeOK
=============================================================================
