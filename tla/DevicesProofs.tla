----------------------------- MODULE DevicesProofs -----------------------------
(***************************************************************************)
(* The parts of Devices besides the ring over the bus: the serial port,    *)
(* the register map (MapInv), frames on a serial line (LineInv), the tools *)
(* of a polling loop (LoopInv), and the types of all of them.              *)
(***************************************************************************)
EXTENDS RegWrCbProofs, WellFoundedInduction

\* A successful open leaves the device as asked, an open that fails no
\* descriptor, for every speed and in every order of opens and closes.
THEOREM PortAsAsked == DevicesSpec => []OpenedAsAsked
  <1>1. P!PortInit => P!OpenedAsAsked
    BY DEF P!PortInit, P!OpenedAsAsked
  <1>2. P!OpenedAsAsked /\ [DevicesNext]_devicevars => P!OpenedAsAsked'
    <2> SUFFICES ASSUME P!OpenedAsAsked, [DevicesNext]_devicevars
                 PROVE  P!OpenedAsAsked'
      OBVIOUS
    <2>0. Closed \notin P!Asked
      BY DevicesAssumption
    <2>1. ASSUME NEW a \in P!Asked, P!Open(a) PROVE P!OpenedAsAsked'
      <3>1. CASE a.speed # NoSpeed /\ P!ParityOk(a)
        <4>1. /\ termios' = P!SetParity(P!SetSpeed(a), a)
              /\ fds' = 1 /\ opened' = a /\ a # Closed
          BY <2>0, <2>1, <3>1 DEF P!Open, P!OpenedAsAsked
        <4>2. a.parity \in {"n", "o", "e"} /\ a.stopbits \in 1..2
          BY <3>1 DEF P!ParityOk, P!Asked
        <4>3. /\ termios'.speed = a.speed /\ termios'.csize = a.databits
              /\ termios'.flags =
                   (IF a.stopbits = 2
                    THEN P!ParityFlags(P!SetSpeed(a).flags, a.parity) \cup {"CSTOPB"}
                    ELSE P!ParityFlags(P!SetSpeed(a).flags, a.parity) \ {"CSTOPB"})
                   \ {"ICANON", "OPOST", "IXON"}
          BY <4>1 DEF P!SetParity, P!SetSpeed
        <4>4. LET flags == P!ParityFlags(P!SetSpeed(a).flags, a.parity)
              IN  /\ ("PARENB" \in flags) = (a.parity # "n")
                  /\ ("INPCK" \in flags) = (a.parity # "n")
                  /\ a.parity # "n" => (("PARODD" \in flags) = (a.parity = "o"))
          BY <4>2 DEF P!ParityFlags
        <4> QED
          BY <4>1, <4>2, <4>3, <4>4 DEF P!OpenedAsAsked
      <3>2. CASE ~(a.speed # NoSpeed /\ P!ParityOk(a))
        BY <2>1, <3>2 DEF P!Open, P!OpenedAsAsked
      <3> QED
        BY <3>1, <3>2
    <2>2. CASE P!Close
      BY <2>2 DEF P!Close, P!OpenedAsAsked
    <2>3. CASE UNCHANGED P!portvars
      BY <2>3 DEF P!portvars, P!OpenedAsAsked
    <2> QED
      BY <2>1, <2>2, <2>3 DEF P!PortNext, DevicesNext, devicevars, portvars, P!portvars
  <1>3. P!OpenedAsAsked => OpenedAsAsked
    BY DEF OpenedAsAsked
  <1>4. DevicesInit => P!OpenedAsAsked
    BY <1>1 DEF DevicesInit
  <1> QED
    BY <1>2, <1>3, <1>4, PTL DEF DevicesSpec

-----------------------------------------------------------------------------
(* The register map *)

MapTypes ==
    /\ reg_group \in [1 .. MaxGroups -> Group \cup {Empty}]
    /\ group_end \in [Group -> Addr] /\ \A g \in Plain : group_end[g] = EndOf[g]
    /\ mem = [g \in Plain |-> mem[g]]
    /\ \A g \in Plain : mem[g] \in [0 .. EndOf[g] - Start[g] - 1 -> Value]
    /\ ring \in [RingGroup -> Seq(Nat)] /\ \A g \in RingGroup : Len(ring[g]) <= Capacity
    /\ ret \in 0 .. AddrMod - 1

MapInv == MapTypes /\ EntriesAreUnique

\* Every inhabited set of numbers has a least element.
LEMMA LeastOf ==
    ASSUME NEW N \in SUBSET Nat, NEW k \in N
    PROVE  \E c \in N : \A d \in N : c <= d
  <1> DEFINE R == {ss \in Nat \X Nat : ss[1] < ss[2]}
  <1>1. IsWellFoundedOn(R, Nat)
    BY NatLessThanWellFounded DEF OpToRel
  <1>2. N \subseteq Nat /\ N # {}
    OBVIOUS
  <1> HIDE DEF R
  <1>3. PICK c \in N : \A d \in N : ~(<<d, c>> \in R)
    BY <1>1, <1>2, WFMin
  <1>4. \A d \in N : ~(d < c)
    <2> SUFFICES ASSUME NEW d \in N, d < c PROVE <<d, c>> \in R
      BY <1>3
    <2>1. <<d, c>> \in Nat \X Nat
      BY <1>2
    <2> QED
      BY <2>1 DEF R
  <1> QED
    BY <1>2, <1>4

\* The entry that answers an access.
LEMMA ValidIs ==
    ASSUME NEW end, NEW addr, NEW len_
    PROVE  LET v == Valid(end, addr, len_)
               Hit(i) == reg_group[i] # Empty /\ Answers(end, reg_group[i], addr, len_)
           IN  /\ v = 0 => \A i \in 1 .. MaxGroups : ~Hit(i)
               /\ v # 0 => v \in 1 .. MaxGroups /\ Hit(v)
  <1> DEFINE Hit(i) == reg_group[i] # Empty /\ Answers(end, reg_group[i], addr, len_)
             hits == {i \in 1 .. MaxGroups : Hit(i)}
             v == Valid(end, addr, len_)
  <1>1. v = IF hits = {} THEN 0 ELSE CHOOSE i \in hits : \A j \in hits : i <= j
    BY DEF Valid
  <1>2. MaxGroups \in Nat
    BY MapAssumption
  <1>3. hits \in SUBSET Nat /\ \A i \in hits : i \in 1 .. MaxGroups /\ Hit(i)
    BY <1>2
  <1>4. \A i \in 1 .. MaxGroups : Hit(i) => i \in hits
    OBVIOUS
  <1>5. 0 \notin hits
    BY <1>3
  <1> HIDE DEF hits, Hit, v
  <1>6. CASE hits = {}
    BY <1>1, <1>4, <1>6 DEF Hit, v
  <1>7. ASSUME NEW k \in hits PROVE v \in hits
    <2>1. \E c \in hits : \A d \in hits : c <= d
      BY <1>3, LeastOf
    <2> QED
      BY <1>1, <2>1
  <1>8. CASE hits # {}
    <2>1. v \in hits
      BY <1>7, <1>8
    <2> QED
      BY <1>3, <1>5, <2>1 DEF Hit, v
  <1> QED
    BY <1>6, <1>8 DEF Hit, v

\* An access that is accepted is routed to a registered group that answers it.
LEMMA RoutedIs ==
    ASSUME MapTypes, NEW addr, NEW n, ~Refuses(addr, n)
    PROVE  Routed(addr, n) \in Group /\ Answers(group_end, Routed(addr, n), addr, n)
  <1>1. /\ Valid(group_end, addr, n) \in 1 .. MaxGroups
        /\ reg_group[Valid(group_end, addr, n)] # Empty
        /\ Answers(group_end, reg_group[Valid(group_end, addr, n)], addr, n)
    BY ValidIs DEF Refuses
  <1> QED
    BY <1>1 DEF Routed, MapTypes

\* An accepted access stays inside the memory of its group.
LEMMA Inside == MapTypes => AcceptedInside
  <1> SUFFICES ASSUME MapTypes, NEW addr \in Addr, NEW n \in 0 .. AddrMod - 1 - addr,
                      ~Refuses(addr, n), Routed(addr, n) \in Plain
               PROVE  Touched(Routed(addr, n), addr, n) \subseteq DOMAIN mem[Routed(addr, n)]
    BY DEF AcceptedInside
  <1> DEFINE g == Routed(addr, n)
  <1>1. g \in Group /\ Answers(group_end, g, addr, n)
    BY RoutedIs
  <1>2. g \in Plain /\ Type[g] # "CB"
    BY DEF Plain
  <1> HIDE DEF g
  <1>3. /\ AddrMod \in Nat /\ Start[g] \in Nat /\ EndOf[g] \in Nat /\ group_end[g] = EndOf[g]
        /\ EndOf[g] < AddrMod /\ Start[g] <= EndOf[g]
    BY <1>1, <1>2, MapAssumption, GroupAssumption DEF MapTypes
  <1>0. DOMAIN mem[g] = 0 .. EndOf[g] - Start[g] - 1
    BY <1>2 DEF MapTypes
  <1>4. addr \in 0 .. AddrMod - 1 /\ addr + n \in 0 .. AddrMod - 1 /\ n \in Nat
    BY <1>3 DEF Addr
  <1>5. ((addr + n) % AddrMod) = addr + n
    <2> DEFINE a == addr + n
    <2>1. AddrMod \in Nat \ {0} /\ a \in 0 .. AddrMod - 1
      BY <1>3, <1>4
    <2> HIDE DEF a
    <2>2. (a % AddrMod) = a
      BY <2>1, SmallMod
    <2> QED
      BY <2>2 DEF a
  <1>6. addr >= Start[g] /\ addr + n <= EndOf[g]
    BY <1>1, <1>2, <1>3, <1>5 DEF Answers
  <1>7. \A k \in 0 .. n - 1 : addr - Start[g] + k \in 0 .. EndOf[g] - Start[g] - 1
    BY <1>3, <1>4, <1>6
  <1> QED
    BY <1>0, <1>7 DEF Touched, g

\* A group that is registered answers for all of itself.
LEMMA AnswersItself ==
    ASSUME MapTypes, NEW g \in Group, NEW end, end[g] = NewEnd(g)
    PROVE  Answers(end, g, Start[g], (NewEnd(g) - Start[g]) % AddrMod)
  <1>1. /\ AddrMod \in Nat /\ Start[g] \in Nat /\ EndOf[g] \in Nat
        /\ Start[g] <= EndOf[g] /\ EndOf[g] < AddrMod
        /\ Type[g] = "CB" => Start[g] + 7 < AddrMod
    BY MapAssumption, GroupAssumption
  <1>2. CASE Type[g] = "CB"
    <2>1. Start[g] + 7 \in 0 .. AddrMod - 1 /\ AddrMod \in Nat \ {0}
      BY <1>1, <1>2
    <2>2. ((Start[g] + 7) % AddrMod) = Start[g] + 7
      BY <2>1, SmallMod
    <2>3. NewEnd(g) = Start[g] + 7
      BY <1>2, <2>2 DEF NewEnd, CBREG_SIZE
    <2> QED
      BY <1>1, <1>2, <2>3 DEF Answers
  <1>3. CASE Type[g] # "CB"
    <2>1. NewEnd(g) = EndOf[g]
      BY <1>3 DEF NewEnd, MapTypes, Plain
    <2>2. EndOf[g] - Start[g] \in 0 .. AddrMod - 1 /\ EndOf[g] \in 0 .. AddrMod - 1 /\ AddrMod \in Nat \ {0}
      BY <1>1
    <2>3. ((EndOf[g] - Start[g]) % AddrMod) = EndOf[g] - Start[g] /\ (EndOf[g] % AddrMod) = EndOf[g]
      BY <2>2, SmallMod
    <2>4. Start[g] + (EndOf[g] - Start[g]) = EndOf[g]
      BY <1>1
    <2> QED
      BY <1>1, <1>3, <2>1, <2>3, <2>4 DEF Answers
  <1> QED
    BY <1>2, <1>3

LEMMA MapInvInit == Init => MapInv
  <1> SUFFICES ASSUME Init PROVE MapInv
    OBVIOUS
  <1>1. (CHOOSE v \in Value : TRUE) \in Value
    BY MapAssumption
  <1>2. \A g \in Group : EndOf[g] \in Addr /\ Start[g] \in Nat
    BY MapAssumption, GroupAssumption DEF Addr
  <1>3. group_end \in [Group -> Addr] /\ \A g \in Plain : group_end[g] = EndOf[g]
    BY <1>2, MapAssumption DEF Init, Plain
  <1>4. reg_group \in [1 .. MaxGroups -> Group \cup {Empty}] /\ EntriesAreUnique
    BY DEF Init, EntriesAreUnique
  <1>5. mem = [g \in Plain |-> mem[g]]
    BY DEF Init
  <1>6. \A g \in Plain : mem[g] \in [0 .. EndOf[g] - Start[g] - 1 -> Value]
    BY <1>1 DEF Init
  <1>7. ring \in [RingGroup -> Seq(Nat)] /\ \A g \in RingGroup : Len(ring[g]) <= Capacity
    <2>1. <<>> \in Seq(Nat) /\ Len(<<>>) = 0
      BY EmptySeq
    <2>2. ring = [g \in RingGroup |-> <<>>]
      BY DEF Init
    <2>3. \A g \in RingGroup : ring[g] = <<>>
      BY <2>2
    <2> QED
      BY <2>1, <2>2, <2>3, MapAssumption
  <1>8. ret \in 0 .. AddrMod - 1
    BY MapAssumption DEF Init
  <1> QED
    BY <1>3, <1>4, <1>5, <1>6, <1>7, <1>8 DEF MapInv, MapTypes

\* A group is entered once: when it is in the table, an entry answers for it.
LEMMA RegisterInv ==
    ASSUME MapInv, NEW g \in Group, Register(g)
    PROVE  MapInv'
  <1> DEFINE n == (NewEnd(g) - Start[g]) % AddrMod
             hit == Valid(group_end', Start[g], n)
  <1>1. /\ reg_group \in [1 .. MaxGroups -> Group \cup {Empty}]
        /\ group_end \in [Group -> Addr] /\ \A h \in Plain : group_end[h] = EndOf[h]
    BY DEF MapInv, MapTypes
  <1>2. /\ group_end' = [group_end EXCEPT ![g] = NewEnd(g)]
        /\ reg_group' = [i \in 1 .. MaxGroups |-> IF hit = 0 /\ FreeEntry(i) THEN g ELSE reg_group[i]]
        /\ UNCHANGED <<mem, ring, ret>>
    BY DEF Register
  <1>3. NewEnd(g) \in Addr /\ (g \in Plain => NewEnd(g) = EndOf[g])
    <2>1. CASE Type[g] = "CB"
      <3>1. Start[g] + 7 \in Nat /\ AddrMod \in Nat \ {0} /\ Start[g] \in Nat
        BY <2>1, MapAssumption, GroupAssumption
      <3>2. ((Start[g] + 7) % AddrMod) \in 0 .. AddrMod - 1
        BY <3>1, DivMod
      <3> QED
        BY <2>1, <3>2 DEF NewEnd, CBREG_SIZE, Addr, Plain
    <2>2. CASE Type[g] # "CB"
      BY <1>1, <2>2 DEF NewEnd, Plain
    <2> QED
      BY <2>1, <2>2
  <1>4. group_end' \in [Group -> Addr] /\ \A h \in Plain : group_end'[h] = EndOf[h]
    BY <1>1, <1>2, <1>3 DEF Plain
  <1>5. reg_group' \in [1 .. MaxGroups -> Group \cup {Empty}]
    BY <1>1, <1>2
  <1>6. hit = 0 => \A i \in 1 .. MaxGroups : reg_group[i] # g
    <2>1. hit = 0 => \A i \in 1 .. MaxGroups :
                        ~(reg_group[i] # Empty /\ Answers(group_end', reg_group[i], Start[g], n))
      BY ValidIs
    <2>2. Answers(group_end', g, Start[g], n)
      <3>1. group_end'[g] = NewEnd(g)
        BY <1>1, <1>2
      <3> QED
        BY <3>1, AnswersItself DEF MapInv
    <2>3. g # Empty
      BY EmptyAssumption
    <2> QED
      BY <2>1, <2>2, <2>3
  <1> HIDE DEF hit, n
  <1>7. \A i, j \in 1 .. MaxGroups : FreeEntry(i) /\ FreeEntry(j) => i = j
    <2>1. MaxGroups \in Nat
      BY MapAssumption
    <2> SUFFICES ASSUME NEW i \in 1 .. MaxGroups, NEW j \in 1 .. MaxGroups, FreeEntry(i), FreeEntry(j)
                 PROVE  i = j
      OBVIOUS
    <2>2. ~(i < j) /\ ~(j < i)
      <3>1. i < j => i \in 1 .. j - 1
        BY <2>1
      <3>2. j < i => j \in 1 .. i - 1
        BY <2>1
      <3> QED
        BY <3>1, <3>2 DEF FreeEntry
    <2> QED
      BY <2>1, <2>2
  <1>8. EntriesAreUnique'
    <2> SUFFICES ASSUME NEW i \in 1 .. MaxGroups, NEW j \in 1 .. MaxGroups,
                        reg_group'[i] = reg_group'[j], reg_group'[i] # Empty
                 PROVE  i = j
      BY DEF EntriesAreUnique
    <2>1. /\ reg_group'[i] = IF hit = 0 /\ FreeEntry(i) THEN g ELSE reg_group[i]
          /\ reg_group'[j] = IF hit = 0 /\ FreeEntry(j) THEN g ELSE reg_group[j]
      BY <1>2
    <2> QED
      BY <1>6, <1>7, <2>1 DEF MapInv, EntriesAreUnique
  <1> QED
    BY <1>2, <1>4, <1>5, <1>8 DEF MapInv, MapTypes

LEMMA UnregisterInv ==
    ASSUME MapInv, NEW g \in Group, Unregister(g)
    PROVE  MapInv'
  <1>1. /\ reg_group \in [1 .. MaxGroups -> Group \cup {Empty}]
        /\ reg_group' = [i \in 1 .. MaxGroups |->
                IF reg_group[i] = g /\ \A j \in 1 .. i - 1 : reg_group[j] # g
                THEN Empty ELSE reg_group[i]]
        /\ UNCHANGED <<group_end, mem, ring, ret>>
    BY DEF MapInv, MapTypes, Unregister
  <1>2. reg_group' \in [1 .. MaxGroups -> Group \cup {Empty}]
    BY <1>1
  <1>3. EntriesAreUnique'
    BY <1>1 DEF MapInv, EntriesAreUnique
  <1> QED
    BY <1>1, <1>2, <1>3 DEF MapInv, MapTypes

-----------------------------------------------------------------------------
(* The commands of a ring group *)

RingOk(r) == r \in Seq(Nat) /\ Len(r) <= Capacity

\* What a command leaves is a ring, and what it does not do leaves it alone.
CommandOk(c, r, n) == c.ret \in {0, n} /\ RingOk(c.ring) /\ (c.ret = 0 => c.ring = r)

LEMMA DoneOk ==
    ASSUME NEW r, NEW n, NEW d, NEW s, RingOk(s), n = 0 => s = r
    PROVE  CommandOk(Done(n, d, s), r, n)
  BY DEF CommandOk, Done

LEMMA RefusedOk ==
    ASSUME NEW r, NEW n, RingOk(r)
    PROVE  CommandOk(Refused(r), r, n)
  BY DEF CommandOk, Refused

LEMMA RestOk ==
    ASSUME NEW r, NEW n \in Nat, RingOk(r), n <= Len(r)
    PROVE  RingOk(Rest(r, n)) /\ (n = 0 => Rest(r, n) = r)
  <1>1. r \in Seq(Nat) /\ Len(r) \in Nat /\ Len(r) <= Capacity /\ Capacity \in Nat
    BY LenProperties, MapAssumption DEF RingOk
  <1>2. \A i \in n + 1 .. Len(r) : r[i] \in Nat
    BY <1>1, LenProperties
  <1>3. /\ SubSeq(r, n + 1, Len(r)) \in Seq(Nat)
        /\ Len(SubSeq(r, n + 1, Len(r))) = IF n + 1 <= Len(r) THEN Len(r) - (n + 1) + 1 ELSE 0
    BY <1>1, <1>2, SubSeqProperties
  <1>4. RingOk(Rest(r, n))
    BY <1>1, <1>3 DEF Rest, RingOk
  <1>5. n = 0 => Rest(r, n) = r
    <2>1. SubSeq(r, 1, Len(r)) = r
      BY <1>1, SubSeqFull
    <2>2. 0 + 1 = 1
      OBVIOUS
    <2> QED
      BY <2>1, <2>2 DEF Rest
  <1> QED
    BY <1>4, <1>5

LEMMA CbReadOk ==
    ASSUME NEW r, RingOk(r), NEW cmd, NEW n \in Nat
    PROVE  CommandOk(CbRead(r, cmd, n), r, n)
  <1>1. \/ \E d : CbRead(r, cmd, n) = Done(n, d, r)
        \/ n <= Len(r) /\ \E d : CbRead(r, cmd, n) = Done(n, d, Rest(r, n))
        \/ CbRead(r, cmd, n) = Refused(r)
    BY DEF CbRead, RingSize, GET_SIZE, GET_FREESIZE, READ, PEEP
  <1>2. ASSUME NEW d, CbRead(r, cmd, n) = Done(n, d, r) PROVE CommandOk(CbRead(r, cmd, n), r, n)
    BY <1>2, DoneOk
  <1>3. ASSUME NEW d, n <= Len(r), CbRead(r, cmd, n) = Done(n, d, Rest(r, n))
        PROVE  CommandOk(CbRead(r, cmd, n), r, n)
    BY <1>3, DoneOk, RestOk
  <1> QED
    BY <1>1, <1>2, <1>3, RefusedOk

\* The bytes of an access
LEMMA DatasAre ==
    ASSUME NEW n \in Nat, NEW d \in Datas(n)
    PROVE  d \in Seq(Nat) /\ Len(d) = n
  <1>1. d \in [1 .. n -> Nat]
    BY MapAssumption DEF Datas
  <1> QED
    BY <1>1

LEMMA CbWriteOk ==
    ASSUME NEW r, RingOk(r), NEW cmd, NEW n \in Nat, NEW d \in Datas(n)
    PROVE  CommandOk(CbWrite(r, cmd, n, d), r, n)
  <1>1. /\ d \in Seq(Nat) /\ Len(d) = n
        /\ r \in Seq(Nat) /\ Len(r) \in Nat /\ Len(r) <= Capacity /\ Capacity \in Nat
    BY DatasAre, LenProperties, MapAssumption DEF RingOk
  <1>2. \/ n <= Capacity - Len(r) /\ CbWrite(r, cmd, n, d) = Done(n, <<>>, r \o d)
        \/ n = 1 /\ CbWrite(r, cmd, n, d) = Done(n, <<>>, <<>>)
        \/ n = CountSize /\ d[1] <= Len(r) /\ CbWrite(r, cmd, n, d) = Done(n, <<>>, Rest(r, d[1]))
        \/ CbWrite(r, cmd, n, d) = Refused(r)
    BY DEF CbWrite, RingSize, RingFree
  <1>3. CASE n <= Capacity - Len(r) /\ CbWrite(r, cmd, n, d) = Done(n, <<>>, r \o d)
    <2>1. r \o d \in Seq(Nat) /\ Len(r \o d) = Len(r) + n
      BY <1>1, ConcatProperties
    <2>2. RingOk(r \o d)
      BY <1>1, <1>3, <2>1 DEF RingOk
    <2>3. n = 0 => r \o d = r
      <3> SUFFICES ASSUME n = 0 PROVE r \o d = r
        OBVIOUS
      <3>1. d = <<>>
        BY <1>1, EmptySeq
      <3> QED
        BY <1>1, <3>1, ConcatEmptySeq
    <2> QED
      BY <1>3, <2>2, <2>3, DoneOk
  <1>4. CASE n = 1 /\ CbWrite(r, cmd, n, d) = Done(n, <<>>, <<>>)
    <2>1. RingOk(<<>>)
      BY <1>1, EmptySeq DEF RingOk
    <2> QED
      BY <1>4, <2>1, DoneOk
  <1>5. CASE n = CountSize /\ d[1] <= Len(r) /\ CbWrite(r, cmd, n, d) = Done(n, <<>>, Rest(r, d[1]))
    <2>1. n # 0 /\ 1 \in 1 .. Len(d)
      BY <1>1, <1>5, MapAssumption
    <2>2. d[1] \in Nat
      BY <1>1, <2>1, LenProperties
    <2>3. RingOk(Rest(r, d[1]))
      BY <1>5, <2>2, RestOk
    <2> QED
      BY <1>5, <2>1, <2>3, DoneOk
  <1> QED
    BY <1>2, <1>3, <1>4, <1>5, RefusedOk

-----------------------------------------------------------------------------
(* The bus *)

\* A ring group's access is one of its ring's commands.
LEMMA RingStep ==
    ASSUME MapTypes, NEW g \in RingGroup, NEW n \in 0 .. MaxAccess, NEW c, CommandOk(c, ring[g], n),
           ret' = c.ret, ring' = [ring EXCEPT ![g] = c.ring], UNCHANGED mem
    PROVE  /\ ring' \in [RingGroup -> Seq(Nat)] /\ \A h \in RingGroup : Len(ring'[h]) <= Capacity
           /\ ret' \in 0 .. AddrMod - 1
           /\ ret' = 0 => UNCHANGED <<mem, ring>>
  <1>1. /\ ring \in [RingGroup -> Seq(Nat)] /\ \A h \in RingGroup : Len(ring[h]) <= Capacity
        /\ c.ring \in Seq(Nat) /\ Len(c.ring) <= Capacity /\ c.ret \in {0, n} /\ (c.ret = 0 => c.ring = ring[g])
    BY DEF MapTypes, CommandOk, RingOk
  <1>2. n \in 0 .. AddrMod - 1 /\ 0 \in 0 .. AddrMod - 1
    BY MapAssumption
  <1>3. \A h \in RingGroup : ring'[h] = IF h = g THEN c.ring ELSE ring[h]
    BY <1>1
  <1>4. ret' = 0 => ring' = ring
    <2> SUFFICES ASSUME ret' = 0 PROVE ring' = ring
      OBVIOUS
    <2>1. c.ring = ring[g]
      BY <1>1
    <2> QED
      BY <1>1, <2>1
  <1> QED
    BY <1>1, <1>2, <1>3, <1>4

LEMMA ReadStep ==
    ASSUME MapInv, NEW addr \in Addr, NEW n \in 0 .. MaxAccess, Read(addr, n)
    PROVE  MapInv' /\ (ret' = 0 => UNCHANGED <<mem, ring>>)
  <1>1. UNCHANGED <<reg_group, group_end, mem>>
    BY DEF Read
  <1>2. n \in Nat /\ n \in 0 .. AddrMod - 1 /\ 0 \in 0 .. AddrMod - 1
    BY MapAssumption
  <1>3. /\ ring' \in [RingGroup -> Seq(Nat)] /\ \A h \in RingGroup : Len(ring'[h]) <= Capacity
        /\ ret' \in 0 .. AddrMod - 1
        /\ ret' = 0 => UNCHANGED <<mem, ring>>
    <2>1. CASE Refuses(addr, n)
      BY <1>1, <1>2, <2>1 DEF Read, MapInv, MapTypes
    <2>2. CASE ~Refuses(addr, n) /\ Type[Routed(addr, n)] # "CB"
      BY <1>1, <1>2, <2>2 DEF Read, MapInv, MapTypes
    <2>3. CASE ~Refuses(addr, n) /\ Type[Routed(addr, n)] = "CB"
      <3> DEFINE g == Routed(addr, n)
                 c == CbRead(ring[g], Offset(g, addr), n)
      <3>1. g \in RingGroup
        BY <2>3, RoutedIs DEF RingGroup, Plain, MapInv
      <3>2. ret' = c.ret /\ ring' = [ring EXCEPT ![g] = c.ring]
        BY <2>3 DEF Read
      <3>3. CommandOk(c, ring[g], n)
        BY <1>2, <3>1, CbReadOk DEF MapInv, MapTypes, RingOk
      <3> HIDE DEF g, c
      <3> QED
        BY <1>1, <3>1, <3>2, <3>3, RingStep DEF MapInv
    <2> QED
      BY <2>1, <2>2, <2>3
  <1> QED
    BY <1>1, <1>3 DEF MapInv, MapTypes, EntriesAreUnique

\* What is stored into a register is a value; an access to none stores nothing.
LEMMA StoredIs ==
    ASSUME MapTypes, NEW g \in Plain, NEW addr \in Addr, NEW n \in Nat, NEW d \in Datas(n)
    PROVE  /\ Stored(g, addr, n, d) \in [0 .. EndOf[g] - Start[g] - 1 -> Value]
           /\ n = 0 => Stored(g, addr, n, d) = mem[g]
  <1>0. mem[g] \in [0 .. EndOf[g] - Start[g] - 1 -> Value]
    BY DEF MapTypes
  <1>1. Start[g] \in Nat /\ EndOf[g] \in Nat /\ AddrMod \in Nat \ {0} /\ addr \in Int
    <2>1. g \in Group /\ addr \in 0 .. AddrMod - 1
      BY DEF Plain, Addr
    <2> QED
      BY <2>1, MapAssumption
  <1>2. Offset(g, addr) \in Int
    <2> DEFINE a == addr - Start[g]
    <2>1. a \in Int
      BY <1>1
    <2>2. Offset(g, addr) = a % AddrMod
      BY DEF Offset
    <2> HIDE DEF a
    <2> QED
      BY <1>1, <2>1, <2>2, ModIs
  <1> DEFINE o == Offset(g, addr)
  <1>3. Stored(g, addr, n, d) =
          [k \in 0 .. EndOf[g] - Start[g] - 1 |->
              IF o <= k /\ k < o + n THEN d[k - o + 1] ELSE mem[g][k]]
    BY <1>0 DEF Stored
  <1>4. o \in Int
    BY <1>2
  <1> HIDE DEF o
  <1>5. ASSUME NEW k \in 0 .. EndOf[g] - Start[g] - 1, o <= k, k < o + n
        PROVE  d[k - o + 1] \in Value
    <2>1. k - o + 1 \in 1 .. n
      BY <1>1, <1>4, <1>5
    <2> QED
      BY <2>1 DEF Datas
  <1>6. Stored(g, addr, n, d) \in [0 .. EndOf[g] - Start[g] - 1 -> Value]
    BY <1>0, <1>3, <1>5
  <1>7. n = 0 => \A k \in 0 .. EndOf[g] - Start[g] - 1 : ~(o <= k /\ k < o + n)
    BY <1>1, <1>4
  <1>8. n = 0 => Stored(g, addr, n, d) = mem[g]
    BY <1>0, <1>3, <1>7
  <1> QED
    BY <1>6, <1>8

LEMMA WriteStep ==
    ASSUME MapInv, NEW addr \in Addr, NEW n \in 0 .. MaxAccess, NEW d \in Datas(n), Write(addr, n, d)
    PROVE  MapInv' /\ (ret' = 0 => UNCHANGED <<mem, ring>>)
  <1>1. UNCHANGED <<reg_group, group_end>> /\ MapTypes
    BY DEF Write, MapInv
  <1>2. n \in Nat /\ n \in 0 .. AddrMod - 1 /\ 0 \in 0 .. AddrMod - 1
    BY MapAssumption
  <1> DEFINE g == Routed(addr, n)
             Mem(m) == m = [h \in Plain |-> m[h]] /\ \A h \in Plain : m[h] \in [0 .. EndOf[h] - Start[h] - 1 -> Value]
             Ring(r) == r \in [RingGroup -> Seq(Nat)] /\ \A h \in RingGroup : Len(r[h]) <= Capacity
  <1>3. Mem(mem) /\ Ring(ring)
    BY <1>1 DEF MapTypes
  <1>4. /\ Mem(mem') /\ Ring(ring')
        /\ ret' \in 0 .. AddrMod - 1
        /\ ret' = 0 => UNCHANGED <<mem, ring>>
    <2>1. CASE ret' = 0 /\ UNCHANGED <<mem, ring>>
      BY <1>2, <1>3, <2>1
    <2>2. CASE ~Refuses(addr, n) /\ Type[g] = "WR"
      <3>1. g \in Plain
        BY <1>1, <2>2, RoutedIs DEF Plain
      <3>2. ret' = n /\ mem' = [mem EXCEPT ![g] = Stored(g, addr, n, d)] /\ ring' = ring
        BY <2>2 DEF Write
      <3>3. /\ Stored(g, addr, n, d) \in [0 .. EndOf[g] - Start[g] - 1 -> Value]
            /\ n = 0 => Stored(g, addr, n, d) = mem[g]
        BY <1>1, <1>2, <3>1, StoredIs
      <3> HIDE DEF g
      <3>4. \A h \in Plain : mem'[h] = IF h = g THEN Stored(g, addr, n, d) ELSE mem[h]
        BY <1>3, <3>2
      <3>5. DOMAIN mem = Plain /\ mem' = [h \in Plain |-> mem'[h]]
        BY <1>3, <3>2
      <3>6. Mem(mem')
        BY <1>3, <3>3, <3>4, <3>5
      <3>7. n = 0 => mem' = mem
        BY <1>3, <3>2, <3>3, <3>4, <3>5
      <3> QED
        BY <1>2, <1>3, <3>2, <3>6, <3>7
    <2>3. CASE ~Refuses(addr, n) /\ Type[g] = "CB"
      <3> DEFINE c == CbWrite(ring[g], Offset(g, addr), n, d)
      <3>1. g \in RingGroup
        BY <1>1, <2>3, RoutedIs DEF RingGroup, Plain
      <3>2. ret' = c.ret /\ ring' = [ring EXCEPT ![g] = c.ring] /\ UNCHANGED mem
        BY <2>3 DEF Write, WriteRing
      <3>3. CommandOk(c, ring[g], n)
        BY <1>1, <1>2, <3>1, CbWriteOk DEF MapTypes, RingOk
      <3> HIDE DEF g, c
      <3> QED
        BY <1>1, <1>3, <3>1, <3>2, <3>3, RingStep
    <2> QED
      BY <2>1, <2>2, <2>3 DEF Write
  <1> QED
    BY <1>1, <1>4 DEF MapInv, MapTypes, EntriesAreUnique

LEMMA MapInvNext ==
    ASSUME MapInv, [Next]_vars
    PROVE  MapInv' /\ (~UNCHANGED vars /\ ret' = 0 => UNCHANGED <<mem, ring>>)
  <1>1. ASSUME NEW g \in Group, Register(g) \/ Unregister(g)
        PROVE  MapInv' /\ UNCHANGED <<mem, ring>>
    BY <1>1, RegisterInv, UnregisterInv DEF Register, Unregister
  <1>2. ASSUME NEW addr \in Addr, NEW n \in 0 .. MaxAccess,
               Read(addr, n) \/ \E d \in Datas(n) : Write(addr, n, d)
        PROVE  MapInv' /\ (ret' = 0 => UNCHANGED <<mem, ring>>)
    BY <1>2, ReadStep, WriteStep
  <1>3. CASE UNCHANGED vars
    BY <1>3 DEF vars, MapInv, MapTypes, EntriesAreUnique
  <1> QED
    BY <1>1, <1>2, <1>3 DEF Next

LEMMA MapStep ==
  /\ DevicesInit => MapInv
  /\ MapInv /\ [DevicesNext]_devicevars => MapInv'
  <1>1. DevicesInit => MapInv
    BY MapInvInit DEF DevicesInit
  <1>2. ASSUME MapInv, [DevicesNext]_devicevars PROVE MapInv'
    <2>1. Next \/ UNCHANGED vars
      BY <1>2 DEF DevicesNext, devicevars
    <2> QED
      BY <1>2, <2>1, MapInvNext
  <1> QED
    BY <1>1, <1>2

\* A bus access that reports 0 has changed neither a register nor a ring, for
\* groups, tables and accesses of every size: a command is executed entirely or
\* not at all.
THEOREM AllOrNothing == DevicesSpec => ZeroMeansUnchanged
  <1>1. MapInv /\ [DevicesNext]_devicevars => [ret' = 0 => UNCHANGED <<mem, ring>>]_vars
    <2> SUFFICES ASSUME MapInv, [DevicesNext]_devicevars, ~UNCHANGED vars, ret' = 0
                 PROVE  UNCHANGED <<mem, ring>>
      OBVIOUS
    <2>1. Next
      BY DEF DevicesNext, devicevars
    <2> QED
      BY <2>1, MapInvNext
  <1> QED
    BY <1>1, MapStep, PTL DEF DevicesSpec, ZeroMeansUnchanged

-----------------------------------------------------------------------------
(* Frames *)

Byte == 0 .. 255

\* The two functions of Escaping and Recovery, as steps from one value to the next
Growing(p, u) == u = [i \in 0 .. Len(p) |->
                       IF i = 0 THEN <<S!Begin>> ELSE u[i - 1] \o S!EscapedByte(p[i])]

GrownTo(p, m, u) == u = [i \in 0 .. m |->
                          IF i = 0 THEN <<S!Begin>> ELSE u[i - 1] \o S!EscapedByte(p[i])]

LEMMA GrowingExists ==
    ASSUME NEW p \in Seq(Byte)
    PROVE  \E u : Growing(p, u)
  <1> DEFINE Bad == {m \in Nat : m <= Len(p) /\ ~\E u : GrownTo(p, m, u)}
  <1> SUFFICES ASSUME ~\E u : Growing(p, u) PROVE FALSE
    OBVIOUS
  <1>1. Len(p) \in Bad
    <2>1. ~\E u : GrownTo(p, Len(p), u)
      BY DEF Growing, GrownTo
    <2>2. Len(p) \in Nat
      OBVIOUS
    <2> QED
      BY <2>1, <2>2
  <1>2. Bad \in SUBSET Nat
    OBVIOUS
  <1>3. PICK c \in Bad : \A d \in Bad : c <= d
    <2> HIDE DEF Bad
    <2> QED
      BY <1>1, <1>2, LeastOf
  <1>4. c # 0
    <2>1. GrownTo(p, 0, [i \in 0 .. 0 |-> <<S!Begin>>])
      BY DEF GrownTo
    <2> QED
      BY <2>1
  <1>5. c - 1 \in Nat /\ c \in Nat /\ c <= Len(p) /\ ~(c - 1 \in Bad)
    BY <1>3, <1>4
  <1>6. PICK u : GrownTo(p, c - 1, u)
    BY <1>5
  <1> DEFINE v == [i \in 0 .. c |-> IF i = c THEN u[c - 1] \o S!EscapedByte(p[c]) ELSE u[i]]
  <1>7. ASSUME NEW i \in 0 .. c
        PROVE  v[i] = IF i = 0 THEN <<S!Begin>> ELSE v[i - 1] \o S!EscapedByte(p[i])
    <2>1. CASE i = c
      <3>1. i # 0 /\ i - 1 \in 0 .. c /\ i - 1 # c /\ i - 1 = c - 1
        BY <1>4, <1>5, <2>1
      <3>2. v[i] = u[c - 1] \o S!EscapedByte(p[c]) /\ v[i - 1] = u[c - 1]
        BY <2>1, <3>1, Zenon
      <3> QED
        BY <2>1, <3>1, <3>2
    <2>2. CASE i # c
      <3>1. i \in 0 .. c - 1 /\ v[i] = u[i] /\ (i # 0 => v[i - 1] = u[i - 1])
        BY <1>5, <2>2
      <3>2. u[i] = IF i = 0 THEN <<S!Begin>> ELSE u[i - 1] \o S!EscapedByte(p[i])
        BY <1>6, <3>1 DEF GrownTo
      <3> QED
        BY <3>1, <3>2
    <2> QED
      BY <2>1, <2>2
  <1>8. GrownTo(p, c, v)
    <2>1. v = [i \in 0 .. c |-> v[i]]
      OBVIOUS
    <2> HIDE DEF v
    <2> QED
      BY <1>7, <2>1 DEF GrownTo
  <1> HIDE DEF v
  <1> QED
    BY <1>3, <1>8

LEMMA EscapingIs ==
    ASSUME NEW p \in Seq(Byte)
    PROVE  \E u : Growing(p, u) /\ S!Escaping(p) = Append(u[Len(p)], S!End)
  <1> DEFINE u == CHOOSE u : u = [i \in 0 .. Len(p) |->
                       IF i = 0 THEN <<S!Begin>> ELSE u[i - 1] \o S!EscapedByte(p[i])]
  <1>1. u = [i \in 0 .. Len(p) |->
                       IF i = 0 THEN <<S!Begin>> ELSE u[i - 1] \o S!EscapedByte(p[i])]
    BY GrowingExists, Zenon DEF Growing
  <1>2. S!Escaping(p) = Append(u[Len(p)], S!End)
    BY Zenon DEF S!Escaping
  <1> QED
    BY <1>1, <1>2, Zenon DEF Growing

\* What stands for a byte has neither delimiter.
LEMMA EscapedByteIs ==
    ASSUME NEW b \in Byte
    PROVE  LET e == S!EscapedByte(b)
           IN  /\ e \in Seq(Byte) /\ Len(e) \in 1 .. 2
               /\ \A k \in 1 .. Len(e) : e[k] # S!Begin /\ e[k] # S!End
               /\ Len(e) = 1 => e[1] = b /\ e[1] # S!EscB /\ e[1] # S!EscE
               /\ Len(e) = 2 => e[1] \in {S!EscB, S!EscE} /\ S!Unescaped(e[1], e[2]) = <<b>>
  <1>1. CASE b = S!Begin
    <2>1. S!EscapedByte(b) = <<S!EscB, 1>>
      BY <1>1 DEF S!EscapedByte, S!Begin, S!End, S!EscB, S!EscE
    <2>2. S!Unescaped(S!EscB, 1) = <<b>>
      BY <1>1 DEF S!Unescaped, S!EscB, S!EscE
    <2> QED
      BY <2>1, <2>2 DEF S!Begin, S!End, S!EscB, S!EscE, Byte
  <1>2. CASE b = S!EscB
    <2>1. S!EscapedByte(b) = <<S!EscB, 2>>
      BY <1>2 DEF S!EscapedByte, S!Begin, S!End, S!EscB, S!EscE
    <2>2. S!Unescaped(S!EscB, 2) = <<b>>
      BY <1>2 DEF S!Unescaped, S!EscB, S!EscE
    <2> QED
      BY <2>1, <2>2 DEF S!Begin, S!End, S!EscB, S!EscE, Byte
  <1>3. CASE b = S!End
    <2>1. S!EscapedByte(b) = <<S!EscE, 1>>
      BY <1>3 DEF S!EscapedByte, S!Begin, S!End, S!EscB, S!EscE
    <2>2. S!Unescaped(S!EscE, 1) = <<b>>
      BY <1>3 DEF S!Unescaped, S!EscB, S!EscE
    <2> QED
      BY <2>1, <2>2 DEF S!Begin, S!End, S!EscB, S!EscE, Byte
  <1>4. CASE b = S!EscE
    <2>1. S!EscapedByte(b) = <<S!EscE, 2>>
      BY <1>4 DEF S!EscapedByte, S!Begin, S!End, S!EscB, S!EscE
    <2>2. S!Unescaped(S!EscE, 2) = <<b>>
      BY <1>4 DEF S!Unescaped, S!EscB, S!EscE
    <2> QED
      BY <2>1, <2>2 DEF S!Begin, S!End, S!EscB, S!EscE, Byte
  <1>5. CASE b \notin {S!Begin, S!End, S!EscB, S!EscE}
    <2>1. S!EscapedByte(b) = <<b>>
      BY <1>5 DEF S!EscapedByte
    <2> QED
      BY <1>5, <2>1
  <1> QED
    BY <1>1, <1>2, <1>3, <1>4, <1>5

\* What has been escaped begins with Begin, and has no other delimiter.
Opened(s) ==
    /\ s \in Seq(Byte) /\ Len(s) >= 1 /\ s[1] = S!Begin
    /\ \A k \in 2 .. Len(s) : s[k] # S!Begin /\ s[k] # S!End

LEMMA OpenedGrows ==
    ASSUME NEW s, Opened(s), NEW b \in Byte
    PROVE  LET e == S!EscapedByte(b)
               t == s \o e
           IN  /\ Opened(t) /\ Len(t) = Len(s) + Len(e)
               /\ \A k \in 1 .. Len(s) : t[k] = s[k]
               /\ \A k \in 1 .. Len(e) : t[Len(s) + k] = e[k]
  <1> DEFINE e == S!EscapedByte(b)
             t == s \o e
  <1>1. e \in Seq(Byte) /\ Len(e) \in Nat /\ \A k \in 1 .. Len(e) : e[k] # S!Begin /\ e[k] # S!End
    BY EscapedByteIs
  <1>2. s \in Seq(Byte) /\ Len(s) \in Nat /\ Len(s) >= 1
    BY DEF Opened
  <1> HIDE DEF e
  <1>3. /\ t \in Seq(Byte) /\ Len(t) = Len(s) + Len(e)
        /\ \A k \in 1 .. Len(s) + Len(e) : t[k] = IF k <= Len(s) THEN s[k] ELSE e[k - Len(s)]
    BY <1>1, <1>2, ConcatProperties
  <1> HIDE DEF t
  <1>4. \A k \in 1 .. Len(s) : t[k] = s[k]
    BY <1>1, <1>2, <1>3
  <1>5. ASSUME NEW k \in 1 .. Len(e) PROVE t[Len(s) + k] = e[k]
    <2>1. Len(s) + k \in 1 .. Len(s) + Len(e) /\ ~(Len(s) + k <= Len(s)) /\ (Len(s) + k) - Len(s) = k
      BY <1>1, <1>2
    <2> QED
      BY <1>3, <2>1
  <1>6. ASSUME NEW k \in 2 .. Len(t) PROVE t[k] # S!Begin /\ t[k] # S!End
    <2>1. CASE k <= Len(s)
      BY <1>2, <1>4, <2>1 DEF Opened
    <2>2. CASE ~(k <= Len(s))
      <3>1. k - Len(s) \in 1 .. Len(e) /\ k \in 1 .. Len(s) + Len(e)
        BY <1>1, <1>2, <1>3, <2>2
      <3> QED
        BY <1>1, <1>3, <2>2, <3>1
    <2> QED
      BY <2>1, <2>2
  <1>7. Opened(t)
    BY <1>2, <1>3, <1>4, <1>6 DEF Opened
  <1> QED
    BY <1>3, <1>4, <1>5, <1>7 DEF t, e

LEMMA GrowingStep ==
    ASSUME NEW p \in Seq(Byte), NEW u, Growing(p, u), NEW i \in 1 .. Len(p)
    PROVE  u[i] = u[i - 1] \o S!EscapedByte(p[i]) /\ i - 1 \in 0 .. Len(p) /\ p[i] \in Byte
  <1>1. i \in 0 .. Len(p) /\ i # 0 /\ i - 1 \in 0 .. Len(p)
    OBVIOUS
  <1>2. \A j \in 0 .. Len(p) : u[j] = IF j = 0 THEN <<S!Begin>> ELSE u[j - 1] \o S!EscapedByte(p[j])
    BY Zenon DEF Growing
  <1>3. u[i] = u[i - 1] \o S!EscapedByte(p[i])
    BY <1>1, <1>2, Zenon
  <1>4. p[i] \in Byte
    OBVIOUS
  <1> QED
    BY <1>1, <1>3, <1>4

LEMMA GrowingOpened ==
    ASSUME NEW p \in Seq(Byte), NEW u, Growing(p, u), NEW i \in 0 .. Len(p)
    PROVE  Opened(u[i])
  <1> DEFINE Bad == {m \in Nat : m <= Len(p) /\ ~Opened(u[m])}
  <1> SUFFICES ASSUME ~Opened(u[i]) PROVE FALSE
    OBVIOUS
  <1>1. i \in Bad /\ Bad \in SUBSET Nat
    OBVIOUS
  <1>2. PICK c \in Bad : \A d \in Bad : c <= d
    <2> HIDE DEF Bad
    <2> QED
      BY <1>1, LeastOf
  <1>3. c # 0
    <2>1. 0 \in 0 .. Len(p)
      OBVIOUS
    <2>2. u[0] = <<S!Begin>>
      BY <2>1, Zenon DEF Growing
    <2>3. Opened(<<S!Begin>>)
      BY DEF Opened, Byte, S!Begin
    <2> QED
      BY <2>2, <2>3
  <1>4. c \in 1 .. Len(p) /\ c - 1 \in Nat /\ c - 1 <= Len(p) /\ ~(c - 1 \in Bad)
    BY <1>2, <1>3
  <1>5. Opened(u[c - 1])
    BY <1>4
  <1>6. u[c] = u[c - 1] \o S!EscapedByte(p[c]) /\ p[c] \in Byte
    BY <1>4, GrowingStep
  <1>7. Opened(u[c])
    BY <1>5, <1>6, OpenedGrows, Zenon
  <1> QED
    BY <1>2, <1>7

\* What has been escaped stays.
LEMMA GrowingKeeps ==
    ASSUME NEW p \in Seq(Byte), NEW u, Growing(p, u), NEW i \in 0 .. Len(p)
    PROVE  /\ Len(u[i]) <= Len(u[Len(p)])
           /\ \A k \in 1 .. Len(u[i]) : u[Len(p)][k] = u[i][k]
  <1> DEFINE n == Len(p)
             Keeps(j) == /\ Len(u[j]) <= Len(u[n])
                         /\ \A k \in 1 .. Len(u[j]) : u[n][k] = u[j][k]
             Bad == {m \in Nat : m <= n /\ ~Keeps(n - m)}
  <1> SUFFICES ASSUME ~Keeps(i) PROVE FALSE
    OBVIOUS
  <1> HIDE DEF Keeps
  <1>0. n \in Nat /\ \A j \in 0 .. n : Opened(u[j]) /\ Len(u[j]) \in Nat
    BY GrowingOpened DEF Opened
  <1>1. n - i \in Bad /\ Bad \in SUBSET Nat
    <2>1. n - (n - i) = i /\ n - i \in Nat /\ n - i <= n
      BY <1>0
    <2> QED
      BY <2>1
  <1>2. PICK c \in Bad : \A d \in Bad : c <= d
    <2> HIDE DEF Bad
    <2> QED
      BY <1>1, LeastOf
  <1>3. c # 0
    <2>1. Keeps(n - 0)
      BY <1>0 DEF Keeps
    <2> QED
      BY <1>2, <2>1
  <1>4. c - 1 \in Nat /\ c - 1 <= n /\ ~(c - 1 \in Bad) /\ c \in 1 .. n
    <2>1. c \in Nat /\ c <= n /\ n \in Nat /\ c # 0
      BY <1>0, <1>2, <1>3
    <2>2. c - 1 \in Nat /\ c - 1 <= n /\ c \in 1 .. n /\ ~(c <= c - 1)
      BY <2>1
    <2> QED
      BY <1>2, <2>2
  <1> DEFINE j == n - (c - 1)
  <1>5. Keeps(j) /\ j \in 1 .. n /\ j - 1 = n - c /\ j - 1 \in 0 .. n
    BY <1>0, <1>4
  <1> HIDE DEF j
  <1>6. /\ Len(u[j - 1]) <= Len(u[j])
        /\ \A k \in 1 .. Len(u[j - 1]) : u[j][k] = u[j - 1][k]
    <2>1. u[j] = u[j - 1] \o S!EscapedByte(p[j]) /\ p[j] \in Byte
      BY <1>5, GrowingStep
    <2>2. /\ Len(u[j]) = Len(u[j - 1]) + Len(S!EscapedByte(p[j]))
          /\ \A k \in 1 .. Len(u[j - 1]) : u[j][k] = u[j - 1][k]
      <3>1. Opened(u[j - 1])
        BY <1>0, <1>5
      <3> DEFINE b == p[j]
                 x == u[j - 1]
      <3>2. b \in Byte /\ u[j] = x \o S!EscapedByte(b) /\ Opened(x)
        BY <2>1, <3>1
      <3> HIDE DEF b, x
      <3>3. /\ Len(u[j]) = Len(x) + Len(S!EscapedByte(b))
            /\ \A k \in 1 .. Len(x) : u[j][k] = x[k]
        BY <3>2, OpenedGrows
      <3> QED
        BY <3>3 DEF b, x
    <2>3. Len(S!EscapedByte(p[j])) \in Nat
      BY <2>1, EscapedByteIs
    <2>4. Len(u[j - 1]) \in Nat
      BY <1>0, <1>5
    <2>5. Len(u[j - 1]) <= Len(u[j])
      <3> DEFINE a == Len(u[j])
                 b == Len(u[j - 1])
                 d == Len(S!EscapedByte(p[j]))
      <3>1. a = b + d /\ b \in Nat /\ d \in Nat
        BY <2>2, <2>3, <2>4
      <3> HIDE DEF a, b, d
      <3>2. b <= a
        BY <3>1
      <3> QED
        BY <3>2 DEF a, b
    <2> QED
      BY <2>2, <2>5
  <1>7. Keeps(j - 1)
    <2>1. Len(u[j]) \in Nat /\ Len(u[j - 1]) \in Nat /\ Len(u[n]) \in Nat
      BY <1>0, <1>5
    <2> QED
      BY <1>5, <1>6, <2>1, SMTT(60) DEF Keeps
  <1> QED
    BY <1>2, <1>5, <1>7

\* A frame has its delimiters at its ends and nowhere else.
LEMMA FrameShape ==
    ASSUME NEW p \in Seq(Byte)
    PROVE  LET e == S!Escaping(p)
           IN  /\ e \in Seq(Byte) /\ Len(e) >= 2 /\ e[1] = S!Begin /\ e[Len(e)] = S!End
               /\ \A k \in 2 .. Len(e) : e[k] # S!Begin
               /\ \A k \in 1 .. Len(e) - 1 : e[k] # S!End
  <1>1. PICK u : Growing(p, u) /\ S!Escaping(p) = Append(u[Len(p)], S!End)
    BY EscapingIs
  <1> DEFINE s == u[Len(p)]
             e == Append(s, S!End)
  <1>2. Opened(s)
    BY <1>1, GrowingOpened
  <1> HIDE DEF s
  <1>3. s \in Seq(Byte) /\ Len(s) \in Nat /\ Len(s) >= 1 /\ S!End \in Byte /\ S!End # S!Begin
    BY <1>2 DEF Opened, Byte, S!End, S!Begin
  <1>4. /\ e \in Seq(Byte) /\ Len(e) = Len(s) + 1 /\ e[Len(s) + 1] = S!End
        /\ \A k \in 1 .. Len(s) : e[k] = s[k]
    BY <1>3, AppendProperties
  <1> HIDE DEF e
  <1>5. e[1] = S!Begin
    BY <1>2, <1>3, <1>4 DEF Opened
  <1>6. ASSUME NEW k \in 2 .. Len(e) PROVE e[k] # S!Begin
    <2>1. k = Len(s) + 1 \/ k \in 2 .. Len(s)
      BY <1>3, <1>4
    <2> QED
      BY <1>2, <1>3, <1>4, <2>1 DEF Opened
  <1>7. ASSUME NEW k \in 1 .. Len(e) - 1 PROVE e[k] # S!End
    <2>1. k \in 1 .. Len(s) /\ (k = 1 \/ k \in 2 .. Len(s))
      BY <1>3, <1>4
    <2> QED
      BY <1>2, <1>3, <1>4, <2>1 DEF Opened
  <1>8. S!Escaping(p) = e
    BY <1>1 DEF e, s
  <1> QED
    BY <1>3, <1>4, <1>5, <1>6, <1>7, <1>8

-----------------------------------------------------------------------------
\* One step of Recovery, from what comes one and two bytes later
Recovered(t, i, x, y) ==
    IF i > IndexMod THEN Endless ELSE IF i >= Len(t) THEN <<>>
    ELSE LET pair == t[i] \in {S!EscB, S!EscE}
             here == IF pair THEN S!Unescaped(t[i], t[i + 1]) ELSE <<t[i]>>
             rest == IF pair THEN y ELSE x
         IN  IF here = NoPayload \/ rest = NoPayload THEN NoPayload
             ELSE IF rest = Endless THEN Endless ELSE here \o rest

Recovering(t, m, f) ==
    f = [i \in m .. Len(t) + 1 |-> Recovered(t, i, f[i + 1], f[i + 2])]

LEMMA RecoveringExists ==
    ASSUME NEW t \in Seq(Byte), Len(t) >= 1
    PROVE  \E f : Recovering(t, 2, f)
  <1> DEFINE n == Len(t)
             Fails(k) == ~\E f : Recovering(t, (n + 1) - k, f)
             Bad == {k \in Nat : k <= n - 1 /\ Fails(k)}
  <1> SUFFICES ASSUME ~\E f : Recovering(t, 2, f) PROVE FALSE
    OBVIOUS
  <1>0. n \in Nat /\ n >= 1
    OBVIOUS
  <1>1. n - 1 \in Bad /\ Bad \in SUBSET Nat
    <2>1. (n + 1) - (n - 1) = 2 /\ n - 1 \in Nat
      BY <1>0
    <2>2. n - 1 <= n - 1 /\ Bad \in SUBSET Nat
      BY <1>0
    <2>3. \A f : Recovering(t, (n + 1) - (n - 1), f) <=> Recovering(t, 2, f)
      <3> HIDE DEF n
      <3> QED
        BY <2>1
    <2>4. ~\E f : Recovering(t, (n + 1) - (n - 1), f)
      BY <2>3
    <2>5. Fails(n - 1)
      BY <2>4
    <2> HIDE DEF n, Fails
    <2> QED
      BY <2>1, <2>2, <2>5
  <1>2. PICK c \in Bad : \A d \in Bad : c <= d
    <2> HIDE DEF Bad
    <2> QED
      BY <1>1, LeastOf
  <1>3. c \in Nat /\ c <= n - 1 /\ ~\E f : Recovering(t, n + 1 - c, f)
    OBVIOUS
  <1> HIDE DEF n
  <1> DEFINE m == n + 1 - c
  <1>4. m \in 2 .. n + 1
    BY <1>0, <1>3
  <1>5. CASE m = n + 1
    <2> DEFINE f == [i \in m .. n + 1 |-> Recovered(t, i, <<>>, <<>>)]
    <2>1. \A i \in m .. n + 1 : \A x, y : Recovered(t, i, x, y) = Recovered(t, i, <<>>, <<>>)
      BY <1>0, <1>5 DEF Recovered, n
    <2>2. f = [i \in m .. n + 1 |-> Recovered(t, i, f[i + 1], f[i + 2])]
      <3> HIDE DEF m
      <3>1. \A i \in m .. n + 1 : f[i] = Recovered(t, i, f[i + 1], f[i + 2])
        BY <2>1
      <3>2. f = [i \in m .. n + 1 |-> f[i]]
        OBVIOUS
      <3> HIDE DEF f
      <3> QED
        BY <3>1, <3>2
    <2> QED
      BY <1>3, <2>2 DEF Recovering, n
  <1>6. CASE m # n + 1
    <2>1. c - 1 \in Nat /\ c - 1 <= n - 1 /\ ~(c <= c - 1) /\ n + 1 - (c - 1) = m + 1
      BY <1>0, <1>3, <1>6
    <2>2. ~(c - 1 \in Bad)
      BY <1>2, <2>1
    <2>3. PICK g : Recovering(t, m + 1, g)
      BY <2>1, <2>2 DEF n
    <2> HIDE DEF m
    <2> DEFINE f == [i \in m .. n + 1 |-> IF i = m THEN Recovered(t, m, g[m + 1], g[m + 2]) ELSE g[i]]
    <2>4. ASSUME NEW i \in m .. n + 1
          PROVE  f[i] = Recovered(t, i, f[i + 1], f[i + 2])
      <3>1. CASE i >= n
        <4>1. \A x, y, z, w : Recovered(t, i, x, y) = Recovered(t, i, z, w)
          BY <3>1 DEF Recovered, n
        <4>2. CASE i = m
          BY <4>1, <4>2
        <4>3. CASE i # m
          <5>1. i \in m + 1 .. n + 1
            BY <1>0, <1>4, <4>3
          <5>2. g[i] = Recovered(t, i, g[i + 1], g[i + 2])
            BY <2>3, <5>1 DEF Recovering, n
          <5> QED
            BY <4>1, <4>3, <5>2
        <4> QED
          BY <4>2, <4>3
      <3>2. CASE ~(i >= n)
        <4>1. i + 1 \in m .. n + 1 /\ i + 2 \in m .. n + 1 /\ i + 1 # m /\ i + 2 # m
          BY <1>0, <1>4, <3>2
        <4>2. f[i + 1] = g[i + 1] /\ f[i + 2] = g[i + 2]
          BY <4>1, Zenon
        <4>3. CASE i = m
          BY <4>2, <4>3
        <4>4. CASE i # m
          <5>1. i \in m + 1 .. n + 1
            BY <1>0, <1>4, <4>4
          <5>2. g[i] = Recovered(t, i, g[i + 1], g[i + 2])
            BY <2>3, <5>1 DEF Recovering, n
          <5>3. f[i] = g[i]
            BY <4>4
          <5> HIDE DEF f
          <5> QED
            BY <4>2, <5>2, <5>3
        <4> QED
          BY <4>3, <4>4
      <3> QED
        BY <3>1, <3>2
    <2>5. f = [i \in m .. n + 1 |-> f[i]]
      OBVIOUS
    <2> HIDE DEF f
    <2>6. Recovering(t, m, f)
      BY <2>4, <2>5 DEF Recovering, n
    <2> QED
      BY <1>3, <2>6 DEF m
  <1> QED
    BY <1>5, <1>6

LEMMA RecoveryIs ==
    ASSUME NEW t \in Seq(Byte), Len(t) >= 1
    PROVE  \E f : /\ Recovering(t, 2, f)
                  /\ S!Recovery(t) = IF t[1] # S!Begin \/ t[Len(t)] # S!End THEN NoPayload ELSE f[2]
  <1> DEFINE n == Len(t)
             One(f, i) ==
          IF i > IndexMod THEN Endless ELSE IF i >= n THEN <<>>
          ELSE LET pair == t[i] \in {S!EscB, S!EscE}
                   here == IF pair THEN S!Unescaped(t[i], t[i + 1]) ELSE <<t[i]>>
                   rest == f[IF pair THEN i + 2 ELSE i + 1]
               IN  IF here = NoPayload \/ rest = NoPayload THEN NoPayload
                   ELSE IF rest = Endless THEN Endless ELSE here \o rest
             Fits(f) == f = [i \in 2 .. (n + 1) |-> One(f, i)]
             f == CHOOSE f : Fits(f)
  <1>1. \A g : Fits(g) <=> Recovering(t, 2, g)
    <2> SUFFICES ASSUME NEW g, NEW i \in 2 .. (n + 1)
                 PROVE  Recovered(t, i, g[i + 1], g[i + 2]) = One(g, i)
      <3> HIDE DEF One
      <3> QED
        BY DEF Recovering
    <2>1. g[IF t[i] \in {S!EscB, S!EscE} THEN i + 2 ELSE i + 1] =
          IF t[i] \in {S!EscB, S!EscE} THEN g[i + 2] ELSE g[i + 1]
      OBVIOUS
    <2> QED
      BY <2>1, Zenon DEF Recovered
  <1>2. Fits(f)
    <2>1. \E g : Fits(g)
      BY <1>1, RecoveringExists
    <2> HIDE DEF Fits
    <2> QED
      BY <2>1
  <1>3. S!Recovery(t) = IF t[1] # S!Begin \/ t[n] # S!End THEN NoPayload ELSE f[2]
    BY Zenon DEF S!Recovery
  <1> HIDE DEF Fits
  <1>4. Recovering(t, 2, f)
    BY <1>1, <1>2
  <1> QED
    BY <1>3, <1>4

LEMMA BytesAreNumbers ==
  /\ \A b \in Byte : <<b>> \in Seq(Int)
  /\ \A s \in Seq(Byte) : s \in Seq(Int)
  <1>1. ASSUME NEW s \in Seq(Byte) PROVE s \in Seq(Int)
    <2>1. \A i \in 1 .. Len(s) : s[i] \in Byte
      OBVIOUS
    <2>2. \A i \in 1 .. Len(s) : s[i] \in Int
      <3>1. \A b \in Byte : b \in Int
        BY DEF Byte
      <3> QED
        BY <2>1, <3>1
    <2>3. s = [i \in 1 .. Len(s) |-> s[i]] /\ Len(s) \in Nat
      OBVIOUS
    <2>4. s \in [1 .. Len(s) -> Int]
      BY <2>2, <2>3, Zenon
    <2> QED
      BY <2>3, <2>4, SeqDef
  <1>2. ASSUME NEW b \in Byte PROVE <<b>> \in Seq(Int)
    BY DEF Byte
  <1> QED
    BY <1>1, <1>2

\* The marks of a recovery without a payload are no payloads.
NoBytes == NoPayload \notin Seq(Int) /\ Endless \notin Seq(Int) /\ Endless # NoPayload /\ IndexMod \in Nat

\* Recovering what has been escaped gives the payload back, as far as the index
\* reaches.
LEMMA RecoveryOfEscaping ==
    ASSUME NEW p \in Seq(Byte), NoBytes
    PROVE  S!Recovery(S!Escaping(p)) = IF Len(S!Escaping(p)) > IndexMod THEN Endless ELSE p
  <1>1. PICK u : Growing(p, u) /\ S!Escaping(p) = Append(u[Len(p)], S!End)
    BY EscapingIs
  <1> DEFINE t == S!Escaping(p)
             n == Len(p)
  <1>2. t \in Seq(Byte) /\ Len(t) >= 2 /\ t[1] = S!Begin /\ t[Len(t)] = S!End
    BY FrameShape
  <1>3. PICK f : Recovering(t, 2, f) /\ S!Recovery(t) = f[2]
    BY <1>2, RecoveryIs
  <1>4. n \in Nat /\ \A i \in 0 .. n : u[i] \in Seq(Byte) /\ Len(u[i]) \in Nat /\ Len(u[i]) >= 1
    BY <1>1, GrowingOpened DEF Opened
  <1>5. Len(t) = Len(u[n]) + 1 /\ \A k \in 1 .. Len(u[n]) : t[k] = u[n][k]
    <2>1. u[n] \in Seq(Byte) /\ S!End \in Byte
      BY <1>4 DEF S!End, Byte
    <2> HIDE DEF n
    <2> QED
      BY <1>1, <2>1, AppendProperties DEF n
  <1>6. ASSUME NEW i \in 0 .. n
        PROVE  Len(u[i]) < Len(t) /\ \A k \in 1 .. Len(u[i]) : t[k] = u[i][k]
    <2>1. /\ Len(u[i]) <= Len(u[n]) /\ \A k \in 1 .. Len(u[i]) : u[n][k] = u[i][k]
      BY <1>1, GrowingKeeps
    <2>2. Len(u[i]) \in Nat /\ Len(u[n]) \in Nat
      BY <1>4
    <2> HIDE DEF t, n
    <2>3. Len(u[i]) < Len(t) /\ \A k \in 1 .. Len(u[i]) : k \in 1 .. Len(u[n])
      BY <1>5, <2>1, <2>2
    <2> QED
      BY <1>5, <2>1, <2>3
  <1> HIDE DEF t, n
  <1> DEFINE Gives(i) == IF Len(t) > IndexMod THEN Endless ELSE SubSeq(p, i + 1, n)
             Left(i) == f[Len(u[i]) + 1] = Gives(i)
             Bad == {k \in Nat : k <= n /\ ~Left(n - k)}
  <1> HIDE DEF Left, Gives
  <1>7. Left(n)
    <2>1. Len(u[n]) + 1 = Len(t) /\ Len(t) \in 2 .. Len(t) + 1
      BY <1>2, <1>4, <1>5
    <2>2. f[Len(t)] = Recovered(t, Len(t), f[Len(t) + 1], f[Len(t) + 2])
      BY <1>3, <2>1 DEF Recovering
    <2>3. f[Len(t)] = IF Len(t) > IndexMod THEN Endless ELSE <<>>
      BY <1>2, <2>2 DEF Recovered
    <2>4. SubSeq(p, n + 1, n) = <<>>
      BY <1>4, SubSeqEmpty
    <2> QED
      BY <2>1, <2>3, <2>4 DEF Left, Gives
  <1>8. ASSUME NEW i \in 1 .. n, Left(i) PROVE Left(i - 1)
    <2> DEFINE b == p[i]
               e == S!EscapedByte(b)
               l == Len(u[i - 1])
    <2>1. u[i] = u[i - 1] \o e /\ b \in Byte /\ i - 1 \in 0 .. n /\ i \in 0 .. n
      <3>1. i \in 1 .. Len(p)
        BY DEF n
      <3>2. u[i] = u[i - 1] \o S!EscapedByte(p[i]) /\ p[i] \in Byte
        BY <1>1, <3>1, GrowingStep, Zenon
      <3>3. i - 1 \in 0 .. n /\ i \in 0 .. n
        BY <1>4
      <3> QED
        BY <3>2, <3>3
    <2>2. Opened(u[i - 1])
      BY <1>1, <2>1, GrowingOpened DEF n
    <2>3. /\ Len(u[i]) = l + Len(e)
          /\ \A k \in 1 .. Len(e) : u[i][l + k] = e[k]
      <3> DEFINE x == u[i - 1]
      <3>1. Opened(x) /\ b \in Byte /\ u[i] = x \o S!EscapedByte(b)
        BY <2>1, <2>2
      <3> HIDE DEF x, b
      <3>2. Len(u[i]) = Len(x) + Len(S!EscapedByte(b))
            /\ \A k \in 1 .. Len(S!EscapedByte(b)) : u[i][Len(x) + k] = S!EscapedByte(b)[k]
        BY <3>1, OpenedGrows
      <3> QED
        BY <3>2 DEF x
    <2>4. l \in Nat /\ l >= 1 /\ Len(u[i]) < Len(t)
      BY <1>4, <1>6, <2>1
    <2>5. /\ Len(e) \in 1 .. 2
          /\ Len(e) = 1 => e[1] = b /\ e[1] # S!EscB /\ e[1] # S!EscE
          /\ Len(e) = 2 => e[1] \in {S!EscB, S!EscE} /\ S!Unescaped(e[1], e[2]) = <<b>>
      BY <2>1, EscapedByteIs
    <2>6. ASSUME NEW k \in 1 .. Len(e) PROVE t[l + k] = e[k]
      <3>1. l + k \in 1 .. Len(u[i])
        <4> HIDE DEF l, e
        <4> QED
          BY <2>3, <2>4, <2>5
      <3> QED
        BY <1>6, <2>1, <2>3, <3>1
    <2>7. l + Len(e) < Len(t) /\ Len(t) \in Nat /\ Len(e) \in Nat
      <3>1. Len(t) \in Nat
        BY <1>2
      <3> HIDE DEF l, e
      <3> QED
        BY <2>3, <2>4, <2>5, <3>1
    <2>8. SubSeq(p, i, n) = <<b>> \o SubSeq(p, i + 1, n) /\ SubSeq(p, i + 1, n) \in Seq(Byte)
      <3>1. p \in Seq(Byte) /\ n = Len(p) /\ i \in 1 .. n
        BY DEF n
      <3> QED
        BY <3>1
    <2>9. Gives(i) # NoPayload /\ <<b>> # NoPayload
          /\ (~(Len(t) > IndexMod) => Gives(i) # Endless /\ Gives(i) = SubSeq(p, i + 1, n))
          /\ (Len(t) > IndexMod => Gives(i) = Endless)
      <3>1. SubSeq(p, i + 1, n) \in Seq(Int) /\ <<b>> \in Seq(Int)
        BY <2>1, <2>8, BytesAreNumbers
      <3> QED
        BY <3>1 DEF NoBytes, Gives
    <2>15. Gives(i - 1) = IF Len(t) > IndexMod THEN Endless ELSE <<b>> \o SubSeq(p, i + 1, n)
      <3>1. (i - 1) + 1 = i
        BY <1>4
      <3> QED
        BY <2>8, <3>1 DEF Gives
    <2>16. ASSUME NEW here, here = <<b>>, NEW rest, rest = Gives(i),
                  f[l + 1] = IF l + 1 > IndexMod THEN Endless
                             ELSE IF here = NoPayload \/ rest = NoPayload THEN NoPayload
                             ELSE IF rest = Endless THEN Endless ELSE here \o rest
           PROVE  f[l + 1] = Gives(i - 1)
      <3>1. ~(Len(t) > IndexMod) => ~(l + 1 > IndexMod)
        <4>1. IndexMod \in Nat
          BY DEF NoBytes
        <4> HIDE DEF l, e
        <4> QED
          BY <2>4, <2>5, <2>7, <4>1
      <3> QED
        BY <2>9, <2>15, <2>16, <3>1
    <2> HIDE DEF l, e, b
    <2>10. f[l + 1] = Recovered(t, l + 1, f[l + 2], f[l + 3])
      <3>1. l + 1 \in 2 .. Len(t) + 1 /\ (l + 1) + 1 = l + 2 /\ (l + 1) + 2 = l + 3
        BY <2>4, <2>5, <2>7
      <3>2. f[l + 1] = Recovered(t, l + 1, f[(l + 1) + 1], f[(l + 1) + 2])
        BY <1>3, <3>1 DEF Recovering
      <3> QED
        BY <3>1, <3>2
    <2>11. ~(l + 1 >= Len(t))
      BY <2>4, <2>5, <2>7
    <2>12. (i - 1) + 1 = i
      BY <1>4
    <2>13. CASE Len(e) = 1
      <3>1. t[l + 1] = b /\ t[l + 1] \notin {S!EscB, S!EscE}
        BY <2>5, <2>6, <2>13
      <3>2. f[l + 2] = Gives(i)
        <4>1. Len(u[i]) + 1 = l + 2
          BY <2>3, <2>4, <2>13
        <4> QED
          BY <1>8, <4>1 DEF Left
      <3>3. f[l + 1] = Gives(i - 1)
        BY <2>10, <2>11, <2>16, <3>1, <3>2 DEF Recovered
      <3> QED
        BY <2>12, <3>3 DEF Left, l
    <2>14. CASE Len(e) = 2
      <3>1. t[l + 1] \in {S!EscB, S!EscE} /\ S!Unescaped(t[l + 1], t[l + 2]) = <<b>>
        BY <2>5, <2>6, <2>14
      <3>2. f[l + 3] = Gives(i)
        <4>1. Len(u[i]) + 1 = l + 3
          BY <2>3, <2>4, <2>14
        <4> QED
          BY <1>8, <4>1 DEF Left
      <3>3. (l + 1) + 1 = l + 2
        BY <2>4
      <3>4. f[l + 1] = Gives(i - 1)
        BY <2>10, <2>11, <2>16, <3>1, <3>2, <3>3 DEF Recovered
      <3> QED
        BY <2>12, <3>4 DEF Left, l
    <2> QED
      BY <2>5, <2>13, <2>14
  <1>9. Left(0)
    <2> SUFFICES ASSUME ~Left(0) PROVE FALSE
      OBVIOUS
    <2>1. n \in Bad /\ Bad \in SUBSET Nat
      BY <1>4
    <2>2. PICK c \in Bad : \A d \in Bad : c <= d
      <3> HIDE DEF Bad
      <3> QED
        BY <2>1, LeastOf
    <2>3. c \in Nat /\ c <= n /\ ~Left(n - c)
      OBVIOUS
    <2>4. c # 0
      <3>1. n - 0 = n
        BY <1>4
      <3> QED
        BY <1>7, <2>3, <3>1
    <2>5. c - 1 \in Nat /\ c - 1 <= n /\ ~(c <= c - 1) /\ n - (c - 1) \in 1 .. n
          /\ (n - (c - 1)) - 1 = n - c
      BY <1>4, <2>3, <2>4
    <2>6. Left(n - (c - 1))
      BY <2>2, <2>5
    <2>7. Left((n - (c - 1)) - 1)
      BY <1>8, <2>5, <2>6
    <2> QED
      BY <2>3, <2>5, <2>7
  <1>10. u[0] = <<S!Begin>>
    <2>1. 0 \in 0 .. Len(p)
      OBVIOUS
    <2> QED
      BY <1>1, <2>1, Zenon DEF Growing
  <1>11. SubSeq(p, 0 + 1, n) = p
    BY DEF n
  <1>12. Len(u[0]) + 1 = 2
    BY <1>10
  <1> QED
    BY <1>3, <1>9, <1>11, <1>12 DEF Left, Gives, t

-----------------------------------------------------------------------------
(* The serial line *)

\* A part of a sequence, from after its first a elements
PieceOf(s, e, a) == a + Len(s) <= Len(e) /\ \A k \in 1 .. Len(s) : s[k] = e[a + k]

\* Only the whole frame is recovered from.
LEMMA WholeOnly ==
    ASSUME NEW p \in Seq(Byte), NoBytes,
           NEW s \in Seq(Byte), s # <<>>, NEW a \in Nat, PieceOf(s, S!Escaping(p), a)
    PROVE  S!Recovery(s) = NoPayload \/ s = S!Escaping(p)
  <1> DEFINE e == S!Escaping(p)
  <1>1. /\ e \in Seq(Byte) /\ Len(e) >= 2 /\ Len(e) \in Nat
        /\ \A k \in 2 .. Len(e) : e[k] # S!Begin
        /\ \A k \in 1 .. Len(e) - 1 : e[k] # S!End
    BY FrameShape
  <1>2. Len(s) \in Nat /\ Len(s) >= 1
    BY EmptySeq
  <1>4. ASSUME S!Recovery(s) # NoPayload PROVE s = e
    <2>1. s[1] = S!Begin /\ s[Len(s)] = S!End
      BY <1>2, <1>4, RecoveryIs
    <2> HIDE DEF e
    <2>2. a + Len(s) <= Len(e) /\ \A k \in 1 .. Len(s) : s[k] = e[a + k]
      BY DEF PieceOf, e
    <2>3. a + 1 \in 1 .. Len(e) /\ a + Len(s) \in 1 .. Len(e) /\ 1 \in 1 .. Len(s) /\ Len(s) \in 1 .. Len(s)
      BY <1>1, <1>2, <2>2
    <2>4. e[a + 1] = S!Begin /\ e[a + Len(s)] = S!End
      BY <2>1, <2>2, <2>3
    <2>5. ~(a + 1 \in 2 .. Len(e)) /\ ~(a + Len(s) \in 1 .. Len(e) - 1)
      BY <1>1, <2>4
    <2>6. a = 0 /\ Len(s) = Len(e)
      BY <1>1, <1>2, <2>3, <2>5
    <2>7. \A k \in 1 .. Len(s) : s[k] = e[k]
      BY <2>2, <2>6
    <2> QED
      BY <1>1, <2>6, <2>7, SeqEqual
  <1> HIDE DEF e
  <1> QED
    BY <1>4 DEF e

\* Adjacent parts of a frame, somewhere in it
Adjacent(d, l, u, e) ==
    \E a \in Nat :
        PieceOf(d, e, a) /\ PieceOf(l, e, a + Len(d)) /\ PieceOf(u, e, a + Len(d) + Len(l))

LEMMA PieceParts ==
    ASSUME NEW s \in Seq(Byte), NEW e \in Seq(Byte), NEW a \in Nat, PieceOf(s, e, a),
           NEW n \in 0 .. Len(s)
    PROVE  /\ SubSeq(s, 1, n) \in Seq(Byte) /\ Len(SubSeq(s, 1, n)) = n
           /\ PieceOf(SubSeq(s, 1, n), e, a)
           /\ SubSeq(s, n + 1, Len(s)) \in Seq(Byte)
           /\ Len(SubSeq(s, n + 1, Len(s))) = Len(s) - n
           /\ PieceOf(SubSeq(s, n + 1, Len(s)), e, a + n)
  <1> DEFINE f == SubSeq(s, 1, n)
             r == SubSeq(s, n + 1, Len(s))
  <1>0. Len(s) \in Nat /\ Len(e) \in Nat /\ \A k \in 1 .. Len(s) : s[k] \in Byte
    OBVIOUS
  <1>1. f \in Seq(Byte) /\ Len(f) = n /\ \A k \in 1 .. n : f[k] = s[k]
    <2>1. \A k \in 1 .. n : s[k] \in Byte
      BY <1>0
    <2> QED
      BY <2>1, SubSeqProperties
  <1>2. r \in Seq(Byte) /\ Len(r) = Len(s) - n /\ \A k \in 1 .. Len(s) - n : r[k] = s[n + k]
    <2>1. \A k \in n + 1 .. Len(s) : s[k] \in Byte
      BY <1>0
    <2>2. r \in Seq(Byte) /\ Len(r) = (IF n + 1 <= Len(s) THEN Len(s) - (n + 1) + 1 ELSE 0)
          /\ \A k \in 1 .. Len(s) - (n + 1) + 1 : r[k] = s[(n + 1) + k - 1]
      BY <1>0, <2>1, SubSeqProperties
    <2>3. Len(s) - (n + 1) + 1 = Len(s) - n
      BY <1>0
    <2>4. ASSUME NEW k \in 1 .. Len(s) - n PROVE r[k] = s[n + k]
      <3>1. (n + 1) + k - 1 = n + k
        BY <1>0
      <3>2. k \in 1 .. Len(s) - (n + 1) + 1
        BY <2>3
      <3>3. r[k] = s[(n + 1) + k - 1]
        BY <2>2, <3>2
      <3> QED
        BY <3>1, <3>3
    <2>5. Len(r) = Len(s) - n
      BY <1>0, <2>2, <2>3
    <2> QED
      BY <2>2, <2>4, <2>5
  <1> HIDE DEF f, r
  <1>3. a + Len(s) <= Len(e) /\ \A k \in 1 .. Len(s) : s[k] = e[a + k]
    BY DEF PieceOf
  <1>4. PieceOf(f, e, a)
    <2>1. \A k \in 1 .. n : k \in 1 .. Len(s)
      BY <1>0
    <2>2. \A k \in 1 .. n : f[k] = e[a + k]
      BY <1>1, <1>3, <2>1
    <2>3. a + n <= Len(e)
      BY <1>0, <1>3
    <2> QED
      BY <1>1, <2>2, <2>3 DEF PieceOf
  <1>5. PieceOf(r, e, a + n)
    <2>1. ASSUME NEW k \in 1 .. Len(r) PROVE r[k] = e[(a + n) + k]
      <3>1. n + k \in 1 .. Len(s) /\ a + (n + k) = (a + n) + k /\ k \in 1 .. Len(s) - n
        BY <1>0, <1>2
      <3> QED
        BY <1>2, <1>3, <3>1
    <2>2. (a + n) + Len(r) <= Len(e)
      BY <1>0, <1>2, <1>3
    <2> QED
      BY <2>1, <2>2 DEF PieceOf
  <1> QED
    BY <1>1, <1>2, <1>4, <1>5 DEF f, r

LEMMA PieceJoined ==
    ASSUME NEW s \in Seq(Byte), NEW t \in Seq(Byte), NEW e \in Seq(Byte), NEW a \in Nat,
           PieceOf(s, e, a), PieceOf(t, e, a + Len(s))
    PROVE  /\ s \o t \in Seq(Byte) /\ Len(s \o t) = Len(s) + Len(t)
           /\ PieceOf(s \o t, e, a)
  <1> DEFINE b == s \o t
  <1>0. Len(s) \in Nat /\ Len(t) \in Nat /\ Len(e) \in Nat
    OBVIOUS
  <1>1. /\ b \in Seq(Byte) /\ Len(b) = Len(s) + Len(t)
        /\ \A k \in 1 .. Len(s) + Len(t) : b[k] = IF k <= Len(s) THEN s[k] ELSE t[k - Len(s)]
    BY ConcatProperties
  <1> HIDE DEF b
  <1>2. /\ \A k \in 1 .. Len(s) : s[k] = e[a + k]
        /\ (a + Len(s)) + Len(t) <= Len(e) /\ \A k \in 1 .. Len(t) : t[k] = e[(a + Len(s)) + k]
    BY DEF PieceOf
  <1>3. ASSUME NEW k \in 1 .. Len(b) PROVE b[k] = e[a + k]
    <2>1. k \in 1 .. Len(s) + Len(t)
      BY <1>0, <1>1
    <2>2. CASE k <= Len(s)
      <3>1. k \in 1 .. Len(s) /\ b[k] = s[k]
        BY <1>0, <1>1, <2>1, <2>2
      <3> QED
        BY <1>2, <3>1
    <2>3. CASE ~(k <= Len(s))
      <3>1. k - Len(s) \in 1 .. Len(t) /\ (a + Len(s)) + (k - Len(s)) = a + k
        BY <1>0, <2>1, <2>3
      <3>2. b[k] = t[k - Len(s)]
        BY <1>1, <2>1, <2>3
      <3> QED
        BY <1>2, <3>1, <3>2
    <2> QED
      BY <2>2, <2>3
  <1>4. a + Len(b) <= Len(e)
    BY <1>0, <1>1, <1>2
  <1> QED
    BY <1>1, <1>3, <1>4 DEF PieceOf, b

LEMMA PieceEmpty ==
    ASSUME NEW e \in Seq(Byte), NEW a \in Nat, a <= Len(e)
    PROVE  PieceOf(<<>>, e, a)
  BY DEF PieceOf

\* What the writing, the reading and the clearing do to adjacent parts
LEMMA AdjacentAfter ==
    ASSUME NEW d \in Seq(Byte), NEW l \in Seq(Byte), NEW u \in Seq(Byte), NEW e \in Seq(Byte),
           Adjacent(d, l, u, e)
    PROVE  /\ Adjacent(<<>>, l, u, e)
           /\ Adjacent(d, l, <<>>, e)
           /\ Adjacent(<<>>, <<>>, u, e)
           /\ \A n \in 0 .. Len(u) :
                 Adjacent(d, l \o SubSeq(u, 1, n), SubSeq(u, n + 1, Len(u)), e)
           /\ \A n \in 0 .. Len(l) :
                 Adjacent(d \o SubSeq(l, 1, n), SubSeq(l, n + 1, Len(l)), u, e)
  <1>0. PICK a \in Nat : /\ PieceOf(d, e, a) /\ PieceOf(l, e, a + Len(d))
                         /\ PieceOf(u, e, a + Len(d) + Len(l))
    BY DEF Adjacent
  <1> DEFINE b == a + Len(d)
             c == b + Len(l)
  <1>1. /\ Len(d) \in Nat /\ Len(l) \in Nat /\ Len(u) \in Nat /\ Len(e) \in Nat
        /\ b \in Nat /\ c \in Nat /\ b <= c /\ c <= Len(e)
    BY <1>0 DEF PieceOf
  <1>2. b = a + Len(d) /\ c = b + Len(l) /\ PieceOf(l, e, b) /\ PieceOf(u, e, c)
    BY <1>0
  <1> HIDE DEF b, c
  <1>3. Len(<<>>) = 0 /\ b + 0 = b /\ c + 0 = c
    BY <1>1
  <1>4. PieceOf(<<>>, e, b) /\ PieceOf(<<>>, e, c)
    BY <1>1, PieceEmpty
  <1>5. Adjacent(<<>>, l, u, e)
    <2>1. PieceOf(l, e, b + Len(<<>>)) /\ PieceOf(u, e, b + Len(<<>>) + Len(l))
      BY <1>2, <1>3
    <2> QED
      BY <1>1, <1>4, <2>1 DEF Adjacent
  <1>6. Adjacent(d, l, <<>>, e)
    <2>1. PieceOf(l, e, a + Len(d)) /\ PieceOf(<<>>, e, a + Len(d) + Len(l))
      BY <1>2, <1>4
    <2> QED
      BY <1>0, <2>1 DEF Adjacent
  <1>7. Adjacent(<<>>, <<>>, u, e)
    <2>1. PieceOf(<<>>, e, c + Len(<<>>)) /\ PieceOf(u, e, c + Len(<<>>) + Len(<<>>))
      BY <1>2, <1>3, <1>4
    <2> QED
      BY <1>1, <1>4, <2>1 DEF Adjacent
  <1>8. ASSUME NEW n \in 0 .. Len(u)
        PROVE  Adjacent(d, l \o SubSeq(u, 1, n), SubSeq(u, n + 1, Len(u)), e)
    <2> DEFINE f == SubSeq(u, 1, n)
               r == SubSeq(u, n + 1, Len(u))
    <2>1. f \in Seq(Byte) /\ Len(f) = n /\ PieceOf(f, e, c) /\ PieceOf(r, e, c + n)
      BY <1>1, <1>2, PieceParts
    <2> HIDE DEF f, r
    <2>2. PieceOf(f, e, b + Len(l))
      BY <1>2, <2>1
    <2>3. Len(l \o f) = Len(l) + Len(f) /\ PieceOf(l \o f, e, b)
      BY <1>1, <1>2, <2>1, <2>2, PieceJoined
    <2>4. c + n = b + (Len(l) + Len(f))
      BY <1>1, <1>2, <2>1
    <2>5. PieceOf(l \o f, e, a + Len(d)) /\ PieceOf(r, e, a + Len(d) + Len(l \o f))
      BY <1>2, <2>1, <2>3, <2>4
    <2>6. Adjacent(d, l \o f, r, e)
      BY <1>0, <2>5 DEF Adjacent
    <2> QED
      BY <2>6 DEF f, r
  <1>9. ASSUME NEW n \in 0 .. Len(l)
        PROVE  Adjacent(d \o SubSeq(l, 1, n), SubSeq(l, n + 1, Len(l)), u, e)
    <2> DEFINE f == SubSeq(l, 1, n)
               r == SubSeq(l, n + 1, Len(l))
    <2>1. f \in Seq(Byte) /\ Len(f) = n /\ PieceOf(f, e, b) /\ PieceOf(r, e, b + n)
          /\ Len(r) = Len(l) - n
      BY <1>1, <1>2, PieceParts
    <2> HIDE DEF f, r
    <2>2. PieceOf(f, e, a + Len(d))
      BY <1>2, <2>1
    <2>3. Len(d \o f) = Len(d) + Len(f) /\ PieceOf(d \o f, e, a)
      BY <1>0, <1>1, <2>1, <2>2, PieceJoined
    <2>4. b + n = a + (Len(d) + Len(f)) /\ c = a + (Len(d) + Len(f)) + Len(r)
      BY <1>1, <1>2, <2>1
    <2>5. PieceOf(r, e, a + Len(d \o f)) /\ PieceOf(u, e, a + Len(d \o f) + Len(r))
      BY <1>2, <2>1, <2>3, <2>4
    <2>6. Adjacent(d \o f, r, u, e)
      BY <2>3, <2>5 DEF Adjacent
    <2> QED
      BY <2>6 DEF f, r
  <1> QED
    BY <1>5, <1>6, <1>7, <1>8, <1>9

\* What the buffer, the kernel and the writer hold are adjacent parts of the
\* last frame.
LineInv ==
    /\ use \in Uses
    /\ sent \in Seq(Seq(Byte)) /\ received \in Seq(Seq(Byte))
    /\ data \in Seq(Byte) /\ line \in Seq(Byte) /\ unsent \in Seq(Byte)
    /\ S!SerialTypeOK
    /\ sent = <<>> => data = <<>> /\ line = <<>> /\ unsent = <<>>
    /\ sent # <<>> => Adjacent(data, line, unsent, S!Escaping(S!Last(sent)))

LEMMA LastIs ==
    ASSUME NEW B, NEW s \in Seq(B), NEW p \in B
    PROVE  /\ S!Last(Append(s, p)) = p /\ Append(s, p) # <<>> /\ Append(s, p) \in Seq(B)
           /\ Append(s, p) # s
           /\ s # <<>> => S!Last(s) \in B
  <1>1. /\ Append(s, p) \in Seq(B) /\ Append(s, p) # <<>> /\ Len(Append(s, p)) = Len(s) + 1
        /\ Append(s, p)[Len(s) + 1] = p /\ Len(s) \in Nat
    BY AppendProperties
  <1>2. s # <<>> => Len(s) \in 1 .. Len(s)
    BY EmptySeq
  <1>3. S!Last(Append(s, p)) = p
    BY <1>1 DEF S!Last
  <1>4. Append(s, p) # s
    BY <1>1
  <1>5. s # <<>> => S!Last(s) \in B
    BY <1>2 DEF S!Last
  <1> QED
    BY <1>1, <1>3, <1>4, <1>5

LEMMA LineUse ==
    ASSUME LineInv
    PROVE  /\ use.size \in Nat /\ \A p \in use.payloads : p \in Seq(Byte)
           /\ NoBytes /\ NoPayload \notin Seq(Int) /\ Endless \notin Seq(Int) /\ Endless # NoPayload
  <1>1. S!LineAssumption /\ use \in Uses
    BY DevicesAssumption DEF LineInv
  <1> QED
    BY <1>1 DEF S!LineAssumption, Byte, NoBytes

LEMMA SendFrameInv ==
    ASSUME LineInv, S!SendFrame
    PROVE  LineInv' /\ UNCHANGED received
  <1>1. PICK p \in use.payloads : sent' = Append(sent, p) /\ unsent' = S!Escaping(p)
    BY DEF S!SendFrame
  <1>2. /\ line = <<>> /\ data = <<>> /\ UNCHANGED <<use, line, gone, reading, data, received>>
    BY DEF S!SendFrame, S!readvars
  <1>3. p \in Seq(Byte)
    BY LineUse
  <1> DEFINE e == S!Escaping(p)
  <1>4. e \in Seq(Byte) /\ Len(e) \in Nat
    BY <1>3, FrameShape
  <1>5. sent' \in Seq(Seq(Byte)) /\ sent' # <<>> /\ S!Last(sent') = p
    BY <1>1, <1>3, LastIs DEF LineInv
  <1>6. Adjacent(<<>>, <<>>, e, e)
    <2> HIDE DEF e
    <2>1. Len(<<>>) = 0 /\ 0 + Len(e) <= Len(e) /\ 0 + 0 + 0 = 0 /\ 0 + 0 = 0
      BY <1>4
    <2>2. \A k \in 1 .. Len(e) : 0 + k = k
      BY <1>4
    <2>3. PieceOf(e, e, 0)
      BY <2>1, <2>2 DEF PieceOf
    <2>4. PieceOf(<<>>, e, 0)
      BY <1>4, PieceEmpty
    <2> QED
      BY <2>1, <2>3, <2>4 DEF Adjacent
  <1>7. Adjacent(data', line', unsent', S!Escaping(S!Last(sent')))
    BY <1>1, <1>2, <1>5, <1>6
  <1>8. unsent' \in Seq(Byte)
    BY <1>1, <1>4
  <1>9. S!SerialTypeOK'
    BY <1>2 DEF LineInv, S!SerialTypeOK
  <1> QED
    BY <1>2, <1>5, <1>7, <1>8, <1>9 DEF LineInv

\* What the last frame consists of, and the adjacent parts of it
LEMMA LastFrame ==
    ASSUME LineInv, sent # <<>>
    PROVE  /\ S!Last(sent) \in Seq(Byte) /\ S!Escaping(S!Last(sent)) \in Seq(Byte)
           /\ Adjacent(data, line, unsent, S!Escaping(S!Last(sent)))
  <1>1. S!Last(sent) \in Seq(Byte)
    BY LastIs DEF LineInv
  <1> QED
    BY <1>1, FrameShape DEF LineInv

LEMMA WriteInv ==
    ASSUME LineInv, NEW n \in 1 .. Len(unsent), S!Write(n)
    PROVE  LineInv' /\ UNCHANGED received
  <1> DEFINE e == S!Escaping(S!Last(sent))
             l == line \o SubSeq(unsent, 1, n)
             r == SubSeq(unsent, n + 1, Len(unsent))
  <1>1. line' = l /\ (unsent' = r \/ unsent' = <<>>)
    BY DEF S!Write
  <1>2. UNCHANGED <<use, sent, gone, reading, data, received>>
    BY DEF S!Write, S!readvars
  <1>3. sent # <<>>
    BY DEF LineInv
  <1>4. e \in Seq(Byte) /\ Adjacent(data, line, unsent, e)
    BY <1>3, LastFrame
  <1>5. data \in Seq(Byte) /\ line \in Seq(Byte) /\ unsent \in Seq(Byte)
    BY DEF LineInv
  <1> HIDE DEF e
  <1>6. n \in 0 .. Len(unsent)
    OBVIOUS
  <1>7. Adjacent(data, l, r, e)
    BY <1>4, <1>5, <1>6, AdjacentAfter
  <1>8. l \in Seq(Byte) /\ r \in Seq(Byte) /\ <<>> \in Seq(Byte)
    <2>1. PICK a \in Nat : PieceOf(unsent, e, a)
      <3>1. Len(data) \in Nat /\ Len(line) \in Nat
        BY <1>5
      <3> QED
        BY <1>4, <3>1 DEF Adjacent
    <2>2. SubSeq(unsent, 1, n) \in Seq(Byte) /\ r \in Seq(Byte)
      BY <1>4, <1>5, <1>6, <2>1, PieceParts
    <2> QED
      BY <1>5, <2>2, ConcatProperties, EmptySeq
  <1> HIDE DEF l, r
  <1>9. Adjacent(data, l, <<>>, e)
    BY <1>4, <1>5, <1>7, <1>8, AdjacentAfter
  <1>10. Adjacent(data', line', unsent', S!Escaping(S!Last(sent')))
    BY <1>1, <1>2, <1>7, <1>9 DEF e
  <1>11. line' \in Seq(Byte) /\ unsent' \in Seq(Byte)
    BY <1>1, <1>8
  <1>12. S!SerialTypeOK'
    BY <1>2 DEF LineInv, S!SerialTypeOK
  <1> QED
    BY <1>2, <1>3, <1>10, <1>11, <1>12 DEF LineInv

LEMMA CleanInv ==
    ASSUME LineInv, S!InClean
    PROVE  LineInv' /\ UNCHANGED received
  <1>1. line' = <<>> /\ reading = "no" /\ UNCHANGED <<use, sent, unsent, gone, reading, data, received>>
    BY DEF S!InClean, S!readvars
  <1>2. data = <<>> /\ <<>> \in Seq(Byte)
    BY <1>1, EmptySeq DEF LineInv, S!SerialTypeOK
  <1>3. sent # <<>> => Adjacent(data, <<>>, unsent, S!Escaping(S!Last(sent)))
    BY <1>2, LastFrame, AdjacentAfter DEF LineInv
  <1>4. S!SerialTypeOK'
    BY <1>1 DEF LineInv, S!SerialTypeOK
  <1> QED
    BY <1>1, <1>2, <1>3, <1>4 DEF LineInv

LEMMA ReadBeginInv ==
    ASSUME LineInv, S!ReadBegin
    PROVE  LineInv' /\ UNCHANGED received
  <1>1. /\ reading = "no" /\ reading' = "poll" /\ data' = <<>>
        /\ UNCHANGED <<use, sent, unsent, line, gone, received>>
    BY DEF S!ReadBegin, S!linevars
  <1>2. data = <<>>
    BY <1>1 DEF LineInv, S!SerialTypeOK
  <1> QED
    BY <1>1, <1>2 DEF LineInv, S!SerialTypeOK

LEMMA PollReadyInv ==
    ASSUME LineInv, S!PollReady
    PROVE  LineInv' /\ UNCHANGED received
  <1>1. reading' = "read" /\ UNCHANGED <<use, sent, unsent, line, gone, data, received>>
    BY DEF S!PollReady, S!linevars
  <1> QED
    BY <1>1 DEF LineInv, S!SerialTypeOK

LEMMA ReadInv ==
    ASSUME LineInv, S!Read
    PROVE  LineInv' /\ UNCHANGED received
  <1> DEFINE n == S!Min({Len(line), use.size - Len(data)})
             e == S!Escaping(S!Last(sent))
             b == data \o SubSeq(line, 1, n)
             r == SubSeq(line, n + 1, Len(line))
  <1>1. /\ data' = b /\ line' = r /\ reading' = "poll"
        /\ UNCHANGED <<use, sent, unsent, gone, received>>
    BY DEF S!Read
  <1>2. data \in Seq(Byte) /\ line \in Seq(Byte) /\ unsent \in Seq(Byte)
    BY DEF LineInv
  <1>3. Len(line) \in Nat /\ Len(data) \in Nat /\ use.size \in Nat /\ Len(data) <= use.size
    BY <1>2, LineUse DEF LineInv, S!SerialTypeOK
  <1>4. n \in 0 .. Len(line) /\ n <= use.size - Len(data)
    <2> DEFINE x == Len(line)
               y == use.size - Len(data)
    <2>1. x \in Nat /\ y \in Nat
      BY <1>3
    <2> HIDE DEF x, y
    <2>2. \E m \in {x, y} : \A k \in {x, y} : m <= k
      BY <2>1
    <2>3. S!Min({x, y}) \in {x, y} /\ \A k \in {x, y} : S!Min({x, y}) <= k
      BY <2>2, Zenon DEF S!Min
    <2>4. S!Min({x, y}) \in 0 .. x /\ S!Min({x, y}) <= y
      BY <2>1, <2>3
    <2> QED
      BY <2>4 DEF x, y
  <1> HIDE DEF n
  <1>5. SubSeq(line, 1, n) \in Seq(Byte) /\ Len(SubSeq(line, 1, n)) = n /\ r \in Seq(Byte)
    <2>1. \A k \in 1 .. n : line[k] \in Byte
      BY <1>2, <1>3, <1>4
    <2>2. \A k \in n + 1 .. Len(line) : line[k] \in Byte
      BY <1>2, <1>3, <1>4
    <2>3. SubSeq(line, 1, n) \in Seq(Byte) /\ Len(SubSeq(line, 1, n)) = IF 1 <= n THEN n - 1 + 1 ELSE 0
      BY <1>3, <1>4, <2>1, SubSeqProperties
    <2>4. r \in Seq(Byte)
      BY <1>3, <1>4, <2>2, SubSeqProperties
    <2> QED
      BY <1>4, <2>3, <2>4
  <1>6. b \in Seq(Byte) /\ Len(b) = Len(data) + n
    BY <1>2, <1>5, ConcatProperties
  <1>7. sent # <<>> => Adjacent(b, r, unsent, e)
    BY <1>2, <1>4, LastFrame, AdjacentAfter
  <1>8. sent = <<>> => b = <<>> /\ r = <<>>
    <2>1. sent = <<>> => n = 0 /\ Len(b) = 0 /\ Len(line) = 0 /\ line = <<>>
      <3>1. sent = <<>> => data = <<>> /\ line = <<>> /\ Len(line) = 0 /\ Len(data) = 0
        BY DEF LineInv
      <3> QED
        BY <1>4, <1>6, <3>1
    <2>2. sent = <<>> => Len(r) = 0
      <3>1. sent = <<>> => r = SubSeq(line, 1, 0)
        BY <2>1
      <3> QED
        BY <2>1, <3>1, SubSeqEmpty
    <2> QED
      BY <1>5, <1>6, <2>1, <2>2, EmptySeq
  <1>9. Len(b) <= use.size
    BY <1>3, <1>4, <1>6
  <1> HIDE DEF b, r
  <1> QED
    BY <1>1, <1>5, <1>6, <1>7, <1>8, <1>9 DEF LineInv, S!SerialTypeOK

\* What a read that returns gives
LEMMA UartReturnInv ==
    ASSUME LineInv, NEW bytes \in {data, <<>>}, S!Return(bytes)
    PROVE  /\ LineInv'
           /\ LET whole == sent # <<>> /\ bytes = S!Escaping(S!Last(sent))
              IN  /\ received' # received =>
                        whole /\ received' = Append(received, S!Last(sent))
                  /\ whole /\ Len(bytes) <= IndexMod => received' # received
                  /\ reading' = "lost" => whole /\ Len(bytes) > IndexMod
  <1> DEFINE p == IF bytes = <<>> THEN NoPayload ELSE S!Recovery(bytes)
             e == S!Escaping(S!Last(sent))
             whole == sent # <<>> /\ bytes = e
             long == Len(bytes) > IndexMod
  <1>1. /\ reading' = (IF p = Endless THEN "lost" ELSE "no") /\ data' = <<>>
        /\ received' = IF p \in {NoPayload, Endless} THEN received ELSE Append(received, p)
        /\ UNCHANGED <<use, sent, unsent, line, gone>>
    BY DEF S!Return, S!linevars
  <1>2. NoBytes /\ NoPayload \notin Seq(Byte) /\ Endless \notin Seq(Byte) /\ Endless # NoPayload
    BY LineUse, BytesAreNumbers DEF NoBytes
  <1>3. received \in Seq(Seq(Byte)) /\ data \in Seq(Byte) /\ line \in Seq(Byte) /\ unsent \in Seq(Byte)
    BY DEF LineInv
  <1>4. sent = <<>> => bytes = <<>>
    BY DEF LineInv
  <1>5. ASSUME sent # <<>>, bytes # <<>>
        PROVE  /\ S!Last(sent) \in Seq(Byte) /\ (p = NoPayload \/ bytes = e)
               /\ bytes = e => p = IF long THEN Endless ELSE S!Last(sent)
    <2>1. bytes = data
      BY <1>5
    <2>2. S!Last(sent) \in Seq(Byte) /\ Adjacent(data, line, unsent, e)
      BY <1>5, LastFrame
    <2>3. PICK a \in Nat : PieceOf(data, e, a)
      BY <2>2 DEF Adjacent
    <2>4. S!Recovery(data) = NoPayload \/ data = e
      BY <1>2, <1>3, <1>5, <2>1, <2>2, <2>3, WholeOnly
    <2>5. data = e => S!Recovery(data) = IF Len(e) > IndexMod THEN Endless ELSE S!Last(sent)
      BY <1>2, <2>2, RecoveryOfEscaping
    <2> QED
      BY <1>5, <2>1, <2>2, <2>4, <2>5
  <1>6. whole => bytes # <<>> /\ S!Last(sent) \in Seq(Byte)
    <2>1. sent # <<>> => S!Last(sent) \in Seq(Byte) /\ Len(e) >= 2
      BY LastFrame, FrameShape
    <2>2. ~(Len(<<>>) >= 2)
      OBVIOUS
    <2> QED
      BY <2>1, <2>2
  <1> HIDE DEF p, e, long
  <1>7. whole => IF long THEN p = Endless ELSE p = S!Last(sent) /\ p \notin {NoPayload, Endless}
    BY <1>2, <1>5, <1>6
  <1>8. p # NoPayload => whole
    BY <1>4, <1>5 DEF p
  <1>9. ASSUME p \notin {NoPayload, Endless}
        PROVE  whole /\ received' = Append(received, S!Last(sent)) /\ received' # received
               /\ received' \in Seq(Seq(Byte))
    <2>1. whole /\ p = S!Last(sent) /\ S!Last(sent) \in Seq(Byte)
      BY <1>6, <1>7, <1>8, <1>9
    <2>2. received' = Append(received, S!Last(sent))
      BY <1>1, <1>9, <2>1
    <2> QED
      BY <1>3, <2>1, <2>2, LastIs
  <1>14. p = Endless => whole /\ long
    BY <1>2, <1>7, <1>8
  <1>10. received' \in Seq(Seq(Byte))
    BY <1>1, <1>3, <1>9
  <1>11. sent # <<>> => Adjacent(<<>>, line, unsent, S!Escaping(S!Last(sent)))
    BY <1>3, LastFrame, AdjacentAfter
  <1>12. S!SerialTypeOK'
    <2>1. use.size \in Nat
      BY LineUse
    <2> QED
      BY <1>1, <2>1 DEF S!SerialTypeOK
  <1>13. LineInv'
    BY <1>1, <1>10, <1>11, <1>12, EmptySeq DEF LineInv
  <1>15. long <=> ~(Len(bytes) <= IndexMod)
    <2>1. bytes \in Seq(Byte) /\ IndexMod \in Nat
      BY <1>2, <1>3, EmptySeq DEF NoBytes
    <2>2. Len(bytes) \in Nat
      BY <2>1
    <2> QED
      BY <2>1, <2>2 DEF long
  <1>16. p = Endless <=> reading' = "lost"
    BY <1>1
  <1> QED
    BY <1>1, <1>7, <1>9, <1>13, <1>14, <1>15, <1>16 DEF e, long

LEMMA LineInvInit == S!SerialInit => LineInv
  <1> SUFFICES ASSUME S!SerialInit PROVE LineInv
    OBVIOUS
  <1>1. /\ use \in Uses /\ sent = <<>> /\ unsent = <<>> /\ line = <<>>
        /\ reading = "no" /\ data = <<>> /\ received = <<>>
    BY DEF S!SerialInit
  <1>2. S!LineAssumption
    BY DevicesAssumption
  <1>3. use.size \in Nat
    BY <1>1, <1>2 DEF S!LineAssumption
  <1>4. S!SerialTypeOK
    BY <1>1, <1>3 DEF S!SerialTypeOK
  <1> QED
    BY <1>1, <1>4, EmptySeq DEF LineInv

\* What a step of the line recovers
RecoversTheLast ==
    LET whole == sent # <<>> /\ data = S!Escaping(S!Last(sent))
    IN  /\ received' # received =>
            whole /\ received' = Append(received, S!Last(sent))
        /\ whole /\ Len(data) <= IndexMod /\ (S!ReadFull \/ S!PollTimeout) =>
            received' # received
        /\ reading' = "lost" /\ reading # "lost" => whole /\ Len(data) > IndexMod

LEMMA LineInvNext ==
    ASSUME LineInv, [S!SerialNext]_(S!serialvars)
    PROVE  LineInv' /\ (~UNCHANGED S!serialvars => RecoversTheLast)
  <1>1. ASSUME S!SendFrame \/ S!InClean \/ S!ReadBegin \/ S!PollReady \/ S!Read
               \/ (\E n \in 1 .. Len(unsent) : S!Write(n))
        PROVE  LineInv' /\ UNCHANGED received /\ (reading' = "lost" => reading = "lost")
    <2>1. LineInv' /\ UNCHANGED received
      BY <1>1, SendFrameInv, CleanInv, ReadBeginInv, PollReadyInv, ReadInv, WriteInv
    <2>2. reading' = "lost" => reading = "lost"
      BY <1>1 DEF S!SendFrame, S!InClean, S!ReadBegin, S!PollReady, S!Read, S!Write, S!readvars
    <2> QED
      BY <2>1, <2>2
  <1>2. ASSUME S!GoAway \/ UNCHANGED S!serialvars
        PROVE  LineInv' /\ UNCHANGED received /\ (reading' = "lost" => reading = "lost")
    <2>1. UNCHANGED <<use, sent, unsent, line, reading, data, received>>
      BY <1>2 DEF S!GoAway, S!readvars, S!serialvars
    <2> QED
      BY <2>1 DEF LineInv, S!SerialTypeOK
  <1>3. ASSUME S!ReadFull \/ S!PollTimeout
        PROVE  LineInv' /\ RecoversTheLast
    <2>1. S!Return(data)
      BY <1>3 DEF S!ReadFull, S!PollTimeout
    <2> QED
      BY <2>1, UartReturnInv DEF RecoversTheLast
  <1>4. ASSUME S!Fail
        PROVE  LineInv' /\ UNCHANGED received /\ reading' # "lost"
    <2>1. S!Return(<<>>)
      BY <1>4 DEF S!Fail
    <2>2. UNCHANGED received /\ reading' # "lost"
      <3>1. NoPayload # Endless
        BY LineUse
      <3> QED
        BY <2>1, <3>1 DEF S!Return
    <2>3. LineInv'
      BY <2>1, UartReturnInv
    <2> QED
      BY <2>2, <2>3
  <1>5. ASSUME UNCHANGED received, reading' = "lost" => reading = "lost",
               ~UNCHANGED S!serialvars, ~(S!ReadFull \/ S!PollTimeout)
        PROVE  RecoversTheLast
    BY <1>5, Zenon DEF RecoversTheLast
  <1> QED
    BY <1>1, <1>2, <1>3, <1>4, <1>5 DEF S!SerialNext

LEMMA LineStep ==
  /\ DevicesInit => LineInv
  /\ LineInv /\ [DevicesNext]_devicevars => LineInv'
  <1>1. DevicesInit => LineInv
    BY LineInvInit DEF DevicesInit
  <1>2. ASSUME LineInv, [DevicesNext]_devicevars PROVE LineInv'
    <2>1. S!SerialNext \/ UNCHANGED S!serialvars
      BY <1>2 DEF DevicesNext, devicevars, linevars, S!serialvars
    <2> QED
      BY <1>2, <2>1, LineInvNext
  <1> QED
    BY <1>1, <1>2

\* For payloads of every length and content, buffers of every size, every width of
\* the index and every cut of the line into reads: what the host recovers is what
\* was sent last; a read that returns the whole frame recovers it if the index
\* reaches the end of the frame, else and only then the recovery does not end; and
\* a piece of a frame is refused.
THEOREM OnlyFramesComeBack == DevicesSpec => FramesComeBack
  <1>1. LineInv /\ [DevicesNext]_devicevars => [RecoversTheLast]_(S!serialvars)
    <2> SUFFICES ASSUME LineInv, [DevicesNext]_devicevars, ~UNCHANGED S!serialvars
                 PROVE  RecoversTheLast
      OBVIOUS
    <2>1. S!SerialNext
      BY DEF DevicesNext, devicevars, linevars, S!serialvars
    <2> QED
      BY <2>1, LineInvNext
  <1>2. DevicesSpec => [][RecoversTheLast]_(S!serialvars)
    BY <1>1, LineStep, PTL DEF DevicesSpec
  <1> QED
    BY <1>2, PTL DEF FramesComeBack, S!FramesComeBack, RecoversTheLast

-----------------------------------------------------------------------------
(* The clock of the loop *)

LEMMA ModOfDifference ==
    ASSUME NEW x \in Int, NEW y \in Int, NEW g \in Nat \ {0}
    PROVE  (((x % g) - (y % g)) % g) = ((x - y) % g)
  <1> DEFINE p == x \div g
             q == y \div g
             r == x % g
             s == y % g
             k == g * (p - q)
  <1>1. x = g * p + r /\ p \in Int /\ r \in 0 .. g - 1
    BY ModIs
  <1>2. y = g * q + s /\ q \in Int /\ s \in 0 .. g - 1
    BY ModIs
  <1> HIDE DEF p, q, r, s
  <1>3. k \in Int /\ x - y = k + (r - s) /\ r - s \in Int
    BY <1>1, <1>2
  <1>4. (k % g) = 0
    <2>1. p - q \in Int /\ 0 \in 0 .. g - 1
      BY <1>1, <1>2
    <2>2. ((g * (p - q) + 0) % g) = 0
      BY <2>1, ModOnly
    <2>3. g * (p - q) + 0 = k
      BY <1>3
    <2> QED
      BY <2>2, <2>3
  <1> HIDE DEF k
  <1>5. ((k + (r - s)) % g) = ((r - s) % g)
    BY <1>3, <1>4, ModSum, Zenon
  <1> QED
    BY <1>3, <1>5 DEF r, s

LEMMA ModOfSum ==
    ASSUME NEW x \in Int, NEW y \in Int, NEW g \in Nat \ {0}
    PROVE  (((x % g) + y) % g) = ((x + y) % g)
  <1> DEFINE p == x \div g
             r == x % g
             k == g * p
  <1>1. x = k + r /\ p \in Int /\ r \in 0 .. g - 1
    BY ModIs
  <1>2. k \in Int /\ (k % g) = 0
    <2>1. 0 \in 0 .. g - 1
      OBVIOUS
    <2> HIDE DEF p
    <2>2. ((g * p + 0) % g) = 0
      BY <1>1, <2>1, ModOnly
    <2>3. g * p + 0 = k /\ k \in Int
      BY <1>1
    <2> QED
      BY <2>2, <2>3
  <1> HIDE DEF p, r, k
  <1>3. x + y = k + (r + y) /\ r + y \in Int
    BY <1>1, <1>2
  <1>4. ((k + (r + y)) % g) = ((r + y) % g)
    BY <1>2, <1>3, ModSum, Zenon
  <1> QED
    BY <1>3, <1>4 DEF r

\* The difference of two readings of the clock is the time between them, when
\* that is less than a turn.
LEMMA ClockDifference ==
    ASSUME NEW g \in Nat \ {0}, NEW boot \in Int, NEW t \in Int, NEW m \in Int,
           t - m \in 0 .. g - 1
    PROVE  ((((boot + t) % g) - ((boot + m) % g)) % g) = t - m
  <1>1. boot + t \in Int /\ boot + m \in Int /\ (boot + t) - (boot + m) = t - m
    OBVIOUS
  <1>2. ((((boot + t) % g) - ((boot + m) % g)) % g) = (((boot + t) - (boot + m)) % g)
    BY <1>1, ModOfDifference, Zenon
  <1>3. ((t - m) % g) = t - m
    BY SmallMod
  <1> QED
    BY <1>1, <1>2, <1>3

LEMMA PeriodIs ==
    ASSUME NEW a \in Nat \ {0}, NEW k \in Int, NEW r \in 0 .. a - 1
    PROVE  ((k * a + r) \div a) = k
  BY SMT

LEMMA PeriodOf ==
    ASSUME NEW a \in Nat \ {0}, NEW k \in Int, NEW d \in Nat
    PROVE  /\ ((k * a + d) \div a) = k + (d \div a)
           /\ (d \div a) \in Nat /\ d - (d \div a) * a \in 0 .. a - 1
           /\ (d >= a <=> (d \div a) >= 1)
  <1> DEFINE q == d \div a
             r == d % a
  <1>1. d = a * q + r /\ q \in Int /\ r \in 0 .. a - 1
    BY ModIs
  <1>2. q \in Nat
    BY DivMod
  <1> HIDE DEF q, r
  <1>3. k * a + d = (k + q) * a + r /\ k + q \in Int
    BY <1>1
  <1>4. (((k + q) * a + r) \div a) = k + q
    BY <1>1, <1>3, PeriodIs
  <1>5. d - q * a = r
    BY <1>1
  <1>6. q >= 1 => a * q >= a
    BY <1>2, TimesMonotone
  <1>7. d >= a <=> q >= 1
    <2>1. CASE q >= 1
      BY <1>1, <1>6, <2>1
    <2>2. CASE q = 0
      BY <1>1, <2>2
    <2> QED
      BY <1>2, <2>1, <2>2
  <1> QED
    BY <1>1, <1>2, <1>3, <1>4, <1>5, <1>7 DEF q

-----------------------------------------------------------------------------
(* The tools of the loop *)

LoopTypes ==
    /\ tool \in Tools /\ time \in Nat
    /\ timer = [sta |-> timer.sta, start_time |-> timer.start_time, time_out |-> tool.a]
    /\ timer.start_time \in 0 .. Tick - 1
    /\ due \in Int \cup {Never} /\ mark \in 0 .. Tick - 1
    /\ origin \in Int \cup {Never}
    /\ called \in Int \cup {Never} /\ (called # Never => called <= time)
    /\ polled \in Int \cup {Never}
    /\ polled # Never => polled <= time /\ time - polled <= Tick - tool.a
    /\ bounce.last_state \in -1 .. 1 /\ bounce.last_last_state \in 0 .. 1 /\ shown \in 0 .. 1

\* A timer that runs started a timeout before it is due.
TimerInv ==
    /\ due # Never <=> timer.sta = "WORK"
    /\ due # Never => /\ timer.start_time = (tool.boot + (due - tool.a)) % Tick
                      /\ due - tool.a <= time

\* The mark is where the period began that the last poll fell into, counted
\* from the origin, and the call in that period is done; before the origin there
\* was none.
MarkIs(k, start) ==
    /\ k \in Int /\ k >= -1 /\ start = origin + k * tool.a
    /\ mark = (tool.boot + start) % Tick
    /\ start <= polled /\ polled < start + tool.a
    /\ k = -1 => called = Never \/ called < origin
    /\ k >= 0 => called # Never /\ start <= called /\ called < start + tool.a

PeriodInv ==
    mark # 0 =>
      /\ tool.use = "call" /\ tool.a > 0 /\ polled # Never /\ origin \in Int
      /\ \E k, start \in Int : MarkIs(k, start)

\* last_time is when the samples became what they are; if that is long ago, the
\* value has followed.
SteadyFrom(f) ==
    /\ f \in 1 .. Len(samples)
    /\ \A j \in f .. Len(samples) : samples[j][2] = bounce.last_state
    /\ f = 1 \/ samples[f - 1][2] # bounce.last_state
    /\ bounce.last_time = (tool.boot + samples[f][1]) % Tick /\ samples[f][1] <= polled
    /\ polled - samples[f][1] > tool.a => bounce.last_last_state = bounce.last_state

SettleInv ==
    /\ samples \in Seq(Int \X (0 .. 1))
    /\ bounce.last_state # -1 =>
          /\ tool.use = "bounce" /\ tool.a > 0 /\ polled # Never
          /\ bounce.last_call_time = (tool.boot + polled) % Tick
          /\ shown = bounce.last_last_state
          /\ \E f \in Int : SteadyFrom(f)

LoopInv == LoopTypes /\ TimerInv /\ PeriodInv /\ SettleInv

LEMMA ToolIs ==
    ASSUME tool \in Tools
    PROVE  /\ Tick \in Nat \ {0} /\ tool.boot \in Nat /\ tool.a \in Nat /\ tool.a < Tick
           /\ tool.b \in 0 .. tool.a
           /\ (tool.a \div 2) \in Nat /\ tool.a + (tool.a \div 2) < Tick
           /\ Never \notin Int
  <1>1. /\ Tick \in Nat /\ tool.boot \in Nat /\ tool.a \in Nat /\ tool.b \in 0 .. tool.a
        /\ tool.a + (tool.a \div 2) < Tick /\ Never \notin Int
    BY DevicesAssumption DEF T!LoopAssumption
  <1>2. (tool.a \div 2) \in Nat
    <2>1. 2 \in Nat \ {0}
      OBVIOUS
    <2> QED
      BY <1>1, <2>1, DivMod
  <1> HIDE DEF T!LoopAssumption
  <1> QED
    BY <1>1, <1>2

LEMMA ClockIn ==
    ASSUME tool \in Tools, time \in Nat
    PROVE  T!Clock \in 0 .. Tick - 1 /\ T!Clock = (tool.boot + time) % Tick
  <1>1. Tick \in Nat \ {0} /\ tool.boot + time \in Int
    BY ToolIs
  <1> QED
    BY <1>1, ModIs DEF T!Clock

\* A reading of less than a turn ago tells how long ago it was.
LEMMA SinceIs ==
    ASSUME tool \in Tools, time \in Nat, NEW m \in Int, time - m \in 0 .. Tick - 1
    PROVE  T!Since((tool.boot + m) % Tick) = time - m
  <1>1. Tick \in Nat \ {0} /\ tool.boot \in Int /\ time \in Int
    BY ToolIs
  <1>2. ((((tool.boot + time) % Tick) - ((tool.boot + m) % Tick)) % Tick) = time - m
    BY <1>1, ClockDifference
  <1> QED
    BY <1>2 DEF T!Since, T!Clock

LEMMA TimerExact == LoopInv => T!TimerIsExact
  <1> SUFFICES ASSUME LoopInv, due # Never, time < due - tool.a + Tick
               PROVE  T!IsTimeout <=> time >= due
    BY DEF T!TimerIsExact
  <1>1. Tick \in Nat \ {0} /\ tool.a \in Nat /\ time \in Nat /\ due \in Int
    BY ToolIs DEF LoopInv, LoopTypes
  <1>2. due - tool.a \in Int /\ time - (due - tool.a) \in 0 .. Tick - 1
    BY <1>1 DEF LoopInv, TimerInv
  <1>3. T!Since((tool.boot + (due - tool.a)) % Tick) = time - (due - tool.a)
    BY <1>2, SinceIs DEF LoopInv, LoopTypes
  <1>4. T!Since(timer.start_time) = time - (due - tool.a) /\ timer.sta = "WORK"
    BY <1>3 DEF LoopInv, TimerInv
  <1>5. timer.time_out = tool.a
    BY DEF LoopInv, LoopTypes
  <1> QED
    BY <1>1, <1>4, <1>5 DEF T!IsTimeout

LEMMA LoopInvInit == T!LoopInit => LoopInv
  <1> SUFFICES ASSUME T!LoopInit PROVE LoopInv
    OBVIOUS
  <1>1. /\ tool \in Tools /\ time = 0 /\ due = Never /\ mark = 0
        /\ origin = Never /\ polled = Never /\ called = Never
        /\ bounce.last_state = -1 /\ bounce.last_last_state = 0 /\ shown = 0 /\ samples = <<>>
        /\ timer = [sta |-> "IDIE", start_time |-> 0, time_out |-> tool.a]
    BY DEF T!LoopInit
  <1>2. Tick \in Nat \ {0}
    BY <1>1, ToolIs
  <1>3. 0 \in 0 .. Tick - 1
    BY <1>2
  <1>4. LoopTypes
    BY <1>1, <1>3 DEF LoopTypes
  <1>5. TimerInv
    BY <1>1 DEF TimerInv
  <1>6. PeriodInv
    BY <1>1 DEF PeriodInv
  <1>7. SettleInv
    BY <1>1, EmptySeq DEF SettleInv
  <1> QED
    BY <1>4, <1>5, <1>6, <1>7 DEF LoopInv

LEMMA PassStep ==
    ASSUME LoopInv, T!Pass
    PROVE  LoopInv' /\ UNCHANGED samples
  <1>1. /\ time' = time + 1 /\ (polled # Never => time - polled < Tick - tool.a)
        /\ UNCHANGED <<tool, polled, timer, due, mark, origin, called, bounce, samples, shown>>
    BY DEF T!Pass, T!timervars, T!callvars, T!bouncevars
  <1>2. Tick \in Nat /\ tool.a \in Nat /\ Never \notin Int /\ time \in Nat
    BY ToolIs DEF LoopInv, LoopTypes
  <1>3. LoopTypes'
    <2>1. polled # Never => polled \in Int /\ polled <= time' /\ time' - polled <= Tick - tool.a
      BY <1>1, <1>2 DEF LoopInv, LoopTypes
    <2>2. called # Never => called \in Int /\ called <= time'
      BY <1>1, <1>2 DEF LoopInv, LoopTypes
    <2>3. time' \in Nat
      BY <1>1, <1>2
    <2> QED
      BY <1>1, <2>1, <2>2, <2>3 DEF LoopInv, LoopTypes
  <1>4. TimerInv'
    <2>1. due # Never => due \in Int /\ due - tool.a <= time'
      BY <1>1, <1>2 DEF LoopInv, LoopTypes, TimerInv
    <2> QED
      BY <1>1, <2>1 DEF LoopInv, TimerInv
  <1>5. PeriodInv'
    BY <1>1 DEF LoopInv, PeriodInv, MarkIs
  <1>6. SettleInv'
    BY <1>1 DEF LoopInv, SettleInv, SteadyFrom
  <1> QED
    BY <1>1, <1>3, <1>4, <1>5, <1>6 DEF LoopInv

LEMMA TimerStep ==
    ASSUME LoopInv, T!Config \/ T!Reset \/ T!Stop \/ T!ForceTimeout
    PROVE  LoopInv' /\ UNCHANGED samples
  <1>1. UNCHANGED <<tool, time, polled, mark, origin, called, bounce, samples, shown>>
    BY DEF T!Config, T!Reset, T!Stop, T!ForceTimeout, T!Using, T!callvars, T!bouncevars
  <1>2. /\ Tick \in Nat \ {0} /\ tool.a \in Nat /\ tool.boot \in Nat /\ Never \notin Int
        /\ time \in Nat /\ tool \in Tools
    BY ToolIs DEF LoopInv, LoopTypes
  <1>3. timer = [sta |-> timer.sta, start_time |-> timer.start_time, time_out |-> tool.a]
    BY DEF LoopInv, LoopTypes
  <1>4. timer.start_time \in 0 .. Tick - 1 /\ 0 \in 0 .. Tick - 1 /\ timer.time_out = tool.a
    BY <1>2, <1>3 DEF LoopInv, LoopTypes
  <1>5. \/ due' = Never /\ timer'.sta = "IDIE" /\ timer'.start_time \in 0 .. Tick - 1
           /\ timer' = [sta |-> timer'.sta, start_time |-> timer'.start_time, time_out |-> tool.a]
        \/ /\ due' \in Int /\ timer'.sta = "WORK" /\ due' - tool.a <= time
           /\ timer'.start_time = (tool.boot + (due' - tool.a)) % Tick
           /\ timer' = [sta |-> timer'.sta, start_time |-> timer'.start_time, time_out |-> tool.a]
    <2>1. CASE T!Config
      BY <1>4, <2>1 DEF T!Config
    <2>2. CASE T!Stop
      <3>1. timer' = [sta |-> "IDIE", start_time |-> timer.start_time, time_out |-> tool.a] /\ due' = Never
        BY <1>3, <2>2 DEF T!Stop
      <3> QED
        BY <1>4, <3>1
    <2>3. CASE T!Reset
      <3>1. timer' = [sta |-> "WORK", start_time |-> T!Clock, time_out |-> tool.a]
            /\ due' = time + tool.a
        BY <1>3, <1>4, <2>3 DEF T!Reset
      <3>2. due' - tool.a = time /\ due' \in Int
        BY <1>2, <3>1
      <3>3. T!Clock = (tool.boot + (due' - tool.a)) % Tick
        BY <1>2, <3>2, ClockIn
      <3>4. due' - tool.a <= time
        BY <1>2, <3>2
      <3> QED
        BY <3>1, <3>2, <3>3, <3>4
    <2>4. CASE T!ForceTimeout
      <3>1. /\ timer' = [sta |-> "WORK", start_time |-> (T!Clock - tool.a) % Tick, time_out |-> tool.a]
            /\ due' = time
        BY <1>3, <1>4, <2>4 DEF T!ForceTimeout
      <3>2. tool.boot + time \in Int /\ -tool.a \in Int
        BY <1>2
      <3>3. ((((tool.boot + time) % Tick) + (-tool.a)) % Tick) = (((tool.boot + time) + (-tool.a)) % Tick)
        BY <1>2, <3>2, ModOfSum, Zenon
      <3>4. T!Clock \in Int /\ T!Clock + (-tool.a) = T!Clock - tool.a
            /\ (tool.boot + time) + (-tool.a) = tool.boot + (time - tool.a)
        <4>1. T!Clock \in 0 .. Tick - 1
          BY <1>2, ClockIn
        <4> HIDE DEF T!Clock
        <4>2. T!Clock \in Int
          BY <1>2, <4>1
        <4> QED
          BY <1>2, <4>2
      <3>5. ((T!Clock - tool.a) % Tick) = ((tool.boot + (time - tool.a)) % Tick)
        BY <1>2, <3>3, <3>4, ClockIn
      <3>6. time - tool.a <= time /\ time \in Int
        BY <1>2
      <3> QED
        BY <3>1, <3>5, <3>6
    <2> QED
      BY <2>1, <2>2, <2>3, <2>4
  <1>6. timer'.start_time \in 0 .. Tick - 1
    <2>1. \A d \in Int : ((tool.boot + (d - tool.a)) % Tick) \in 0 .. Tick - 1
      <3> SUFFICES ASSUME NEW d \in Int
                   PROVE  ((tool.boot + (d - tool.a)) % Tick) \in 0 .. Tick - 1
        OBVIOUS
      <3>1. tool.boot + (d - tool.a) \in Int
        BY <1>2
      <3> QED
        BY <1>2, <3>1, ModIs
    <2> QED
      BY <1>5, <2>1
  <1>7. LoopTypes'
    BY <1>1, <1>5, <1>6 DEF LoopInv, LoopTypes
  <1>8. TimerInv'
    BY <1>1, <1>2, <1>5 DEF TimerInv
  <1>9. PeriodInv'
    BY <1>1 DEF LoopInv, PeriodInv, MarkIs
  <1>10. SettleInv'
    BY <1>1 DEF LoopInv, SettleInv, SteadyFrom
  <1> QED
    BY <1>1, <1>7, <1>8, <1>9, <1>10 DEF LoopInv

\* The first call of LOOPPOOL_PHASE_CALL_MS, and the first after an accident
LEMMA FirstCall ==
    ASSUME LoopInv, T!PhaseCall, mark = 0
    PROVE  /\ origin' \in Int /\ mark' \in 0 .. Tick - 1
           /\ called' \in {called, time}
           /\ \E k, start \in Int : MarkIs(k, start)'
  <1> DEFINE a == tool.a
             b == tool.b
             boot == tool.boot
             from == (T!Clock - a + b) % Tick
             diff == (T!Clock - from) % Tick
             s == time - (a - b)
  <1>1. /\ mark' = IF diff >= a THEN (from + (diff \div a) * a) % Tick ELSE from
        /\ called' = IF diff >= a THEN time ELSE called
        /\ polled' = time /\ origin' = time + b /\ UNCHANGED <<tool, time>> /\ a > 0
    BY DEF T!PhaseCall, T!Using
  <1>2. /\ Tick \in Nat \ {0} /\ boot \in Nat /\ a \in Nat /\ a < Tick /\ b \in 0 .. a
        /\ Never \notin Int /\ time \in Nat /\ tool \in Tools
    BY ToolIs DEF LoopInv, LoopTypes
  <1>3. T!Clock \in Int /\ T!Clock = (boot + time) % Tick
    <2>1. T!Clock \in 0 .. Tick - 1 /\ T!Clock = (boot + time) % Tick
      BY <1>2, ClockIn
    <2> QED
      BY <1>2, <2>1
  <1>4. from = (boot + s) % Tick
    <2>1. boot + time \in Int /\ b - a \in Int
      BY <1>2
    <2>2. ((((boot + time) % Tick) + (b - a)) % Tick) = (((boot + time) + (b - a)) % Tick)
      BY <1>2, <2>1, ModOfSum, Zenon
    <2>3. T!Clock + (b - a) = T!Clock - a + b /\ (boot + time) + (b - a) = boot + s
      BY <1>2, <1>3
    <2> QED
      BY <1>3, <2>2, <2>3
  <1>5. diff = a - b
    <2>1. s \in Int /\ time - s = a - b /\ time - s \in 0 .. Tick - 1
      BY <1>2
    <2> HIDE DEF s
    <2>2. T!Since((boot + s) % Tick) = a - b
      BY <1>2, <2>1, SinceIs
    <2> QED
      BY <1>4, <2>2 DEF T!Since
  <1>6. s \in Int /\ boot + s \in Int
    BY <1>2
  <1>7. from \in 0 .. Tick - 1
    <2> HIDE DEF s
    <2> QED
      BY <1>2, <1>4, <1>6, ModIs
  <1> HIDE DEF from, diff
  <1>8. CASE b = 0
    <2>1. diff = a /\ a \in Nat \ {0} /\ 0 \in 0 .. a - 1 /\ 1 \in Int /\ 1 * a + 0 = a
      <3>1. a \in Nat /\ a > 0 /\ diff = a - 0
        BY <1>1, <1>2, <1>5, <1>8
      <3> HIDE DEF a
      <3> QED
        BY <3>1
    <2>2. (diff \div a) = 1
      <3>1. ((1 * a + 0) \div a) = 1
        BY <2>1, PeriodIs
      <3> QED
        BY <2>1, <3>1
    <2>3. mark' = (from + a) % Tick /\ called' = time
      <3>1. diff >= a /\ (diff \div a) * a = a
        BY <2>1, <2>2
      <3> QED
        BY <1>1, <3>1
    <2>4. mark' = (boot + time) % Tick
      <3>1. ((((boot + s) % Tick) + a) % Tick) = (((boot + s) + a) % Tick)
        <4> DEFINE x == boot + s
        <4>1. x \in Int /\ a \in Int /\ Tick \in Nat \ {0}
          BY <1>2, <1>6
        <4> HIDE DEF x, a
        <4>2. (((x % Tick) + a) % Tick) = ((x + a) % Tick)
          BY <4>1, ModOfSum
        <4> QED
          BY <4>2 DEF x, a
      <3>2. (boot + s) + a = boot + time
        BY <1>2, <1>8
      <3> QED
        BY <1>4, <2>3, <3>1, <3>2
    <2>5. origin' = time /\ time = origin' + 0 * tool'.a /\ time \in Int /\ 0 \in Int
      BY <1>1, <1>2, <1>8
    <2>6. MarkIs(0, time)'
      <3>1. mark' = (tool'.boot + time') % Tick
        BY <1>1, <2>4
      <3>2. called' # Never /\ time' <= called' /\ called' < time' + tool'.a
            /\ time' <= polled' /\ polled' < time' + tool'.a
        BY <1>1, <1>2, <2>3
      <3>3. time' = origin' + 0 * tool'.a
        BY <1>1, <2>5
      <3> QED
        BY <3>1, <3>2, <3>3 DEF MarkIs
    <2>7. time' = time
      BY <1>1
    <2>8. mark' \in 0 .. Tick - 1
      <3>1. boot + time \in Int
        BY <1>2
      <3> QED
        BY <1>2, <2>4, <3>1, ModIs
    <2>9. \E k, start \in Int : MarkIs(k, start)'
      BY <2>5, <2>6, <2>7
    <2> QED
      BY <2>3, <2>5, <2>8, <2>9
  <1>9. CASE b # 0
    <2>1. mark' = from /\ called' = called
      <3>1. ~(diff >= a)
        BY <1>2, <1>5, <1>9
      <3> QED
        BY <1>1, <3>1
    <2>2. origin' \in Int /\ s = origin' + (-1) * tool'.a
      BY <1>1, <1>2
    <2>3. MarkIs(-1, s)'
      <3> DEFINE ss == s
      <3>1. ss \in Int /\ ss = origin' + (-1) * tool'.a /\ mark' = (tool'.boot + ss) % Tick
        BY <1>1, <1>4, <1>6, <2>1, <2>2
      <3>2. ss <= polled' /\ polled' < ss + tool'.a
        BY <1>1, <1>2, <1>9
      <3>3. called' = Never \/ called' < origin'
        BY <1>1, <1>2, <1>9, <2>1 DEF LoopInv, LoopTypes
      <3>4. ss' = ss
        BY <1>1
      <3>5. -1 \in Int /\ -1 >= -1 /\ ~(-1 >= 0) /\ (-1)' = -1
        OBVIOUS
      <3> HIDE DEF ss
      <3>6. MarkIs(-1, ss)'
        BY <3>1, <3>2, <3>3, <3>4, <3>5 DEF MarkIs
      <3> QED
        BY <3>6 DEF ss
    <2>4. \E k, start \in Int : MarkIs(k, start)'
      <3>1. s' = s
        BY <1>1
      <3> HIDE DEF s
      <3>2. MarkIs(-1, s)'
        BY <2>3 DEF s
      <3> QED
        BY <1>6, <3>1, <3>2
    <2> QED
      BY <1>7, <2>1, <2>2, <2>4
  <1> QED
    BY <1>8, <1>9

\* A call after the first: how the mark moves, and which period it is in
LEMMA LaterCall ==
    ASSUME LoopInv, T!PhaseCall, mark # 0
    PROVE  /\ origin' \in Int /\ mark' \in 0 .. Tick - 1
           /\ called' \in {called, time}
           /\ \E k, start \in Int : MarkIs(k, start)'
           /\ T!CallInTime
  <1> DEFINE a == tool.a
             boot == tool.boot
             from == IF mark = 0 THEN (T!Clock - a + tool.b) % Tick ELSE mark
             diff == (T!Clock - from) % Tick
             period(t) == (t - origin) \div a
  <1>1. /\ mark' = IF diff >= a THEN (from + (diff \div a) * a) % Tick ELSE from
        /\ called' = IF diff >= a THEN time ELSE called
        /\ polled' = time /\ origin' = IF mark = 0 THEN time + tool.b ELSE origin
        /\ UNCHANGED <<tool, time>> /\ a > 0
    BY DEF T!PhaseCall, T!Using
  <1>2. /\ Tick \in Nat \ {0} /\ boot \in Nat /\ a \in Nat /\ a < Tick
        /\ Never \notin Int /\ time \in Nat /\ tool \in Tools /\ mark \in 0 .. Tick - 1
        /\ polled \in Int /\ polled <= time /\ time - polled <= Tick - a /\ origin \in Int
    BY ToolIs DEF LoopInv, LoopTypes, PeriodInv
  <1>3. PICK k \in Int, start \in Int : MarkIs(k, start)
    BY DEF LoopInv, PeriodInv
  <1>4. /\ k >= -1 /\ start = origin + k * a /\ mark = (boot + start) % Tick
        /\ start <= polled /\ polled < start + a
        /\ k = -1 => called = Never \/ called < origin
        /\ k >= 0 => called # Never /\ start <= called /\ called < start + a
    BY <1>3 DEF MarkIs
  <1>5. from = mark
    OBVIOUS
  <1> DEFINE d == time - start
             q == d \div a
  <1>6. d \in 0 .. Tick - 1 /\ d \in Nat /\ start \in Int
    BY <1>2, <1>4
  <1>7. diff = d
    <2> HIDE DEF d
    <2>1. time - start \in 0 .. Tick - 1
      BY <1>6 DEF d
    <2>2. T!Since((boot + start) % Tick) = time - start
      BY <1>2, <1>6, <2>1, SinceIs
    <2> QED
      BY <1>4, <1>5, <2>2 DEF T!Since, d
  <1> HIDE DEF from, diff
  <1>8. /\ mark' = IF d >= a THEN (mark + q * a) % Tick ELSE mark
        /\ called' = IF d >= a THEN time ELSE called
        /\ polled' = time /\ UNCHANGED <<tool, time, origin>>
    BY <1>1, <1>5, <1>7
  <1>9. a \in Nat \ {0}
    <2> HIDE DEF a
    <2> QED
      BY <1>1, <1>2
  <1>10. /\ ((k * a + d) \div a) = k + q
         /\ q \in Nat /\ d - q * a \in 0 .. a - 1 /\ (d >= a <=> q >= 1)
    <2> HIDE DEF a, d
    <2> QED
      BY <1>6, <1>9, PeriodOf
  <1>11. time - origin = k * a + d /\ k * a \in Int /\ q * a \in Int /\ (k + q) * a = k * a + q * a
    <2>1. k * a \in Int /\ q * a \in Int /\ (k + q) * a = k * a + q * a
      <3> HIDE DEF a, q
      <3> QED
        BY <1>9, <1>10
    <2> DEFINE ka == k * a
    <2>2. start = origin + ka /\ ka \in Int
      BY <1>4, <2>1
    <2> HIDE DEF ka
    <2>3. time - origin = ka + d
      BY <1>2, <1>6, <2>2
    <2> QED
      BY <2>1, <2>3 DEF ka
  <1>12. period(time) = k + q
    BY <1>10, <1>11
  <1>13. called \in Int \cup {Never}
    BY DEF LoopInv, LoopTypes
  <1>14. ASSUME k >= 0 PROVE period(called) = k
    <2> DEFINE r == called - start
               ka == k * a
    <2>1. called \in Int /\ r \in 0 .. a - 1
      <3>1. called # Never /\ start <= called /\ called < start + a
        BY <1>4, <1>14
      <3>2. called \in Int
        BY <1>13, <3>1
      <3> HIDE DEF a
      <3> QED
        BY <1>6, <1>9, <3>1, <3>2
    <2>2. ka \in Int /\ start = origin + ka
      BY <1>4, <1>11
    <2>3. called - origin = ka + r
      <3> HIDE DEF ka
      <3> QED
        BY <1>2, <1>6, <2>1, <2>2
    <2>4. ((k * a + r) \div a) = k
      <3> HIDE DEF a, r
      <3> QED
        BY <1>9, <2>1, PeriodIs
    <2> QED
      BY <2>3, <2>4
  <1> HIDE DEF q
  <1>15. mark' \in 0 .. Tick - 1 /\ \E kk, ss \in Int : MarkIs(kk, ss)'
    <2>1. CASE d >= a
      <3> DEFINE qa == q * a
                 ss == start + qa
                 kk == k + q
      <3>1. qa \in Int /\ kk \in Int /\ kk >= 0 /\ q >= 1
        BY <1>4, <1>10, <1>11, <2>1
      <3>2. ss = origin + kk * a
        <4> DEFINE ka == k * a
        <4>1. kk * a = ka + qa /\ ka \in Int /\ start = origin + ka
          BY <1>4, <1>11
        <4> HIDE DEF ka, qa, kk
        <4> QED
          BY <1>2, <3>1, <4>1
      <3> HIDE DEF qa
      <3>3. mark' = (boot + ss) % Tick
        <4> DEFINE x == boot + start
        <4>1. x \in Int
          BY <1>2, <1>6
        <4> HIDE DEF x
        <4>2. (((x % Tick) + qa) % Tick) = ((x + qa) % Tick)
          BY <1>2, <3>1, <4>1, ModOfSum
        <4>3. mark' = (mark + qa) % Tick /\ mark = x % Tick
          BY <1>4, <1>8, <2>1 DEF qa, x
        <4>4. x + qa = boot + ss
          BY <1>2, <1>6, <3>1 DEF x
        <4> QED
          BY <4>2, <4>3, <4>4
      <3>4. time - ss \in 0 .. a - 1 /\ ss \in Int
        <4>1. d - qa \in 0 .. a - 1
          BY <1>10 DEF qa
        <4>2. d - qa = time - ss
          BY <1>2, <1>6, <3>1
        <4> QED
          BY <1>6, <3>1, <4>1, <4>2
      <3>5. ss <= time /\ time < ss + a
        BY <1>2, <3>4
      <3>6. called' = time
        BY <1>8, <2>1
      <3> HIDE DEF ss, kk
      <3>7. MarkIs(kk, ss)' <=>
              /\ kk' \in Int /\ kk' >= -1 /\ ss' = origin' + kk' * tool'.a
              /\ mark' = (tool'.boot + ss') % Tick
              /\ ss' <= polled' /\ polled' < ss' + tool'.a
              /\ kk' = -1 => called' = Never \/ called' < origin'
              /\ kk' >= 0 => called' # Never /\ ss' <= called' /\ called' < ss' + tool'.a
        BY DEF MarkIs
      <3> DEFINE Moved(x, y) ==
              /\ x \in Int /\ x >= -1 /\ y = origin' + x * tool'.a
              /\ mark' = (tool'.boot + y) % Tick
              /\ y <= polled' /\ polled' < y + tool'.a
              /\ x = -1 => called' = Never \/ called' < origin'
              /\ x >= 0 => called' # Never /\ y <= called' /\ called' < y + tool'.a
      <3>8. Moved(kk, ss)
        <4>1. kk >= -1 /\ kk # -1 /\ time # Never
          BY <1>2, <3>1
        <4> QED
          BY <1>8, <3>1, <3>2, <3>3, <3>5, <3>6, <4>1
      <3>9. \E x, y \in Int : Moved(x, y)
        <4> HIDE DEF Moved
        <4> QED
          BY <3>1, <3>4, <3>8
      <3>10. \E x, y \in Int : MarkIs(x, y)'
        BY <3>9 DEF MarkIs
      <3>11. mark' \in 0 .. Tick - 1
        <4>1. boot + ss \in Int
          BY <1>2, <3>4
        <4> QED
          BY <1>2, <3>3, <4>1, ModIs
      <3> QED
        BY <3>10, <3>11
    <2>2. CASE ~(d >= a)
      <3>1. mark' = mark /\ called' = called
        BY <1>8, <2>2
      <3>2. start <= time /\ time < start + a
        <4> HIDE DEF a
        <4> QED
          BY <1>2, <1>6, <1>9, <2>2
      <3> DEFINE Moved(x, y) ==
              /\ x \in Int /\ x >= -1 /\ y = origin' + x * tool'.a
              /\ mark' = (tool'.boot + y) % Tick
              /\ y <= polled' /\ polled' < y + tool'.a
              /\ x = -1 => called' = Never \/ called' < origin'
              /\ x >= 0 => called' # Never /\ y <= called' /\ called' < y + tool'.a
      <3>3. Moved(k, start)
        BY <1>4, <1>8, <3>1, <3>2
      <3>4. \E x, y \in Int : Moved(x, y)
        <4> HIDE DEF Moved
        <4> QED
          BY <1>6, <3>3
      <3>5. \E x, y \in Int : MarkIs(x, y)'
        BY <3>4 DEF MarkIs
      <3> QED
        BY <1>2, <3>1, <3>5
    <2> QED
      BY <2>1, <2>2
  <1>16. T!CallInTime
    <2> DEFINE Due == /\ time >= origin
                      /\ \/ called = Never
                         \/ called # Never /\ called < origin
                         \/ called # Never /\ period(called) < period(time)
    <2>1. called' # called <=> Due
      <3>1. CASE k = -1
        <4>1. called = Never \/ called < origin
          BY <1>4, <3>1
        <4>2. start = origin - a
          BY <1>2, <1>4, <3>1
        <4>3. d >= a <=> time >= origin
          <5> HIDE DEF a
          <5> QED
            BY <1>2, <1>6, <1>9, <4>2
        <4>4. d >= a => called' # called
          BY <1>2, <1>8, <4>1, <4>3, <1>13
        <4>5. ~(d >= a) => called' = called
          BY <1>8
        <4> HIDE DEF d, a, period
        <4> QED
          BY <4>1, <4>3, <4>4, <4>5
      <3>2. CASE k >= 0
        <4>1. called # Never /\ called \in Int /\ start <= called /\ called < start + a
          BY <1>4, <1>13, <3>2
        <4>2. start >= origin
          <5> DEFINE ka == k * a
          <5>1. ka >= 0 /\ ka \in Int
            <6>1. k \in Nat /\ 0 \in Nat /\ 0 <= k
              BY <3>2
            <6> HIDE DEF a
            <6>2. k * a \in Nat
              BY <1>9, <6>1, TimesMonotone
            <6> QED
              BY <6>2
          <5>2. start = origin + ka
            BY <1>4
          <5> HIDE DEF ka
          <5> QED
            BY <1>2, <5>1, <5>2
        <4>3. time >= origin /\ ~(called < origin)
          BY <1>2, <1>6, <4>1, <4>2
        <4>4. period(called) < period(time) <=> q >= 1
          <5>1. period(called) = k /\ period(time) = k + q
            BY <1>12, <1>14, <3>2
          <5> HIDE DEF period
          <5> QED
            BY <1>10, <5>1
        <4>5. d >= a => called' # called
          <5> HIDE DEF a
          <5>1. d >= a => time >= start + a
            BY <1>2, <1>6, <1>9 DEF d
          <5> QED
            BY <1>2, <1>8, <4>1, <5>1, <1>9, <1>6
        <4>6. ~(d >= a) => called' = called
          BY <1>8
        <4>7. d >= a <=> q >= 1
          BY <1>10
        <4> HIDE DEF d, a, period
        <4> QED
          BY <4>1, <4>3, <4>4, <4>5, <4>6, <4>7
      <3> QED
        BY <1>4, <3>1, <3>2
    <2> QED
      BY <2>1 DEF T!CallInTime
  <1> QED
    BY <1>2, <1>8, <1>15, <1>16

LEMMA PhaseCallStep ==
    ASSUME LoopInv, T!PhaseCall
    PROVE  LoopInv' /\ UNCHANGED samples /\ T!CallInTime
  <1>1. /\ origin' \in Int /\ mark' \in 0 .. Tick - 1
        /\ called' \in {called, time}
        /\ \E k, start \in Int : MarkIs(k, start)'
        /\ T!CallInTime
    <2>1. CASE mark = 0
      <3>1. T!CallInTime
        BY <2>1 DEF T!CallInTime
      <3> QED
        BY <2>1, <3>1, FirstCall
    <2>2. CASE mark # 0
      BY <2>2, LaterCall
    <2> QED
      BY <2>1, <2>2
  <1>2. /\ tool.use = "call" /\ tool.a > 0 /\ polled' = time
        /\ UNCHANGED <<tool, time, timer, due, bounce, samples, shown>>
    BY DEF T!PhaseCall, T!Using, T!timervars, T!bouncevars
  <1>3. /\ Tick \in Nat \ {0} /\ tool.a \in Nat /\ tool.a < Tick
        /\ Never \notin Int /\ time \in Nat
    BY ToolIs DEF LoopInv, LoopTypes
  <1>4. bounce.last_state = -1
    BY <1>2 DEF LoopInv, SettleInv
  <1>5. LoopTypes'
    <2>1. polled' \in Int /\ polled' <= time' /\ time' - polled' <= Tick - tool'.a
      BY <1>2, <1>3
    <2>2. called' \in Int \cup {Never} /\ (called' # Never => called' <= time')
      BY <1>1, <1>2, <1>3 DEF LoopInv, LoopTypes
    <2> QED
      BY <1>1, <1>2, <2>1, <2>2 DEF LoopInv, LoopTypes
  <1>6. TimerInv'
    BY <1>2 DEF LoopInv, TimerInv
  <1>7. PeriodInv'
    <2>1. polled' # Never
      BY <1>2, <1>3
    <2> QED
      BY <1>1, <1>2, <2>1 DEF PeriodInv
  <1>8. SettleInv'
    BY <1>2, <1>4 DEF LoopInv, SettleInv
  <1> QED
    BY <1>1, <1>2, <1>5, <1>6, <1>7, <1>8 DEF LoopInv

\* The least of a set that has one
LEMMA LoopMin ==
    ASSUME NEW N \in SUBSET Int, NEW m \in N, \A k \in N : m <= k
    PROVE  T!Min(N) = m
  <1>1. T!Min(N) \in N /\ \A k \in N : T!Min(N) <= k
    BY Zenon DEF T!Min
  <1>2. T!Min(N) \in Int /\ m \in Int /\ T!Min(N) <= m /\ m <= T!Min(N)
    BY <1>1
  <1> DEFINE x == T!Min(N)
  <1>3. x \in Int /\ m \in Int /\ x <= m /\ m <= x
    BY <1>2
  <1> HIDE DEF x
  <1>4. x = m
    BY <1>3
  <1> QED
    BY <1>4 DEF x

\* After a sample of v at t the samples n are what they are since the f-th.
SteadySince(n, s, t, v, f) ==
    /\ n \in Seq(Int \X (0 .. 1)) /\ Len(n) = Len(s) + 1
    /\ T!Last(n)[2] = v
    /\ \A j \in f .. Len(n) : n[j][2] = v
    /\ f = 1 \/ n[f - 1][2] # v
    /\ n[f][1] = IF f = Len(s) + 1 THEN t ELSE s[f][1]
    /\ T!Min({i \in 1 .. Len(n) : \A j \in i .. Len(n) : n[j][2] = T!Last(n)[2]}) = f

LEMMA SteadyAfter ==
    ASSUME NEW s \in Seq(Int \X (0 .. 1)), NEW t \in Int, NEW v \in 0 .. 1,
           NEW f \in 1 .. Len(s) + 1,
           \A j \in f .. Len(s) : s[j][2] = v,
           f = 1 \/ s[f - 1][2] # v
    PROVE  SteadySince(Append(s, <<t, v>>), s, t, v, f)
  <1> DEFINE e == <<t, v>>
             n == Append(s, e)
             l == Len(s)
  <1>0. l \in Nat /\ e \in Int \X (0 .. 1) /\ e[1] = t /\ e[2] = v
    OBVIOUS
  <1> HIDE DEF e
  <1>1. /\ n \in Seq(Int \X (0 .. 1)) /\ Len(n) = l + 1 /\ n[l + 1] = e
        /\ \A j \in 1 .. l : n[j] = s[j]
    BY <1>0, AppendProperties
  <1> HIDE DEF n
  <1>2. T!Last(n)[2] = v
    BY <1>0, <1>1 DEF T!Last
  <1>3. f \in 1 .. l + 1 /\ \A j \in f .. l : s[j][2] = v
    OBVIOUS
  <1>4. f = 1 \/ s[f - 1][2] # v
    OBVIOUS
  <1> HIDE DEF l
  <1>5. ASSUME NEW j \in f .. l + 1 PROVE n[j][2] = v
    <2>1. CASE j = l + 1
      BY <1>0, <1>1, <2>1
    <2>2. CASE j # l + 1
      <3>1. j \in f .. l /\ j \in 1 .. l
        BY <1>0, <1>3, <2>2
      <3> QED
        BY <1>1, <1>3, <3>1
    <2> QED
      BY <2>1, <2>2
  <1>6. f = 1 \/ n[f - 1][2] # v
    <2>1. f # 1 => f - 1 \in 1 .. l
      BY <1>0, <1>3
    <2> QED
      BY <1>1, <1>4, <2>1
  <1>7. n[f][1] = IF f = l + 1 THEN t ELSE s[f][1]
    <2>1. f # l + 1 => f \in 1 .. l
      BY <1>0, <1>3
    <2> QED
      BY <1>0, <1>1, <2>1
  <1> DEFINE stable == {i \in 1 .. l + 1 : \A j \in i .. l + 1 : n[j][2] = v}
  <1>8. T!Min(stable) = f
    <2>1. f \in stable
      BY <1>3, <1>5
    <2>2. ASSUME NEW i \in stable PROVE f <= i
      <3> SUFFICES ASSUME i < f PROVE FALSE
        BY <1>0, <1>3
      <3>1. f - 1 \in i .. l + 1 /\ f # 1
        BY <1>0, <1>3
      <3> QED
        BY <1>6, <3>1
    <2>3. stable \in SUBSET Int
      BY <1>0
    <2> HIDE DEF stable
    <2> QED
      BY <2>1, <2>2, <2>3, LoopMin
  <1> QED
    BY <1>1, <1>2, <1>5, <1>6, <1>7, <1>8 DEF n, e, l, SteadySince

\* A sample when the debouncing starts over
LEMMA DebounceFresh ==
    ASSUME LoopInv, NEW new \in 0 .. 1, T!Debounce(new), T!StartsOver
    PROVE  SettleInv' /\ bounce'.last_last_state = new /\ shown' = new
           /\ bounce'.last_state = new /\ T!SampleSettles
  <1>1. /\ bounce' = [last_time |-> T!Clock, last_state |-> new,
                      last_last_state |-> new, last_call_time |-> T!Clock]
        /\ shown' = new /\ samples' = <<<<time, new>>>>
        /\ tool.use = "bounce" /\ tool.a > 0 /\ polled' = time /\ UNCHANGED <<tool, time>>
    BY DEF T!Debounce, T!Using
  <1>2. /\ Tick \in Nat \ {0} /\ tool.a \in Nat /\ Never \notin Int /\ time \in Nat /\ tool \in Tools
    BY ToolIs DEF LoopInv, LoopTypes
  <1>3. T!Clock = (tool.boot + time) % Tick
    BY <1>2, ClockIn
  <1> DEFINE e == <<time, new>>
  <1>4. /\ samples' \in Seq(Int \X (0 .. 1)) /\ Len(samples') = 1
        /\ samples'[1][1] = time /\ samples'[1][2] = new
    <2>1. e \in Int \X (0 .. 1) /\ e[1] = time /\ e[2] = new
      BY <1>2
    <2> HIDE DEF e
    <2>2. <<e>> \in Seq(Int \X (0 .. 1)) /\ Len(<<e>>) = 1 /\ <<e>>[1] = e
      BY <2>1
    <2> QED
      BY <1>1, <2>1, <2>2 DEF e
  <1>5. SteadyFrom(1)'
    <2>1. 1 \in 1 .. Len(samples') /\ \A j \in 1 .. Len(samples') : j = 1
      BY <1>4
    <2>2. samples'[1][1] <= polled' /\ ~(polled' - samples'[1][1] > tool'.a)
      BY <1>1, <1>2, <1>4
    <2>3. bounce'.last_time = (tool'.boot + samples'[1][1]) % Tick
      BY <1>1, <1>3, <1>4
    <2> QED
      BY <1>1, <1>4, <2>1, <2>2, <2>3 DEF SteadyFrom
  <1>6. SettleInv'
    <2>1. \E f \in Int : SteadyFrom(f)'
      BY <1>5
    <2>2. bounce'.last_call_time = (tool'.boot + polled') % Tick /\ polled' # Never
      BY <1>1, <1>2, <1>3
    <2> QED
      BY <1>1, <1>4, <2>1, <2>2 DEF SettleInv
  <1>7. T!SampleSettles
    BY <1>4 DEF T!SampleSettles
  <1> QED
    BY <1>1, <1>6, <1>7

\* A sample that follows another
LEMMA DebounceNext ==
    ASSUME LoopInv, NEW new \in 0 .. 1, T!Debounce(new), ~T!StartsOver
    PROVE  SettleInv' /\ bounce'.last_last_state \in 0 .. 1 /\ shown' \in 0 .. 1
           /\ bounce'.last_state = new /\ T!SampleSettles
  <1> DEFINE a == tool.a
             same == bounce.last_state = new
             settled == same /\ T!Since(bounce.last_time) > a
             out == IF settled THEN new ELSE bounce.last_last_state
             last == IF same THEN bounce.last_time ELSE T!Clock
  <1>1. /\ bounce' = [last_time |-> last, last_state |-> new, last_last_state |-> out,
                      last_call_time |-> T!Clock]
        /\ shown' = out /\ samples' = Append(samples, <<time, new>>)
        /\ tool.use = "bounce" /\ a > 0 /\ polled' = time /\ UNCHANGED <<tool, time>>
    BY DEF T!Debounce, T!Using
  <1>2. /\ Tick \in Nat \ {0} /\ a \in Nat /\ a < Tick /\ tool.boot \in Nat
        /\ (a \div 2) \in Nat /\ a + (a \div 2) < Tick
        /\ Never \notin Int /\ time \in Nat /\ tool \in Tools
    BY ToolIs DEF LoopInv, LoopTypes
  <1>3. T!Clock = (tool.boot + time) % Tick
    BY <1>2, ClockIn
  <1>4. /\ bounce.last_state # -1 /\ ~(T!Since(bounce.last_call_time) > a \div 2)
        /\ bounce.last_state \in -1 .. 1 /\ bounce.last_last_state \in 0 .. 1
    BY DEF T!StartsOver, LoopInv, LoopTypes
  <1>5. /\ samples \in Seq(Int \X (0 .. 1)) /\ polled # Never
        /\ bounce.last_call_time = (tool.boot + polled) % Tick
        /\ shown = bounce.last_last_state
    BY <1>4 DEF LoopInv, SettleInv
  <1>6. polled \in Int /\ polled <= time /\ time - polled <= Tick - a
    BY <1>5 DEF LoopInv, LoopTypes
  <1>7. time - polled <= a \div 2
    <2>1. time - polled \in 0 .. Tick - 1
      <3> HIDE DEF a
      <3> QED
        BY <1>1, <1>2, <1>6
    <2>2. T!Since(bounce.last_call_time) = time - polled
      BY <1>2, <1>5, <1>6, <2>1, SinceIs
    <2> DEFINE half == a \div 2
    <2>3. ~(time - polled > half) /\ half \in Nat
      BY <1>2, <1>4, <2>2
    <2> HIDE DEF half
    <2>4. time - polled <= half
      BY <1>2, <1>6, <2>3
    <2> QED
      BY <2>4 DEF half
  <1>8. PICK f \in Int : SteadyFrom(f)
    BY <1>4 DEF LoopInv, SettleInv
  <1>9. /\ f \in 1 .. Len(samples)
        /\ \A j \in f .. Len(samples) : samples[j][2] = bounce.last_state
        /\ f = 1 \/ samples[f - 1][2] # bounce.last_state
        /\ bounce.last_time = (tool.boot + samples[f][1]) % Tick /\ samples[f][1] <= polled
        /\ polled - samples[f][1] > a => bounce.last_last_state = bounce.last_state
    BY <1>8 DEF SteadyFrom
  <1> DEFINE since == samples[f][1]
             l == Len(samples)
  <1>10. since \in Int /\ l \in Nat
    <2>1. samples[f] \in Int \X (0 .. 1)
      BY <1>5, <1>9
    <2> QED
      BY <1>5, <2>1
  \* What a long stretch of samples does to the value
  <1>11. ASSUME same
         PROVE  out = IF time - since > a THEN new ELSE shown
    <2>1. CASE polled - since > a
      <3>1. bounce.last_last_state = new
        BY <1>9, <1>11, <2>1
      <3>2. out = new
        BY <3>1
      <3>3. time - since > a
        <4> HIDE DEF a, since
        <4> QED
          BY <1>2, <1>6, <1>10, <2>1
      <3> QED
        BY <3>2, <3>3
    <2>2. CASE ~(polled - since > a)
      <3> DEFINE half == a \div 2
      <3>1. half \in Nat /\ a + half < Tick /\ time - polled <= half
        BY <1>2, <1>7
      <3>2. since <= polled
        BY <1>9
      <3> HIDE DEF a, half, since
      <3>3. time - since \in 0 .. Tick - 1
        BY <1>2, <1>6, <1>10, <2>2, <3>1, <3>2
      <3>4. T!Since((tool.boot + since) % Tick) = time - since
        BY <1>2, <1>10, <3>3, SinceIs
      <3>5. T!Since(bounce.last_time) = time - since
        BY <1>9, <3>4 DEF since
      <3> QED
        BY <1>5, <1>11, <3>5
    <2> QED
      BY <2>1, <2>2
  <1>12. ~same => out = shown
    BY <1>5
  <1>13. out \in 0 .. 1
    BY <1>4
  <1>14. PICK F \in 1 .. l + 1 :
            /\ F = 1 \/ samples[F - 1][2] # new
            /\ \A j \in F .. l : samples[j][2] = new
            /\ same => F = f
            /\ ~same => F = l + 1
    <2>1. CASE same
      <3>1. f \in 1 .. l + 1
        BY <1>9, <1>10
      <3> QED
        BY <1>9, <2>1, <3>1
    <2>2. CASE ~same
      <3>1. l >= 1 /\ l \in f .. l /\ (l + 1) - 1 = l /\ l + 1 \in 1 .. l + 1
        BY <1>9, <1>10
      <3>2. samples[l][2] # new
        BY <1>9, <2>2, <3>1
      <3>3. \A j \in l + 1 .. l : samples[j][2] = new
        BY <1>10
      <3> QED
        BY <2>2, <3>1, <3>2, <3>3
    <2> QED
      BY <2>1, <2>2
  <1> HIDE DEF settled, out, last
  <1>15. /\ samples' \in Seq(Int \X (0 .. 1)) /\ Len(samples') = l + 1
         /\ T!Last(samples')[2] = new
         /\ \A j \in F .. Len(samples') : samples'[j][2] = new
         /\ F = 1 \/ samples'[F - 1][2] # new
         /\ samples'[F][1] = IF F = l + 1 THEN time ELSE samples[F][1]
         /\ T!Min({i \in 1 .. Len(samples') :
                     \A j \in i .. Len(samples') : samples'[j][2] = T!Last(samples')[2]}) = F
    <2>1. time \in Int
      BY <1>2
    <2> DEFINE n == Append(samples, <<time, new>>)
    <2>2. SteadySince(n, samples, time, new, F)
      <3>1. \A j \in F .. Len(samples) : samples[j][2] = new
        BY <1>14
      <3>2. F = 1 \/ samples[F - 1][2] # new
        BY <1>14
      <3>3. samples \in Seq(Int \X (0 .. 1))
        BY <1>5
      <3> QED
        BY <2>1, <3>1, <3>2, <3>3, SteadyAfter
    <2>3. samples' = n
      BY <1>1
    <2> HIDE DEF n
    <2> QED
      BY <2>2, <2>3 DEF SteadySince
  <1>16. samples'[F][1] = IF same THEN since ELSE time
    <2>1. CASE same
      <3>1. F = f /\ F # l + 1
        BY <1>9, <1>10, <1>14, <2>1
      <3> QED
        BY <1>15, <2>1, <3>1
    <2>2. CASE ~same
      BY <1>14, <1>15, <2>2
    <2> QED
      BY <2>1, <2>2
  <1>17. out = IF time - samples'[F][1] > a THEN new ELSE shown
    <2>1. CASE same
      BY <1>11, <1>16, <2>1
    <2>2. CASE ~same
      <3>1. ~(time - time > a)
        <4> HIDE DEF a
        <4> QED
          BY <1>2
      <3> QED
        BY <1>12, <1>16, <2>2, <3>1
    <2> QED
      BY <2>1, <2>2
  <1>18. T!SampleSettles
    BY <1>1, <1>15, <1>17 DEF T!SampleSettles
  <1>19. SteadyFrom(F)'
    <2>1. F \in 1 .. Len(samples')
      BY <1>14, <1>15
    <2>2. bounce'.last_time = (tool'.boot + samples'[F][1]) % Tick
      BY <1>1, <1>3, <1>9, <1>16 DEF last
    <2>3. samples'[F][1] <= polled'
      <3>1. since <= polled /\ since \in Int
        BY <1>9, <1>10
      <3> HIDE DEF since
      <3>2. since <= time /\ time <= time
        BY <1>2, <1>6, <3>1
      <3> QED
        BY <1>1, <1>16, <3>2
    <2>4. polled' - samples'[F][1] > tool'.a => bounce'.last_last_state = bounce'.last_state
      BY <1>1, <1>17
    <2>5. bounce'.last_state = new
      BY <1>1
    <2> QED
      BY <1>15, <2>1, <2>2, <2>3, <2>4, <2>5 DEF SteadyFrom
  <1>20. SettleInv'
    <2>1. \E g \in Int : SteadyFrom(g)'
      BY <1>10, <1>14, <1>19
    <2>2. bounce'.last_call_time = (tool'.boot + polled') % Tick /\ polled' # Never
      BY <1>1, <1>2, <1>3
    <2> QED
      BY <1>1, <1>15, <2>1, <2>2 DEF SettleInv
  <1> QED
    BY <1>1, <1>13, <1>18, <1>20

LEMMA DebounceStep ==
    ASSUME LoopInv, NEW new \in 0 .. 1, T!Debounce(new)
    PROVE  LoopInv' /\ T!SampleSettles
  <1>1. /\ SettleInv' /\ bounce'.last_last_state \in 0 .. 1 /\ shown' \in 0 .. 1
        /\ bounce'.last_state = new /\ T!SampleSettles
    BY DebounceFresh, DebounceNext
  <1>2. /\ tool.use = "bounce" /\ polled' = time
        /\ UNCHANGED <<tool, time, timer, due, mark, origin, called>>
    BY DEF T!Debounce, T!Using, T!timervars, T!callvars
  <1>3. Tick \in Nat \ {0} /\ tool.a \in Nat /\ tool.a < Tick /\ Never \notin Int /\ time \in Nat
    BY ToolIs DEF LoopInv, LoopTypes
  <1>4. mark = 0
    BY <1>2 DEF LoopInv, PeriodInv
  <1>5. LoopTypes'
    <2>1. polled' \in Int /\ polled' <= time' /\ time' - polled' <= Tick - tool'.a
      BY <1>2, <1>3
    <2>2. bounce'.last_state \in -1 .. 1
      BY <1>1
    <2> QED
      BY <1>1, <1>2, <2>1, <2>2 DEF LoopInv, LoopTypes
  <1>6. TimerInv' /\ PeriodInv'
    BY <1>2, <1>4 DEF LoopInv, TimerInv, PeriodInv
  <1> QED
    BY <1>1, <1>5, <1>6 DEF LoopInv

LEMMA LoopInvNext ==
    ASSUME LoopInv, [T!LoopNext]_(T!loopvars)
    PROVE  LoopInv' /\ (~UNCHANGED T!loopvars => T!CallInTime /\ T!SampleSettles)
  <1>1. ASSUME T!Pass \/ T!Config \/ T!Reset \/ T!Stop \/ T!ForceTimeout \/ T!PhaseCall
        PROVE  LoopInv' /\ T!SampleSettles
    <2>1. LoopInv' /\ UNCHANGED samples
      BY <1>1, PassStep, TimerStep, PhaseCallStep
    <2> QED
      BY <2>1 DEF T!SampleSettles
  <1>2. ASSUME NEW new \in 0 .. 1, T!Debounce(new)
        PROVE  LoopInv' /\ T!SampleSettles
    BY <1>2, DebounceStep
  <1>3. CASE UNCHANGED T!loopvars
    <2>1. UNCHANGED <<tool, time, timer, due, mark, origin, polled, called, bounce, samples, shown>>
      BY <1>3 DEF T!loopvars
    <2> QED
      BY <1>3, <2>1 DEF LoopInv, LoopTypes, TimerInv, PeriodInv, MarkIs, SettleInv, SteadyFrom
  <1>4. T!CallInTime
    <2>1. ~T!PhaseCall => T!CallInTime
      BY DEF T!CallInTime
    <2> QED
      BY <2>1, PhaseCallStep
  <1> QED
    BY <1>1, <1>2, <1>3, <1>4 DEF T!LoopNext

LEMMA LoopStep ==
  /\ DevicesInit => LoopInv
  /\ LoopInv /\ [DevicesNext]_devicevars => LoopInv'
  <1>1. DevicesInit => LoopInv
    BY LoopInvInit DEF DevicesInit
  <1>2. ASSUME LoopInv, [DevicesNext]_devicevars PROVE LoopInv'
    <2>1. T!LoopNext \/ UNCHANGED T!loopvars
      BY <1>2 DEF DevicesNext, devicevars, loopvars, T!loopvars
    <2> QED
      BY <1>2, <2>1, LoopInvNext
  <1> QED
    BY <1>1, <1>2

\* Timers, periodic calls and debounced values follow the real time for every
\* width of the clock, every point at which it starts, every cycle, phase and
\* timeout that fits it, and every order and spacing of the polls: at every wrap
\* of the clock, not only at the first.
THEOREM ClocksWrapUnnoticed == DevicesSpec => ToolsKeepTime
  <1>1. LoopInv /\ [DevicesNext]_devicevars
           => [T!CallInTime /\ T!SampleSettles]_(T!loopvars)
    <2> SUFFICES ASSUME LoopInv, [DevicesNext]_devicevars, ~UNCHANGED T!loopvars
                 PROVE  T!CallInTime /\ T!SampleSettles
      OBVIOUS
    <2>1. T!LoopNext
      BY DEF DevicesNext, devicevars, loopvars, T!loopvars
    <2> QED
      BY <2>1, LoopInvNext
  <1> QED
    BY <1>1, LoopStep, TimerExact, PTL DEF DevicesSpec, ToolsKeepTime, T!ToolsKeepTime

\* The register map, the ring over the bus, the serial line and the tools of the
\* loop keep their types, the map its entries apart, and what it answers lies
\* inside a group: for constants of every size.
THEOREM DevicesTyped == DevicesSpec => []DevicesTypeOK
  <1>1. MapInv => TypeOK /\ EntriesAreUnique /\ AcceptedInside
    BY Inside DEF MapInv, MapTypes, TypeOK
  <1>2. LineInv => S!SerialTypeOK
    BY DEF LineInv
  <1>3. LoopInv => T!LoopTypeOK
    BY DEF LoopInv, LoopTypes, T!LoopTypeOK
  <1>4. MapInv /\ LinkTyped /\ LineInv /\ LoopInv => DevicesTypeOK
    BY <1>1, <1>2, <1>3, LinkTypeOK DEF DevicesTypeOK
  <1> QED
    BY <1>4, MapStep, LinkTypedStep, LineStep, LoopStep, PTL DEF DevicesSpec
=============================================================================
