------------------------------- MODULE LogicReg -------------------------------
(***************************************************************************)
(* The device's register map: groups of registers, registered in a small   *)
(* table, and the bus accesses that are routed to them.  The bus handler   *)
(* runs to completion (an interrupt, or the same loop), so an access is    *)
(* one step; between two accesses the program registers and unregisters.   *)
(***************************************************************************)
EXTENDS CbReg

CONSTANTS
    Group,      \* the group descriptors of the program
    Type,       \* group_type: "WR", "RO" or "CB", per group
    Start,      \* group_start
    EndOf,      \* group_end, as the program sets it
    MaxGroups,  \* LOGICREG_MAX_GROUP_CNT
    AddrMod,    \* 2^16: addresses and sizes are uint16_t
    Value,      \* what a register byte holds
    MaxAccess,  \* the longest access the bus makes
    Empty       \* a NULL table entry

ASSUME EmptyAssumption == Empty \notin Group
\* A range that ends at 2^16 has group_end = 0 and answers nothing.
ASSUME GroupAssumption == \A g \in Group :
    /\ Start[g] <= EndOf[g] /\ EndOf[g] < AddrMod
    /\ Type[g] = "CB" => Start[g] + 7 < AddrMod

\* Accesses are not longer than a uint16_t counts.
ASSUME MapAssumption ==
    /\ MaxGroups \in Nat /\ Capacity \in Nat /\ CountSize \in Nat \ {0}
    /\ AddrMod \in Nat /\ MaxAccess \in 0 .. AddrMod - 1
    /\ Value # {} /\ Value \subseteq Nat
    /\ Start \in [Group -> Nat] /\ EndOf \in [Group -> Nat]

VARIABLES
    reg_group,  \* logiRegRun.reg_group
    group_end,  \* the descriptors' group_end
    mem,        \* mem of the WR and RO groups
    ring,       \* the queue behind mem of the CB groups
    ret         \* what the last bus access returned

vars == <<reg_group, group_end, mem, ring, ret>>

Addr == 0 .. AddrMod - 1
CBREG_SIZE == 7
Plain == {g \in Group : Type[g] # "CB"}
RingGroup == Group \ Plain
Registered == {reg_group[i] : i \in 1 .. MaxGroups} \ {Empty}
Offset(g, addr) == (addr - Start[g]) % AddrMod
Datas(size) == [1 .. size -> Value]

\* The test of _RegGroupValid for one group: only the first address counts in a
\* ring group; elsewhere first and last, and the sum is cut to a uint16_t.
Answers(end, g, addr, len) ==
    /\ addr >= Start[g]
    /\ IF Type[g] = "CB" THEN addr < end[g] ELSE (addr + len) % AddrMod <= end[g]

\* _RegGroupValid: the first entry that answers, 0 for none.
Valid(end, addr, len) ==
    LET hits == {i \in 1 .. MaxGroups :
                    reg_group[i] # Empty /\ Answers(end, reg_group[i], addr, len)}
    IN  IF hits = {} THEN 0 ELSE CHOOSE i \in hits : \A j \in hits : i <= j

Refuses(addr, size) == Valid(group_end, addr, size) = 0
Routed(addr, size) == reg_group[Valid(group_end, addr, size)]

\* LogicReg_Init
Init ==
    /\ reg_group = [i \in 1 .. MaxGroups |-> Empty]
    /\ group_end = EndOf
    /\ mem = [g \in Plain |-> [k \in 0 .. EndOf[g] - Start[g] - 1 |-> CHOOSE v \in Value : TRUE]]
    /\ ring = [g \in RingGroup |-> <<>>]
    /\ ret = 0

-----------------------------------------------------------------------------
(* The program *)

\* A ring group's end is set in the caller's descriptor before any check.
NewEnd(g) == IF Type[g] = "CB" THEN (Start[g] + CBREG_SIZE) % AddrMod ELSE group_end[g]

FreeEntry(i) == reg_group[i] = Empty /\ \A j \in 1 .. i - 1 : reg_group[j] # Empty

\* (mutant) without the check against the registered groups
RegisterUnchecked(g) ==
    /\ group_end' = [group_end EXCEPT ![g] = NewEnd(g)]
    /\ reg_group' = [i \in 1 .. MaxGroups |-> IF FreeEntry(i) THEN g ELSE reg_group[i]]
    /\ UNCHANGED <<mem, ring, ret>>

\* LogicReg_RegisterGroup: refused when one entry answers the whole range; else
\* the first free entry is taken, if there is one.
Register(g) ==
    /\ group_end' = [group_end EXCEPT ![g] = NewEnd(g)]
    /\ LET hit == Valid(group_end', Start[g], (NewEnd(g) - Start[g]) % AddrMod)
       IN  reg_group' = [i \in 1 .. MaxGroups |->
                            IF hit = 0 /\ FreeEntry(i) THEN g ELSE reg_group[i]]
    /\ UNCHANGED <<mem, ring, ret>>

\* LogicReg_UnregisterGroup: the first entry with this group.
Unregister(g) ==
    /\ reg_group' = [i \in 1 .. MaxGroups |->
            IF reg_group[i] = g /\ \A j \in 1 .. i - 1 : reg_group[j] # g
            THEN Empty ELSE reg_group[i]]
    /\ UNCHANGED <<group_end, mem, ring, ret>>

-----------------------------------------------------------------------------
(* The bus *)

\* LogicReg_Read
Read(addr, size) ==
    /\ IF Refuses(addr, size)
       THEN ret' = 0 /\ UNCHANGED ring
       ELSE LET g == Routed(addr, size)
                r == CbRead(ring[g], Offset(g, addr), size)
            IN  IF Type[g] = "CB"
                THEN ret' = r.ret /\ ring' = [ring EXCEPT ![g] = r.ring]
                ELSE ret' = size /\ UNCHANGED ring
    /\ UNCHANGED <<reg_group, group_end, mem>>

\* _NormalWrite
Stored(g, addr, size, data) ==
    [k \in DOMAIN mem[g] |->
        IF Offset(g, addr) <= k /\ k < Offset(g, addr) + size
        THEN data[k - Offset(g, addr) + 1] ELSE mem[g][k]]

WriteRing(g, addr, size, data) ==
    LET r == CbWrite(ring[g], Offset(g, addr), size, data)
    IN  /\ ret' = r.ret
        /\ ring' = [ring EXCEPT ![g] = r.ring]
        /\ UNCHANGED mem

\* LogicReg_Write
Write(addr, size, data) ==
    /\ IF Refuses(addr, size)
       THEN ret' = 0 /\ UNCHANGED <<mem, ring>>
       ELSE LET g == Routed(addr, size)
            IN  CASE Type[g] = "WR" ->
                        /\ ret' = size
                        /\ mem' = [mem EXCEPT ![g] = Stored(g, addr, size, data)]
                        /\ UNCHANGED ring
                  [] Type[g] = "CB" -> WriteRing(g, addr, size, data)
                  [] OTHER -> ret' = 0 /\ UNCHANGED <<mem, ring>>
    /\ UNCHANGED <<reg_group, group_end>>

-----------------------------------------------------------------------------
Next ==
    \/ \E g \in Group : Register(g) \/ Unregister(g)
    \/ \E addr \in Addr, size \in 0 .. MaxAccess :
        Read(addr, size) \/ \E data \in Datas(size) : Write(addr, size, data)

Spec == Init /\ [][Next]_vars

-----------------------------------------------------------------------------
(* Properties *)

TypeOK ==
    /\ reg_group \in [1 .. MaxGroups -> Group \cup {Empty}]
    /\ group_end \in [Group -> Addr]
    /\ \A g \in Plain : mem[g] \in [0 .. EndOf[g] - Start[g] - 1 -> Value]
    /\ \A g \in RingGroup : Len(ring[g]) <= Capacity
    /\ ret \in 0 .. AddrMod - 1

\* Registering twice is refused however the table was filled and emptied in
\* between: a group has one entry at most, and unregistering it, which clears
\* one, is enough for no access to reach its memory.
EntriesAreUnique ==
    \A i, j \in 1 .. MaxGroups :
        reg_group[i] = reg_group[j] /\ reg_group[i] # Empty => i = j

\* What an access to a plain group reads or writes.
Touched(g, addr, size) == {addr - Start[g] + k : k \in 0 .. size - 1}

\* An access that is not refused stays inside the memory of the group it is
\* routed to, with overlapping and nested groups in any order of the table.
\* (As long as addr + size does not exceed a uint16_t; see AlwaysInside.)
AcceptedInside ==
    \A addr \in Addr : \A size \in 0 .. AddrMod - 1 - addr :
        ~Refuses(addr, size) =>
            LET g == Routed(addr, size)
            IN  g \in Plain => Touched(g, addr, size) \subseteq DOMAIN mem[g]

\* _RegGroupValid, "checks whether the registers operated on are in a
\* reasonable range", for every address and size that a uint16_t holds.
AlwaysInside ==
    \A addr, size \in Addr :
        ~Refuses(addr, size) =>
            LET g == Routed(addr, size)
            IN  g \in Plain => Touched(g, addr, size) \subseteq DOMAIN mem[g]

\* A command is executed entirely or not at all: an access that reports 0 has
\* changed neither a register nor a ring ("fails when exceeding").
ZeroMeansUnchanged == [][ret' = 0 => UNCHANGED <<mem, ring>>]_vars
=============================================================================
