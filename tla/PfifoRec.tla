------------------------------- MODULE PfifoRec -------------------------------
(***************************************************************************)
(* The record mode of the fifo (recsize = 1 or 2): a byte buffer in which  *)
(* every record is preceded by its length.  As in Pfifo, one writer and    *)
(* one reader thread interleave byte by byte.                              *)
(***************************************************************************)
EXTENDS PfifoIndex, SequencesExt

CONSTANTS
    Base,       \* 256: what a byte can hold
    RecSize,    \* bytes of the length field
    Payload,    \* the byte values the writer's records are made of
    MaxLen,     \* the longest record the writer passes to pfifo_in
    MaxRead     \* the largest buffer the reader passes to pfifo_out

\* Assumed where the constants get their values (Rings).
RecAssumption ==
    /\ Base \in Nat /\ Base >= 2 /\ RecSize \in {1, 2}
    /\ MaxLen \in Nat /\ MaxRead \in Nat /\ Payload \subseteq 0 .. Base - 1

VARIABLES
    data, in, out,  \* as in Pfifo, esize = 1
    wbuf,           \* writer: length bytes and payload still to be published
    wleft,          \*   positions of wbuf not yet stored
    rop,            \* reader: "idle", "out", "peek" or "reset"
    rn,             \*   the record length read from the fifo
    rbuf, rleft,    \*   as in Pfifo
    rin,            \*   the value of in loaded by pfifo_reset_out
    got,            \* what the last finished read returned
    recs,           \* history: the records published and not yet removed
    rseen           \* history: how many of them pfifo_reset_out will drop

writer == <<wbuf, wleft>>
reader == <<rop, rn, rbuf, rleft, rin, got, rseen>>
vars == <<data, in, out, writer, reader, recs>>

Records == UNION {[1 .. n -> Payload] : n \in 0 .. MaxLen}

\* __pfifo_max_r(): the longest record the length field can express
MaxRec == (IF RecSize = 1 THEN Base ELSE Base * Base) - 1

\* __pfifo_poke_n(): the length, low byte first, each cut to a byte
LengthBytes(n) == [k \in 1 .. RecSize |-> (IF k = 1 THEN n ELSE n \div Base) % Base]

\* __pfifo_peek_n(): the length bytes at `out`
PeekN == data[Masked(out)] + (IF RecSize > 1 THEN Base * data[Masked(out + 1)] ELSE 0)

\* (mutant) not limited to what the length field can express
AvailUncapped ==
    LET avail == Unused(in, out)
    IN  IF avail <= RecSize THEN 0 ELSE avail - RecSize

\* pfifo_avail(): the longest record that fits
Avail ==
    LET avail == Unused(in, out)
    IN  IF avail <= RecSize THEN 0 ELSE MinOf(avail - RecSize, MaxRec)

Init ==
    /\ data = [s \in Slots |-> 0]
    /\ in = 0 /\ out = 0
    /\ wbuf = <<>> /\ wleft = {}
    /\ rop = "idle" /\ rn = 0 /\ rbuf = <<>> /\ rleft = {} /\ rin = 0 /\ rseen = 0
    /\ got = <<>> /\ recs = <<>>

-----------------------------------------------------------------------------
(* Writer: wbuf is empty exactly outside __pfifo_in_r. *)

\* __pfifo_in_r: the record and its length must fit; otherwise it returns 0.
InRBegin(rec) ==
    /\ wbuf = <<>>
    /\ Len(rec) + RecSize <= Unused(in, out)
    /\ wbuf' = LengthBytes(Len(rec)) \o rec
    /\ wleft' = 1 .. RecSize + Len(rec)
    /\ UNCHANGED <<data, in, out, reader, recs>>

\* Where byte p goes: the length bytes are poked one by one at in, in + 1; the
\* payload is copied by pfifo_copy_in from index in + recsize on.
StoreSlot(p) ==
    IF p <= RecSize THEN Masked(in + (p - 1))
                    ELSE Slot(Len(wbuf) - RecSize, Advance(in, RecSize), p - RecSize)

StoreByte(p) ==
    /\ p \in wleft
    /\ IF \E q \in wleft : q <= RecSize
       THEN \A q \in wleft : p <= q
       ELSE MayCopy({q - RecSize : q \in wleft}, Len(wbuf) - RecSize,
                    Advance(in, RecSize), p - RecSize)
    /\ data' = [data EXCEPT ![StoreSlot(p)] = wbuf[p]]
    /\ wleft' = wleft \ {p}
    /\ UNCHANGED <<in, out, wbuf, reader, recs>>

\* (mutant) fifo->in += len
InRCommitShort ==
    /\ wbuf # <<>>
    /\ wleft = {}
    /\ in' = Advance(in, Len(wbuf) - RecSize)
    /\ recs' = Append(recs, SubSeq(wbuf, RecSize + 1, Len(wbuf)))
    /\ wbuf' = <<>>
    /\ UNCHANGED <<data, out, wleft, reader>>

\* fifo->in += len + recsize, behind the fence
InRCommit ==
    /\ wbuf # <<>>
    /\ wleft = {}
    /\ in' = Advance(in, Len(wbuf))
    /\ recs' = Append(recs, SubSeq(wbuf, RecSize + 1, Len(wbuf)))
    /\ wbuf' = <<>>
    /\ UNCHANGED <<data, out, wleft, reader>>

-----------------------------------------------------------------------------
(* Reader *)

\* __pfifo_out_r ("out") and __pfifo_out_peek_r ("peek"): nothing when empty,
\* else pfifo_out_copy_r looks up the record's length and copies at most n.
OutRBegin(op, n) ==
    /\ rop = "idle"
    /\ ~IsEmpty(in, out)
    /\ rop' = op
    /\ rn' = PeekN
    /\ rbuf' = [p \in 1 .. MinOf(n, PeekN) |-> 0]
    /\ rleft' = 1 .. MinOf(n, PeekN)
    /\ UNCHANGED <<data, in, out, writer, rin, got, rseen, recs>>

LoadSlot(p) == Slot(Len(rbuf), Advance(out, RecSize), p)

LoadByte(p) ==
    /\ MayCopy(rleft, Len(rbuf), Advance(out, RecSize), p)
    /\ rbuf' = [rbuf EXCEPT ![p] = data[LoadSlot(p)]]
    /\ rleft' = rleft \ {p}
    /\ UNCHANGED <<data, in, out, writer, rop, rn, rin, got, rseen, recs>>

FinishRead ==
    /\ rleft = {}
    /\ got' = rbuf
    /\ rop' = "idle" /\ rn' = 0 /\ rbuf' = <<>>
    /\ UNCHANGED <<data, in, writer, rleft, rin, rseen>>

\* (mutant) removes only as much as was copied
OutRCommitCopied ==
    /\ rop = "out"
    /\ FinishRead
    /\ out' = Advance(out, Len(rbuf) + RecSize)
    /\ recs' = SubSeq(recs, 2, Len(recs))

\* The whole record goes, even when only its beginning was copied.
OutRCommit ==
    /\ rop = "out"
    /\ FinishRead
    /\ out' = Advance(out, rn + RecSize)
    /\ recs' = SubSeq(recs, 2, Len(recs))

PeekREnd ==
    /\ rop = "peek"
    /\ FinishRead
    /\ UNCHANGED <<out, recs>>

\* __pfifo_skip_r looks at the length without an empty check; the reader calls
\* it for a record it has seen.
SkipR ==
    /\ rop = "idle"
    /\ ~IsEmpty(in, out)
    /\ out' = Advance(out, PeekN + RecSize)
    /\ recs' = SubSeq(recs, 2, Len(recs))
    /\ UNCHANGED <<data, in, writer, reader>>

\* pfifo_reset_out: a load of `in` and a later store of `out`
ResetOutLoad ==
    /\ rop = "idle"
    /\ rop' = "reset"
    /\ rin' = in
    /\ rseen' = Len(recs)
    /\ UNCHANGED <<data, in, out, writer, rn, rbuf, rleft, got, recs>>

ResetOutStore ==
    /\ rop = "reset"
    /\ out' = rin
    /\ recs' = SubSeq(recs, rseen + 1, Len(recs))
    /\ rop' = "idle" /\ rin' = 0 /\ rseen' = 0
    /\ UNCHANGED <<data, in, writer, rn, rbuf, rleft, got>>

-----------------------------------------------------------------------------
Next ==
    \/ \E rec \in Records : InRBegin(rec)
    \/ \E p \in wleft : StoreByte(p)
    \/ InRCommit
    \/ \E op \in {"out", "peek"}, n \in 0 .. MaxRead : OutRBegin(op, n)
    \/ \E p \in rleft : LoadByte(p)
    \/ OutRCommit \/ PeekREnd
    \/ SkipR
    \/ ResetOutLoad \/ ResetOutStore

Spec == Init /\ [][Next]_vars

-----------------------------------------------------------------------------
(* Properties *)

TypeOK ==
    /\ data \in [Slots -> 0 .. Base - 1]
    /\ in \in Index /\ out \in Index /\ rin \in Index
    /\ Len(wbuf) <= Size /\ Len(rbuf) <= MaxRead
    /\ wleft \subseteq 1 .. Len(wbuf) /\ rleft \subseteq 1 .. Len(rbuf)
    /\ rop \in {"idle", "out", "peek", "reset"}
    /\ rn \in 0 .. MaxRec

\* Framing: the committed bytes are exactly the published records, each behind
\* its own length.  A reader that starts at `out` never reads a length from the
\* middle of a record.
Framed(rec) == LengthBytes(Len(rec)) \o rec
Framing ==
    Contents(data, in, out) = FlattenSeq([k \in DOMAIN recs |-> Framed(recs[k])])

\* "returns the size of the next fifo record" (pfifo_peek_len, and the length
\* __pfifo_out_r advances by): what the reader finds is what the writer stored.
PeekIsLength == ~IsEmpty(in, out) => recs # <<>> /\ PeekN = Len(recs[1])

\* pfifo_avail promises neither too much nor too little: a record of n bytes
\* is accepted by pfifo_in, and can be told by its length field, exactly when n
\* is at most pfifo_avail.
AvailIsExact == \A n \in 1 .. Size :
    n <= Avail <=> n + RecSize <= Unused(in, out) /\ n <= MaxRec

Queue == INSTANCE RecordQueue
ImplementsRecordQueue == Queue!Spec
=============================================================================
