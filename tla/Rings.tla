-------------------------------- MODULE Rings --------------------------------
(***************************************************************************)
(* The rings a byte stream goes through.  The two ring buffers promise the *)
(* same: what is said here holds of a common ring buffer (Crb) and of an   *)
(* elastic one (Erb).  A fifo of records (PfifoRec) keeps its records      *)
(* apart on top of that.                                                   *)
(***************************************************************************)
EXTENDS Crb

CONSTANTS FifoSize, Wrap, Base, RecSize, Payload, MaxLen, MaxRead    \* as in PfifoRec

VARIABLES
    kind,       \* "common", "elastic" or "records": this ring, never changes
    rec_data, rec_in, rec_out, rec_wbuf, rec_wleft, rec_rop, rec_rn,
    rec_rbuf, rec_rleft, rec_rin, rec_got, recs, rseen    \* those of PfifoRec

recvars == <<rec_data, rec_in, rec_out, rec_wbuf, rec_wleft, rec_rop, rec_rn,
             rec_rbuf, rec_rleft, rec_rin, rec_got, recs, rseen>>

E == INSTANCE Erb
R == INSTANCE PfifoRec WITH
    Size <- FifoSize, data <- rec_data, in <- rec_in, out <- rec_out, wbuf <- rec_wbuf,
    wleft <- rec_wleft, rop <- rec_rop, rn <- rec_rn, rbuf <- rec_rbuf,
    rleft <- rec_rleft, rin <- rec_rin, got <- rec_got

ASSUME RecordsAssumption ==
    /\ R!RecAssumption
    /\ FifoSize \in Nat /\ FifoSize >= 2
    /\ Wrap \in Nat /\ Wrap % FifoSize = 0 /\ Wrap >= 2 * FifoSize

RingsInit ==
    /\ kind \in {"common", "elastic", "records"}
    /\ IF kind = "common" THEN Init ELSE E!Init
    /\ R!Init

RingsNext ==
    \/ kind = "elastic" /\ E!Next /\ UNCHANGED <<kind, recvars>>
    \/ kind = "common" /\ Next /\ UNCHANGED <<kind, recvars>>
    \/ kind = "records" /\ R!Next /\ UNCHANGED <<kind, vars>>

RingsSpec == RingsInit /\ [][RingsNext]_<<kind, vars, recvars>>

-----------------------------------------------------------------------------
(* Properties *)

RingsTypeOK ==
    /\ IF kind = "common" THEN TypeOK /\ OneByteFree ELSE E!TypeOK
    /\ R!TypeOK

\* A write in one context never stores where a read in the other looks, although
\* neither masks the other; for an elastic ring that is in either half, and for
\* as long as the caller of erb_Peep keeps its pointer.
RingsNoRace == IF kind = "common" THEN NoRace ELSE E!NoRace

\* The committed bytes, for an elastic ring as they lie in one piece from
\* `read`, are a bounded fifo of mem_size - 1 bytes.
Stored == IF kind = "common" THEN Contents ELSE E!View
Queue == INSTANCE FifoQueue WITH
    Capacity <- MemSize - 1, queue <- Stored, given <- wbuf, got <- got
RingsImplementFifo == Queue!Spec

\* The committed bytes of a fifo of records are its records, each behind its own
\* length, and nothing else: a reader never takes payload for a length.
Framing == R!Framing

\* pfifo_avail tells exactly which records are accepted and can be told by
\* their length field.
AvailIsExact == R!AvailIsExact

\* Records come out whole and in order, or cut to the reader's buffer.
ImplementsRecordQueue == R!ImplementsRecordQueue
=============================================================================
