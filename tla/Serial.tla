-------------------------------- MODULE Serial --------------------------------
(***************************************************************************)
(* Frames over a serial line: a device that writes one frame after the     *)
(* other, and a host that calls uart_Read and gives what it returns to     *)
(* a5_5a_data_recovery.  uart_Read returns a full buffer, or what came     *)
(* until the line was silent: it does not know where a frame ends.         *)
(***************************************************************************)
EXTENDS Frame, FiniteSetsExt, SequencesExt

CONSTANTS
    Uses        \* ways of use: records with the fields of `use`

\* Assumed where the constants get their values (Devices): payloads are bytes.
LineAssumption ==
    /\ NoPayload \notin Seq(Int) /\ Endless \notin Seq(Int) /\ Endless # NoPayload
    /\ IndexMod \in Nat
    /\ \A u \in Uses : u.size \in Nat /\ \A p \in u.payloads : p \in Seq(0 .. 255)

VARIABLES
    use,        \* one of Uses, never changes:
                \*   payloads: what may be sent; frames: bound on the frames;
                \*   size: buf_size; fails: poll and read may fail, the caller
                \*   may clear the input, a short write may be given up;
                \*   hangs: the device may go away
    sent,       \* the payloads sent
    unsent,     \* what write has not taken of the last frame
    line,       \* the bytes the kernel holds for read
    gone,       \* the device has gone away
    reading,    \* where uart_Read is: "no", "poll", "read"; "lost": the host is in
                \* a recovery that does not end
    data,       \* what it has stored into data_buf
    received    \* the payloads recovered

serialvars == <<use, sent, unsent, line, gone, reading, data, received>>
linevars == <<sent, unsent, line, gone>>
readvars == <<reading, data, received>>

SerialInit ==
    /\ use \in Uses
    /\ sent = <<>> /\ unsent = <<>> /\ line = <<>> /\ gone = FALSE
    /\ reading = "no" /\ data = <<>> /\ received = <<>>

-----------------------------------------------------------------------------
(* The device *)

\* The next frame; its writer leaves the line silent until the host has
\* returned from reading the one before.
SendFrame ==
    /\ ~gone
    /\ Len(sent) < use.frames
    /\ unsent = <<>> /\ line = <<>> /\ data = <<>>
    /\ \E p \in use.payloads :
        /\ sent' = Append(sent, p)
        /\ unsent' = Escaping(p)
    /\ UNCHANGED <<use, line, gone>> /\ UNCHANGED readvars

\* write takes n bytes; a device that does not look at n gives up the rest.
Write(n) ==
    /\ ~gone
    /\ n \in 1..Len(unsent)
    /\ line' = line \o SubSeq(unsent, 1, n)
    /\ \/ unsent' = SubSeq(unsent, n + 1, Len(unsent))
       \/ use.fails /\ unsent' = <<>>
    /\ UNCHANGED <<use, sent, gone>> /\ UNCHANGED readvars

GoAway ==
    /\ use.hangs /\ ~gone
    /\ gone' = TRUE
    /\ UNCHANGED <<use, sent, unsent, line>> /\ UNCHANGED readvars

-----------------------------------------------------------------------------
(* The host *)

\* uart_InClean
InClean ==
    /\ reading = "no" /\ use.fails
    /\ line' = <<>>
    /\ UNCHANGED <<use, sent, unsent, gone>> /\ UNCHANGED readvars

ReadBegin ==
    /\ reading = "no"
    /\ reading' = "poll" /\ data' = <<>>
    /\ UNCHANGED <<use, received>> /\ UNCHANGED linevars

\* uart_Read returns; what it returns goes through the recovery.
Return(bytes) ==
    LET p == IF bytes = <<>> THEN NoPayload ELSE Recovery(bytes)
    IN  /\ reading' = IF p = Endless THEN "lost" ELSE "no"
        /\ data' = <<>>
        /\ received' = IF p \in {NoPayload, Endless} THEN received ELSE Append(received, p)
        /\ UNCHANGED use /\ UNCHANGED linevars

Full == Len(data) = use.size

ReadFull ==
    /\ reading = "poll" /\ Full
    /\ Return(data)

\* (mutant) the timeout only starts another poll
PollAgain ==
    /\ reading = "poll" /\ ~Full
    /\ line = <<>> /\ ~gone
    /\ UNCHANGED serialvars

\* poll: nothing has come for the time the caller gave.
PollTimeout ==
    /\ reading = "poll" /\ ~Full
    /\ line = <<>> /\ ~gone
    /\ Return(data)

PollReady ==
    /\ reading = "poll" /\ ~Full
    /\ line # <<>> \/ gone
    /\ reading' = "read"
    /\ UNCHANGED <<use, data, received>> /\ UNCHANGED linevars

\* poll or read fails: what has been read already is not returned.
Fail ==
    /\ reading \in {"poll", "read"} /\ ~Full
    /\ use.fails
    /\ Return(<<>>)

\* read; of a device that has gone away it returns 0.
Read ==
    LET n == Min({Len(line), use.size - Len(data)})
    IN  /\ reading = "read"
        /\ data' = data \o SubSeq(line, 1, n)
        /\ line' = SubSeq(line, n + 1, Len(line))
        /\ reading' = "poll"
        /\ UNCHANGED <<use, sent, unsent, gone, received>>

UartRead == ReadFull \/ PollTimeout \/ PollReady \/ Read

SerialNext ==
    \/ SendFrame \/ GoAway
    \/ \E n \in 1..Len(unsent) : Write(n)
    \/ InClean \/ ReadBegin \/ Fail
    \/ ReadFull \/ PollTimeout \/ PollReady \/ Read

SerialSpec == SerialInit /\ [][SerialNext]_serialvars /\ WF_serialvars(UartRead)

-----------------------------------------------------------------------------
(* Properties *)

SerialTypeOK ==
    /\ Len(data) <= use.size
    /\ reading \in {"no", "poll", "read", "lost"}
    /\ reading \in {"no", "lost"} => data = <<>>

\* What the host recovers is what was sent: a read that returns a whole frame
\* gives its payload, whatever bytes it is made of, if the index of the recovery
\* reaches the end of it; and a read that returns a piece - the buffer was full,
\* the line silent too early, an earlier read failed, the input cleared, the
\* write short - gives none.  Only a whole frame that is too long for the index
\* keeps the host in the recovery for ever.
FramesComeBack ==
    [][ LET whole == sent # <<>> /\ data = Escaping(Last(sent))
        IN  /\ received' # received =>
                whole /\ received' = Append(received, Last(sent))
            /\ whole /\ Len(data) <= IndexMod /\ (ReadFull \/ PollTimeout) =>
                received' # received
            /\ reading' = "lost" /\ reading # "lost" => whole /\ Len(data) > IndexMod
      ]_serialvars

\* uart_Read returns: pp_uart.c:225 says so of a line that is silent.
ReadReturns == (reading \in {"poll", "read"}) ~> (reading \notin {"poll", "read"})
=============================================================================
