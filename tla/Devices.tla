-------------------------------- MODULE Devices --------------------------------
(***************************************************************************)
(* A program and the devices around it: the register map it answers for    *)
(* (LogicReg), the ring buffer it uses in another device over such a map   *)
(* (RegWrCb), the serial port and the frames on it (Serial, SerialPort),   *)
(* and the timing of its main loop (LoopPool).  None of them touches the   *)
(* state of another, so that a behaviour is one of a single part.          *)
(***************************************************************************)
EXTENDS LogicReg

CONSTANTS
    LinkCapacity, LinkCountSize, W16, MaxByte, Modes,   \* of RegWrCb
    NoPayload, IndexMod, Endless, Uses,                 \* of Serial
    Speed, NoSpeed, Closed,                             \* of SerialPort
    Tick, Tools, MaxTime, Never                         \* of LoopPool

VARIABLES
    part,   \* which of them this behaviour is about, never changes
    mode, link_ring, made, op, size, len, link_ret, got, seen, peeped,
    use, sent, unsent, line, gone, reading, data, received,
    termios, fds, opened,
    tool, time, timer, due, mark, origin, polled, called, bounce, samples, shown

C == INSTANCE RegWrCb WITH
    Capacity <- LinkCapacity, CountSize <- LinkCountSize, ring <- link_ring, ret <- link_ret
S == INSTANCE Serial
P == INSTANCE SerialPort
T == INSTANCE LoopPool WITH seen <- samples

ASSUME DevicesAssumption ==
    /\ C!LinkAssumption /\ S!LineAssumption /\ T!LoopAssumption
    /\ Closed \notin P!Asked

linkvars == <<mode, link_ring, made, op, size, len, link_ret, got, seen, peeped>>
linevars == <<use, sent, unsent, line, gone, reading, data, received>>
portvars == <<termios, fds, opened>>
loopvars == <<tool, time, timer, due, mark, origin, polled, called, bounce, samples, shown>>

\* A part this behaviour is not about stays in one of its initial states.
Some(set) == CHOOSE e \in set : TRUE

DevicesInit ==
    /\ part \in {"map", "link", "line", "port", "loop"}
    /\ Init
    /\ C!Init /\ (part # "link" => mode = Some(Modes))
    /\ S!SerialInit /\ (part # "line" => use = Some(Uses))
    /\ P!PortInit /\ (part # "port" => termios = [speed |-> Some(Speed), csize |-> 8, flags |-> {}])
    /\ T!LoopInit /\ (part # "loop" => tool = Some(Tools))

DevicesNext ==
    \/ part = "map" /\ Next /\ UNCHANGED <<part, linkvars, linevars, portvars, loopvars>>
    \/ part = "link" /\ C!Next /\ UNCHANGED <<part, vars, linevars, portvars, loopvars>>
    \/ part = "line" /\ S!SerialNext /\ UNCHANGED <<part, vars, linkvars, portvars, loopvars>>
    \/ part = "port" /\ P!PortNext /\ UNCHANGED <<part, vars, linkvars, linevars, loopvars>>
    \/ part = "loop" /\ T!LoopNext /\ UNCHANGED <<part, vars, linkvars, linevars, portvars>>

devicevars == <<part, vars, linkvars, linevars, portvars, loopvars>>

\* As in Serial, a uart_Read that can go on does.
DevicesSpec == DevicesInit /\ [][DevicesNext]_devicevars /\ WF_linevars(S!UartRead)

-----------------------------------------------------------------------------
(* Properties, besides ZeroMeansUnchanged of LogicReg *)

DevicesTypeOK ==
    /\ TypeOK /\ EntriesAreUnique /\ AcceptedInside
    /\ C!TypeOK /\ S!SerialTypeOK /\ T!LoopTypeOK

\* The size the host asked for is still good enough when it is used.
NeverRefused == C!NeverRefused

\* What the producer put into the ring is there or with the consumer, whatever
\* access failed.
NothingLost == C!NothingLost

\* The ring never skips a byte, and no element in it is torn.
RingIsSound == C!RingIsSound

\* A call over the bus has filled as much of the buffer as it reports.
ReportedIsDelivered == C!ReportedIsDelivered

\* What is recovered from the serial line is what was sent, and it is as long as
\* the index of the recovery reaches.
FramesComeBack == S!FramesComeBack

\* uart_Read comes back.
ReadReturns == S!ReadReturns

\* An open leaves the device as asked, or no descriptor.
OpenedAsAsked == P!OpenedAsAsked

\* Timers, periodic calls and debouncing follow the real time across the wrap of
\* the clock.
ToolsKeepTime == T!ToolsKeepTime
=============================================================================
