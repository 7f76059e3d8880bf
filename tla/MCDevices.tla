------------------------------ MODULE MCDevices ------------------------------
(* Devices for TLC. *)
EXTENDS Devices, TLC

CONSTANTS wr, inner, ro, cb

\* Groups that nest, overlap and touch, in 12 addresses
MCGroup == {wr, inner, ro, cb}
MCType == wr :> "WR" @@ inner :> "WR" @@ ro :> "RO" @@ cb :> "CB"
MCStart == wr :> 1 @@ inner :> 2 @@ ro :> 2 @@ cb :> 4
MCEnd == wr :> 3 @@ inner :> 3 @@ ro :> 4 @@ cb :> 4

\* The ways to use a ring over the bus
Mode(producer, ops, sizes, gran, careful, mayClear) ==
    [producer |-> producer, ops |-> ops, sizes |-> sizes, gran |-> gran,
     careful |-> careful, mayClear |-> mayClear]

\* The pattern the comments recommend; 17 is 1 in a uint16_t of 16 values.
Peeping == Mode("device", {"Size", "Peep", "ReadAir"}, {1, 2, 3, 17}, 1, TRUE, FALSE)
\* Every reading call, against a device that starts over.
Reading == Mode("device", {"Size", "Read", "GranRead", "Peep", "ReadAir", "Clean"}, {0, 1, 2}, 2, FALSE, TRUE)
Writing == Mode("host", {"FreeSize", "Write"}, {1, 2, 3}, 1, FALSE, FALSE)
\* Two-byte elements through three free bytes.
Elementwise == Mode("host", {"GranWrite", "Clean"}, {1, 2, 3}, 2, FALSE, TRUE)
ElementReads == Mode("device", {"GranRead"}, {1, 2, 3}, 2, FALSE, FALSE)
MCModes == {Peeping, Reading, Writing, Elementwise, ElementReads}

\* The ways to use a serial line
Use(payloads, frames, buf, fails, hangs) ==
    [payloads |-> payloads, frames |-> frames, size |-> buf, fails |-> fails, hangs |-> hangs]
Byte == {165, 90, 170, 85, 1, 2}    \* what is escaped, and what it becomes
Short == {<<>>} \cup {<<a>> : a \in Byte} \cup {<<a, b>> : a \in Byte, b \in Byte}
\* Every frame of up to two bytes, in a buffer that is big enough and in one
\* that is not; frames after one another, with failures, also in small pieces.
\* The index of the recovery reaches the end of a frame of five bytes, so that the
\* six of two special ones are too many; Long has ordinary bytes and an escape
\* where it starts over.
Long == {<<1, 2, 1>>, <<1, 2, 1, 2>>, <<1, 2, 1, 165>>}
Whole == Use(Short \cup Long, 1, 8, FALSE, FALSE)
Cut == Use(Short, 1, 4, FALSE, FALSE)
Failing == Use({<<>>, <<90>>, <<2, 165>>}, 2, 8, TRUE, FALSE)
Pieces == Use({<<>>, <<85>>, <<170, 1>>}, 2, 3, TRUE, FALSE)
MCUses == {Whole, Cut, Failing, Pieces}
\* The device may go away while it is read from.
HangUp == {Use({<<1>>}, 1, 4, FALSE, TRUE)}

\* The tools of the loop, with clocks that wrap soon
Tool(u, boot, a, b) == [use |-> u, boot |-> boot, a |-> a, b |-> b]
MCTools ==
    {Tool("timer", boot, a, 0) : boot \in {0, 6}, a \in {0, 3}}
    \cup {Tool("call", boot, a, b) : boot \in {0, 1, 4, 7}, a \in {2, 3}, b \in {0, 1}}
    \cup {Tool("bounce", 6, 2, 0), Tool("bounce", 0, 4, 0)}
=============================================================================
