------------------------------ MODULE SerialPort ------------------------------
(***************************************************************************)
(* uart_Open and uart_Close: the settings of a device outlive those who    *)
(* open it.  uart_Open changes them in two steps, each a read, a change    *)
(* and a write of the whole record, and may fail between the two.          *)
(***************************************************************************)
EXTENDS Integers, FiniteSets

CONSTANTS
    Speed,      \* the speeds of baudRate_tab that are tried
    NoSpeed,    \* one that is not in the table
    Closed

\* What a caller may ask for, the unsupported values included
Asked == [speed: Speed \cup {NoSpeed}, databits: {7, 8, 9},
          stopbits: 1..3, parity: {"n", "o", "e", "?"}]

Flag == {"PARENB", "PARODD", "INPCK", "CSTOPB", "ICANON", "OPOST", "IXON"}

VARIABLES
    termios,    \* the settings of the device
    fds,        \* the descriptors that are open
    opened      \* what the owner of the descriptor has asked for, or Closed

portvars == <<termios, fds, opened>>

\* The device as somebody else has left it
PortInit ==
    /\ termios \in [speed: Speed, csize: {7, 8}, flags: {{}, Flag}]
    /\ fds = 0 /\ opened = Closed

\* _set_speed
SetSpeed(a) == [termios EXCEPT !.speed = a.speed]

\* (mutant) no parity leaves the check of the input on
ParityFlagsKept(flags, parity) ==
    CASE parity = "n" -> flags \ {"PARENB"}
      [] parity = "o" -> flags \cup {"PARODD", "PARENB", "INPCK"}
      [] parity = "e" -> (flags \ {"PARODD"}) \cup {"PARENB", "INPCK"}

ParityFlags(flags, parity) ==
    CASE parity = "n" -> flags \ {"PARENB", "INPCK"}
      [] parity = "o" -> flags \cup {"PARODD", "PARENB", "INPCK"}
      [] parity = "e" -> (flags \ {"PARODD"}) \cup {"PARENB", "INPCK"}

\* _set_parity, of the settings t
SetParity(t, a) ==
    LET parity == ParityFlags(t.flags, a.parity)
        stop == IF a.stopbits = 2 THEN parity \cup {"CSTOPB"} ELSE parity \ {"CSTOPB"}
    IN  [t EXCEPT !.csize = a.databits, !.flags = stop \ {"ICANON", "OPOST", "IXON"}]

ParityOk(a) == a.databits \in 5..8 /\ a.parity # "?" /\ a.stopbits \in 1..2

\* uart_Open; the descriptor is closed again when a value is refused, the speed
\* has been set by then.
Open(a) ==
    /\ opened = Closed
    /\ IF a.speed # NoSpeed /\ ParityOk(a)
       THEN termios' = SetParity(SetSpeed(a), a) /\ fds' = fds + 1 /\ opened' = a
       ELSE /\ termios' = IF a.speed # NoSpeed THEN SetSpeed(a) ELSE termios
            /\ UNCHANGED <<fds, opened>>

\* uart_Close
Close ==
    /\ opened # Closed
    /\ fds' = fds - 1 /\ opened' = Closed
    /\ UNCHANGED termios

PortNext ==
    \/ \E a \in Asked : Open(a)
    \/ Close

PortSpec == PortInit /\ [][PortNext]_portvars

-----------------------------------------------------------------------------
(* Properties *)

\* Whatever the device was set to, by others or by an open that failed half-way,
\* a successful open leaves it as asked: no parity means that none is checked
\* either, and the bytes pass unchanged.  And a failed one leaves no descriptor.
OpenedAsAsked ==
    /\ fds = IF opened = Closed THEN 0 ELSE 1
    /\ opened # Closed =>
        /\ termios.speed = opened.speed /\ termios.csize = opened.databits
        /\ ("CSTOPB" \in termios.flags) = (opened.stopbits = 2)
        /\ ("PARENB" \in termios.flags) = (opened.parity # "n")
        /\ ("INPCK" \in termios.flags) = (opened.parity # "n")
        /\ opened.parity # "n" => (("PARODD" \in termios.flags) = (opened.parity = "o"))
        /\ termios.flags \cap {"ICANON", "OPOST", "IXON"} = {}
=============================================================================
