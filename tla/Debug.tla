--------------------------------- MODULE Debug ---------------------------------
(***************************************************************************)
(* What a program prints for its developers: the printf engine (Printf),   *)
(* the lock around it on a single-chip computer (DebugLock) and the log    *)
(* files it goes to under linux (LogFiles).  The engine sees a stream, the *)
(* lock a piece of text and the files a length, none of them the others'   *)
(* state, so that a behaviour is one of a single part.                     *)
(***************************************************************************)
EXTENDS LogFiles

CONSTANTS
    Programs, CacheSize, StackCache,        \* of Printf
    Task, Main, Isr, Nobody, Habits         \* of DebugLock

VARIABLES
    part,   \* which of them this behaviour is about, never changes
    call, items, n, mem, cache, written, printed, before, todo,
    habit, sched, ready, mutex, owner, printBuf, console, at, wants, piece, prints

F == INSTANCE Printf
L == INSTANCE DebugLock

ASSUME DebugAssumption == L!LockAssumption /\ F!PrintfAssumption

printfvars == <<call, items, n, mem, cache, written, printed, before, todo>>
lockvars == <<habit, sched, ready, mutex, owner, printBuf, console, at, wants, piece, prints>>

\* A part this behaviour is not about stays in one of its initial states.
Some(set) == CHOOSE e \in set : TRUE

DebugInit ==
    /\ part \in {"files", "engine", "lock"}
    /\ part = "files" \/ (mode = Some(Modes) /\ max = Some(Maxs))
    /\ part = "engine" \/ todo = Some(Programs)
    /\ part = "lock" \/ habit = Some(Habits)
    /\ Init /\ F!PrintfInit /\ L!PrintInit

DebugNext ==
    \/ part = "files" /\ Next /\ UNCHANGED <<part, printfvars, lockvars>>
    \/ part = "engine" /\ F!PrintfNext /\ UNCHANGED <<part, vars, lockvars>>
    \/ part = "lock" /\ L!PrintNext /\ UNCHANGED <<part, vars, printfvars>>

\* The fairness of DebugLock: in the other parts nobody is inside a call of its.
DebugSpec ==
    DebugInit /\ [][DebugNext]_<<part, vars, printfvars, lockvars>> /\ L!PrintFairness

-----------------------------------------------------------------------------
(* Properties, besides those of LogFiles *)

DebugTypeOK == TypeOK /\ L!PrintTypeOK

\* The text of a call appears on the console in one piece.
LinesAreWhole == L!LinesAreWhole

\* Every call of a print ends.
PrintsEnd == L!PrintsEnd

\* A text printed to a buffer is cut to it, ended there and measured in full.
SnprintfContract == F!SnprintfContract

\* A text printed to a function arrives in order, by the end of each line.
LinesAreHandedOn == part = "engine" => F!LinesAreHandedOn

\* A number is printed as what it is or, without memory for its digits, not at all;
\* a double as what it is rounded to.
FieldsReadBack == F!FieldsReadBack

\* A double is rounded to the nearest number, of two the even one: part of the
\* above, for the run with the doubles it does not hold for.
FloatIsNearest == F!FloatIsNearest
=============================================================================
