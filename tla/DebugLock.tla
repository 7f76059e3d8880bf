------------------------------ MODULE DebugLock ------------------------------
(***************************************************************************)
(* Printing on the microcontroller: one buffer for the formatted text, and *)
(* a mutex around it that is created by whoever prints first.  A context   *)
(* that must not wait - main before the scheduler runs, an interrupt, a    *)
(* task that has suspended the scheduler - prints without the mutex.       *)
(*                                                                         *)
(* A call prints two characters, in one piece (debug_printf) or in two     *)
(* (debug_phex, which holds the mutex for all its pieces).                 *)
(***************************************************************************)
EXTENDS Integers, Sequences, FiniteSets

CONSTANTS
    Task,
    Main,       \* what runs before the scheduler is started
    Isr,        \* an interrupt: it runs to its end before a task goes on
    Nobody,
    Habits      \* ways of use: records with the fields of `habit`

\* Assumed where the constants get their values (Debug).
LockAssumption ==
    /\ Main \notin Task /\ Isr \notin Task \cup {Main} /\ Nobody \notin Task
    /\ Task \cap {"off", "running"} = {}
    /\ \A h \in Habits : h.silent \subseteq Task

Context == Task \cup {Main, Isr}
Nul == <<>>     \* the character that ends a text

VARIABLES
    habit,      \* one of Habits, never changes:
                \*   isr: interrupts print; silent: the tasks that only print
                \*   with the scheduler suspended; race: two tasks may print
                \*   first at the same time; prints: bound on the calls of a
                \*   task, the others call once
    sched,      \* "off", "running", or the task that has suspended it
    ready,      \* is_lock_init
    mutex,      \* debugSemaphore: 0, or the number of the mutex
    owner,      \* who holds each mutex ever created
    printBuf,
    console,    \* what PUTCHAR was given
    at,         \* where each context is
    wants,      \* the mutex it is waiting for
    piece,      \* <<length of a piece, pieces printed, characters of this one>>
    prints      \* the calls each context has begun

lockvars == <<ready, mutex, owner, wants>>
textvars == <<printBuf, console, piece>>
printvars == <<habit, sched, ready, mutex, owner, printBuf, console, at, wants,
               piece, prints>>

PrintInit ==
    /\ habit \in Habits
    /\ sched = "off"
    /\ ready = FALSE /\ mutex = 0 /\ owner = <<>>
    /\ printBuf = [i \in 1..3 |-> Nul] /\ console = <<>>
    /\ at = [c \in Context |-> "idle"]
    /\ wants = [c \in Context |-> 0]
    /\ piece = [c \in Context |-> <<2, 0, 0>>]
    /\ prints = [c \in Context |-> 0]

\* An interrupt stops everything else, a suspended scheduler the other tasks.
CanRun(c) ==
    IF at[Isr] # "idle" THEN c = Isr
    ELSE CASE c = Isr -> TRUE
           [] c = Main -> sched = "off"
           [] OTHER -> sched \in {"running", c}

\* cpu_is_task, as c finds it
CpuIsTask(c) == c \in Task /\ sched = "running"

Goto(c, from, to) ==
    /\ CanRun(c)
    /\ at[c] = from /\ at' = [at EXCEPT ![c] = to]

-----------------------------------------------------------------------------
(* The scheduler *)

StartScheduler ==
    /\ sched = "off" /\ at[Main] = "idle" /\ at[Isr] = "idle"
    /\ sched' = "running"
    /\ UNCHANGED <<habit, at, prints>> /\ UNCHANGED lockvars /\ UNCHANGED textvars

Resume(t) ==
    /\ sched = t /\ CanRun(t) /\ at[t] = "idle"
    /\ sched' = "running"
    /\ UNCHANGED <<habit, at, prints>> /\ UNCHANGED lockvars /\ UNCHANGED textvars

-----------------------------------------------------------------------------
(* debug_lock *)

Begin(c, len) ==
    /\ Goto(c, "idle", "lock")
    /\ prints[c] < IF c \in Task THEN habit.prints ELSE 1
    /\ prints' = [prints EXCEPT ![c] = @ + 1]
    /\ piece' = [piece EXCEPT ![c] = <<len, 0, 0>>]
    /\ UNCHANGED <<habit, printBuf, console>> /\ UNCHANGED lockvars

\* A call begins.  Without `race` the first print of a task ends before
\* another task's begins.
BeginPrint(c, len) ==
    /\ Begin(c, len)
    /\ c = Isr => habit.isr
    /\ c \in Task =>
        /\ c \in habit.silent => sched = c
        /\ \/ habit.race \/ ready
           \/ \A t \in Task : at[t] = "idle"
    /\ UNCHANGED sched

\* A task suspends the scheduler and prints.
BeginSilentPrint(t, len) ==
    /\ sched = "running" /\ t \in habit.silent
    /\ Begin(t, len)
    /\ sched' = t

Lock(c) ==
    /\ at[c] = "lock"
    /\ Goto(c, "lock", IF ~CpuIsTask(c) THEN "format"
                       ELSE IF ready THEN "ask" ELSE "create")
    /\ UNCHANGED <<habit, sched, prints>> /\ UNCHANGED lockvars /\ UNCHANGED textvars

\* xSemaphoreCreateMutex
CreateMutex(c) ==
    /\ Goto(c, "create", "created")
    /\ owner' = Append(owner, Nobody) /\ mutex' = Len(owner')
    /\ UNCHANGED <<habit, sched, prints, ready, wants>> /\ UNCHANGED textvars

MarkReady(c) ==
    /\ Goto(c, "created", "ask")
    /\ ready' = TRUE
    /\ UNCHANGED <<habit, sched, prints, mutex, owner, wants>> /\ UNCHANGED textvars

\* xSemaphoreTake: a task that waits waits for the mutex it was called with.
Ask(c) ==
    /\ Goto(c, "ask", "wait")
    /\ wants' = [wants EXCEPT ![c] = mutex]
    /\ UNCHANGED <<habit, sched, prints, ready, mutex, owner>> /\ UNCHANGED textvars

Take(c) ==
    /\ Goto(c, "wait", "format")
    /\ owner[wants[c]] = Nobody
    /\ owner' = [owner EXCEPT ![wants[c]] = c]
    /\ UNCHANGED <<habit, sched, prints, ready, mutex, wants>> /\ UNCHANGED textvars

-----------------------------------------------------------------------------
(* The section *)

\* vsnprintf, a character at a time, and the Nul at the end
Format(c) ==
    LET len == piece[c][1]
        n == piece[c][3]
        char == <<c, prints[c], len * piece[c][2] + n + 1>>
    IN  /\ at[c] = "format"
        /\ IF n < len
           THEN /\ Goto(c, "format", "format")
                /\ printBuf' = [printBuf EXCEPT ![n + 1] = char]
                /\ piece' = [piece EXCEPT ![c][3] = n + 1]
           ELSE /\ Goto(c, "format", "put")
                /\ printBuf' = [printBuf EXCEPT ![n + 1] = Nul]
                /\ piece' = [piece EXCEPT ![c][3] = 0]
        /\ UNCHANGED <<habit, sched, prints, console>> /\ UNCHANGED lockvars

\* (mutant) debug_phex gives the mutex back after a piece
PutLeaves(c) ==
    LET char == printBuf[piece[c][3] + 1]
        done == piece[c][2] + 1
    IN  /\ at[c] = "put"
        /\ IF char # Nul
           THEN /\ Goto(c, "put", "put")
                /\ console' = Append(console, char)
                /\ piece' = [piece EXCEPT ![c][3] = @ + 1]
                /\ UNCHANGED owner
           ELSE /\ Goto(c, "put", IF piece[c][1] * done < 2 THEN "lock" ELSE "unlock")
                /\ piece' = [piece EXCEPT ![c] = <<@[1], done, 0>>]
                /\ owner' = IF CpuIsTask(c) /\ piece[c][1] * done < 2
                            THEN [owner EXCEPT ![mutex] = Nobody] ELSE owner
                /\ UNCHANGED console
        /\ UNCHANGED <<habit, sched, prints, printBuf, ready, mutex, wants>>

\* debug_pus; after the last piece the section ends.
Put(c) ==
    LET char == printBuf[piece[c][3] + 1]
        done == piece[c][2] + 1
    IN  /\ at[c] = "put"
        /\ IF char # Nul
           THEN /\ Goto(c, "put", "put")
                /\ console' = Append(console, char)
                /\ piece' = [piece EXCEPT ![c][3] = @ + 1]
           ELSE /\ Goto(c, "put", IF piece[c][1] * done < 2 THEN "format" ELSE "unlock")
                /\ piece' = [piece EXCEPT ![c] = <<@[1], done, 0>>]
                /\ UNCHANGED console
        /\ UNCHANGED <<habit, sched, prints, printBuf>> /\ UNCHANGED lockvars

\* (mutant) the mutex is kept
UnlockForgets(c) ==
    /\ Goto(c, "unlock", "idle")
    /\ UNCHANGED <<habit, sched, prints>> /\ UNCHANGED lockvars /\ UNCHANGED textvars

\* debug_unlock gives the mutex the handle names now, whoever holds it.
Unlock(c) ==
    /\ Goto(c, "unlock", "idle")
    /\ owner' = IF CpuIsTask(c) THEN [owner EXCEPT ![mutex] = Nobody] ELSE owner
    /\ UNCHANGED <<habit, sched, prints, ready, mutex, wants>> /\ UNCHANGED textvars

Advance(c) ==
    \/ Lock(c) \/ CreateMutex(c) \/ MarkReady(c) \/ Ask(c) \/ Take(c)
    \/ Format(c) \/ Put(c) \/ Unlock(c)

PrintNext ==
    \/ StartScheduler
    \/ \E c \in Context, len \in 1..2 : BeginPrint(c, len)
    \/ \E t \in Task, len \in 1..2 : BeginSilentPrint(t, len)
    \/ \E t \in Task : Resume(t)
    \/ \E c \in Context : Advance(c)

-----------------------------------------------------------------------------
(* Properties *)

PrintTypeOK ==
    /\ sched \in {"off", "running"} \cup Task
    /\ mutex \in 0..Len(owner) /\ (ready => mutex > 0)
    /\ \A m \in 1..Len(owner) : owner[m] \in Task \cup {Nobody}
    /\ \A c \in Context : wants[c] \in 0..Len(owner)

\* The contexts nothing can interrupt while they print, and those that take
\* turns: the mutex keeps tasks apart as long as every print takes it and it was
\* there before the second task asked.
Undisturbed(c) ==
    \/ c = Isr
    \/ ~habit.isr /\ \/ c \in habit.silent \cup {Main}
                     \/ habit.silent = {}

\* A call that has ended has put its text on the console in one piece: no
\* character of another context in it, lost, or left over in the shared buffer.
LinesAreWhole ==
    \A c \in Context : Undisturbed(c) =>
        \A n \in 1..(IF at[c] = "idle" THEN prints[c] ELSE prints[c] - 1) :
            \E i \in 1..(Len(console) - 1) :
                console[i] = <<c, n, 1>> /\ console[i + 1] = <<c, n, 2>>

\* A call ends, interrupts and suspended schedulers notwithstanding: whoever
\* takes the mutex gives it back, although both ends of the section decide
\* for themselves whether there is a mutex to care about.
PrintsEnd == \A c \in Context : (at[c] # "idle") ~> (at[c] = "idle")

\* The scheduler runs every task that is ready, and a task that has suspended
\* it goes on to resume it.
PrintFairness ==
    /\ \A c \in Context : WF_printvars(Advance(c))
    /\ \A t \in Task : WF_printvars(Resume(t))

PrintSpec == PrintInit /\ [][PrintNext]_printvars /\ PrintFairness
=============================================================================
