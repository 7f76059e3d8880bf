------------------------------- MODULE LogFiles -------------------------------
(***************************************************************************)
(* The rotating log files of linux/debug.c: the directory, which survives  *)
(* the program, and what the program keeps of it.  The program may be      *)
(* killed between any two calls that change the directory, and started     *)
(* again with another number of files.                                     *)
(*                                                                         *)
(* A file is its number; the date in its name tells no two apart.  Prints  *)
(* are under the debug lock, so one of them is in progress at a time.      *)
(***************************************************************************)
EXTENDS Integers, FiniteSets

CONSTANTS
    Maxs,       \* the values max_log_file_num is given
    MaxSize,    \* max_log_file_size, 0 for none
    MaxPrint,   \* bound on what one call prints
    MaxId,      \* bound on the file numbers
    MaxLength,  \* bound on the length of the open file
    None,       \* an unused entry of the table; no open file
    Modes       \* what may happen to the program

ASSUME LogAssumption ==
    /\ Maxs \subseteq Nat \ {0}
    /\ MaxSize \in Nat /\ MaxPrint \in Nat \ {0} /\ MaxId \in Nat /\ MaxLength \in Nat
    /\ None \notin Nat

VARIABLES
    mode,       \* one of Modes, never changes
    dir,        \* the log files in the directory
    length,     \* history: the length of the open file
    pc,         \* where the program is
    then,       \* where it goes on after _log_new_log_create
    max,        \* log_current_file_max_num
    num,        \* log_current_file_write_num
    tab,        \* log_file_name_tab
    scan,       \* what readdir has still to return
    fp,         \* log_fp
    size,       \* log_current_file_size
    failed      \* history: fopen has failed since the file was opened

vars == <<mode, dir, length, pc, then, max, num, tab, scan, fp, size, failed>>

Id == 0 .. MaxId
Slot(f) == f % max

Init ==
    /\ mode \in Modes
    /\ dir = {} /\ length = 0
    /\ pc = "down" /\ then = "idle"
    /\ max \in Maxs /\ num = 0 /\ tab = <<>> /\ scan = {} /\ fp = None /\ size = 0
    /\ failed = FALSE

-----------------------------------------------------------------------------
(* dbg_init *)

\* _log_fp_init up to opendir; when a directory or memory is not to be had, the
\* program prints to stdout only.
Start ==
    /\ pc = "down"
    /\ max' \in (IF mode.sameMax THEN {max} ELSE Maxs)
    /\ pc' \in {"scan", "silent"}
    /\ num' = 0 /\ tab' = [s \in 0 .. max' - 1 |-> None] /\ scan' = dir
    /\ UNCHANGED <<mode, dir, length, then, fp, size, failed>>

\* (mutant) a second file of a slot is left where it is
ReadDirKeeps ==
    /\ pc = "scan"
    /\ \E f \in scan :
        /\ scan' = scan \ {f}
        /\ num' = IF f > num THEN f ELSE num
        /\ tab' = [tab EXCEPT ![Slot(f)] = IF @ = None THEN f ELSE @]
    /\ UNCHANGED <<mode, dir, length, pc, then, max, fp, size, failed>>

\* (mutant) the slots of the scan are not those of the rotation
ReadDirShifted ==
    /\ pc = "scan"
    /\ \E f \in scan :
        LET kept == tab[Slot(f + 1)]
            stays == kept = None \/ kept > f
        IN  /\ scan' = scan \ {f}
            /\ num' = IF f > num THEN f ELSE num
            /\ tab' = IF stays THEN [tab EXCEPT ![Slot(f + 1)] = f] ELSE tab
            /\ dir' = dir \ (IF stays THEN {kept} ELSE {f})
    /\ UNCHANGED <<mode, length, pc, then, max, fp, size, failed>>

\* One name that readdir returns, in any order.  Of two files in a slot the one
\* with the smaller number is kept.
ReadDir ==
    /\ pc = "scan"
    /\ \E f \in scan :
        LET kept == tab[Slot(f)]
            stays == kept = None \/ kept > f
        IN  /\ scan' = scan \ {f}
            /\ num' = IF f > num THEN f ELSE num
            /\ tab' = IF stays THEN [tab EXCEPT ![Slot(f)] = f] ELSE tab
            /\ dir' = dir \ (IF stays THEN {kept} ELSE {f})
    /\ UNCHANGED <<mode, length, pc, then, max, fp, size, failed>>

-----------------------------------------------------------------------------
(* _log_new_log_create *)

\* fopen of file f, after which the program goes on at next; or it fails, and
\* the program goes on at other.
Create(f, next, other) ==
    \/ /\ f \in Id
       /\ dir' = dir \cup {f}
       /\ num' = f /\ pc' = "created" /\ then' = next
       /\ UNCHANGED failed
    \/ /\ pc' = other /\ failed' = TRUE
       /\ num' = f
       /\ UNCHANGED <<dir, then>>

\* (mutant) the new name is stored before the old file is removed
CommitSwapped ==
    /\ pc = "created"
    /\ dir' = dir \ (IF tab[Slot(num)] = None THEN {} ELSE {num})
    /\ tab' = [tab EXCEPT ![Slot(num)] = num]
    /\ fp' = num /\ num' = num + 1
    /\ size' = 0 /\ length' = 0
    /\ pc' = then /\ failed' = FALSE
    /\ UNCHANGED <<mode, then, max, scan>>

\* (mutant) the name of the new file is not stored
CommitForgets ==
    /\ pc = "created"
    /\ dir' = dir \ {tab[Slot(num)]}
    /\ fp' = num /\ num' = num + 1
    /\ size' = 0 /\ length' = 0
    /\ pc' = then /\ failed' = FALSE
    /\ UNCHANGED <<mode, tab, then, max, scan>>

\* Close the old file, remove the one whose slot the new one takes.
Commit ==
    /\ pc = "created"
    /\ dir' = dir \ {tab[Slot(num)]}
    /\ tab' = [tab EXCEPT ![Slot(num)] = num]
    /\ fp' = num /\ num' = num + 1
    /\ size' = 0 /\ length' = 0
    /\ pc' = then /\ failed' = FALSE
    /\ UNCHANGED <<mode, then, max, scan>>

\* (mutant) the new file has the greatest number found
FirstFileSame ==
    /\ pc = "scan" /\ scan = {}
    /\ Create(num, "idle", "silent")
    /\ UNCHANGED <<mode, length, max, tab, scan, fp, size>>

\* The end of _log_fp_init; without a file, stdout only.
FirstFile ==
    /\ pc = "scan" /\ scan = {}
    /\ Create(num + 1, "idle", "silent")
    /\ UNCHANGED <<mode, length, max, tab, scan, fp, size>>

-----------------------------------------------------------------------------
(* dbg_raw, vdbg_raw, dbg_hex *)

\* _log_fp_refresh: the file is too old ...
RefreshByTime ==
    /\ pc = "idle"
    /\ \/ Create(num, "bysize", "bysize")
       \/ pc' = "bysize" /\ UNCHANGED <<dir, then, num, failed>>
    /\ UNCHANGED <<mode, length, max, tab, scan, fp, size>>

TooLong == MaxSize > 0 /\ size > MaxSize

\* ... or too long.
RefreshBySize ==
    /\ pc = "bysize"
    /\ IF TooLong
       THEN Create(num, "print", "print")
       ELSE pc' = "print" /\ UNCHANGED <<dir, then, num, failed>>
    /\ UNCHANGED <<mode, length, max, tab, scan, fp, size>>

\* (mutant) the size is what was last printed
WriteForgets ==
    /\ pc = "print"
    /\ \E n \in 1 .. MaxPrint :
        /\ length + n <= MaxLength
        /\ length' = length + n
        /\ size' = n
    /\ pc' = "idle"
    /\ UNCHANGED <<mode, dir, then, max, num, tab, scan, fp, failed>>

\* log_write, for all that one call prints.
Write ==
    /\ pc = "print"
    /\ \E n \in 1 .. MaxPrint :
        /\ length + n <= MaxLength
        /\ length' = length + n
        /\ size' = size + n
    /\ pc' = "idle"
    /\ UNCHANGED <<mode, dir, then, max, num, tab, scan, fp, failed>>

-----------------------------------------------------------------------------
\* dbg_exit, a crash or a kill; what is in the directory stays.
Stop ==
    /\ pc # "down"
    /\ mode.killed \/ pc \in {"idle", "silent"}
    /\ pc' = "down" /\ then' = "idle"
    /\ num' = 0 /\ tab' = <<>> /\ scan' = {} /\ fp' = None
    /\ size' = 0 /\ length' = 0 /\ failed' = FALSE
    /\ UNCHANGED <<mode, dir, max>>

Next ==
    \/ Start \/ ReadDir \/ FirstFile
    \/ RefreshByTime \/ RefreshBySize \/ Commit \/ Write
    \/ Stop

Spec == Init /\ [][Next]_vars

-----------------------------------------------------------------------------
(* Properties *)

Settled == pc \in {"idle", "bysize", "print"}

TypeOK ==
    /\ mode \in Modes
    /\ dir \subseteq Id /\ length \in 0 .. MaxLength
    /\ pc \in {"down", "scan", "created", "idle", "bysize", "print", "silent"}
    /\ then \in {"idle", "bysize", "print"}
    /\ max \in Maxs /\ num \in 0 .. MaxId + 1
    /\ \A s \in DOMAIN tab : tab[s] \in (Id \cap dir) \cup {None} /\ (tab[s] # None => Slot(tab[s]) = s)
    /\ scan \subseteq dir
    /\ fp \in Id \cup {None}
    /\ size \in Nat /\ failed \in BOOLEAN

\* "The greatest number of log files": between two steps of a print there are no
\* more of them, whatever an earlier run of the program, with more files or
\* killed between creating one and removing another, has left behind.
AtMostMax == Settled => Cardinality(dir) <= max

\* The file being written is in the directory and is the newest one: a rotation
\* never removes it.
OpenIsNewest == Settled => fp \in dir /\ \A f \in dir : f <= fp

\* A new file has a number above all that are in the directory, those of earlier
\* runs included: fopen with "w" never truncates a log.
NumbersAreFresh ==
    [][(pc # "created" /\ pc' = "created") => \A f \in dir : f < num']_vars

\* A file is longer than its limit by at most what one call prints, as long as
\* new ones can be created.
FilesAreBounded ==
    MaxSize > 0 /\ Settled /\ ~failed => length <= MaxSize + MaxPrint

\* The logs that are kept are the latest ones without a gap, when every run has
\* the same number of files and none is killed in the middle of a rotation.
LatestAreKept ==
    mode.sameMax /\ ~mode.killed /\ pc # "created" => \A f, g \in dir : f .. g \subseteq dir

\* "Remove the old log": of two files, the one with the greater number is never
\* removed before the other.
OldestGoesFirst == [][(\A f \in dir \ dir', g \in dir' : f < g)]_vars
=============================================================================
