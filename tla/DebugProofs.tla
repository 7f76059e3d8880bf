---------------------------- MODULE DebugProofs ----------------------------
(***************************************************************************)
(* What Debug promises, for every value of its constants:                  *)
(*   - the log files, for every number and size of files, whenever the     *)
(*     program is killed and however it is started again (Typed, Limited   *)
(*     and Latest);                                                        *)
(*   - the lock, for every number of tasks and of prints (LockTypes,       *)
(*     Turns, OneByOne and TextsAreWhole);                                 *)
(*   - the streams of the printf engine, for every sequence of calls,      *)
(*     directives, buffer sizes and texts (EngineInv), after the lemmas    *)
(*     that a directive always prints a text;                              *)
(*   - what the engine makes of numbers and doubles: the digits have the   *)
(*     value (DigitsReadBack), and what is put around them can be told     *)
(*     from them (FramedBy).                                               *)
(* The theorems about the files are about Spec, which FilesPart shows      *)
(* DebugSpec to imply; the others are about DebugSpec.                     *)
(***************************************************************************)
EXTENDS Debug, Sequences, SequenceTheorems, FiniteSetTheorems, WellFoundedInduction, TLAPS

Entries == 0 .. max - 1
Listed(f) == \E s \in Entries : tab[s] = f
EntriesUpTo(top) == \A s \in Entries : tab[s] # None => tab[s] <= top

Types ==
    /\ pc \in {"down", "scan", "created", "idle", "bysize", "print", "silent"}
    /\ then \in {"idle", "bysize", "print"}
    /\ max \in Maxs /\ num \in Nat
    /\ dir \subseteq Id /\ scan \subseteq Id
    /\ pc # "down" => tab \in [Entries -> Id \cup {None}]

\* While the directory is scanned: what has been read is counted and listed.
Scanning == pc = "scan" =>
    /\ \A f \in dir : f \in scan \/ (f <= num /\ Listed(f))
    /\ EntriesUpTo(num)

\* Between fopen and the update of the table: the new file is the only one that
\* is not listed, and the newest.
Creating == pc = "created" =>
    /\ num \in dir
    /\ \A f \in dir : f = num \/ (f < num /\ Listed(f))
    /\ EntriesUpTo(num - 1)

Printing == Settled =>
    /\ fp \in dir /\ num = fp + 1
    /\ \A f \in dir : f < num /\ Listed(f)
    /\ EntriesUpTo(num - 1)

Inv == Types /\ Scanning /\ Creating /\ Printing

-----------------------------------------------------------------------------
(* The invariant is inductive. *)

\* A file has a slot of the table.
LEMMA SlotIsEntry ==
    ASSUME NEW f \in Nat, max \in Maxs
    PROVE  Slot(f) \in Entries /\ max \in Nat \ {0}
  <1>1. max \in Nat \ {0}
    BY LogAssumption
  <1>2. (f % max) \in 0 .. max - 1
    BY <1>1, SMT
  <1> QED
    BY <1>1, <1>2 DEF Slot, Entries

LEMMA InvInit == Init => Inv
  BY SMT DEF Init, Inv, Types, Scanning, Creating, Printing, Settled

\* An empty table lists nothing and every file is still to be read.
LEMMA InvStart == Inv /\ Start => Inv'
  <1> SUFFICES ASSUME Inv, Start PROVE Inv'
    OBVIOUS
  <1>1. max' \in Maxs /\ tab' = [s \in 0 .. max' - 1 |-> None] /\ num' = 0
        /\ scan' = dir /\ dir' = dir /\ then' = then /\ pc' \in {"scan", "silent"}
    BY DEF Start, Inv, Types
  <1>2. Types'
    BY <1>1, SMT DEF Inv, Types, Entries
  <1>3. Scanning'
    BY <1>1, SMT DEF Scanning, EntriesUpTo, Entries
  <1>4. Creating' /\ Printing'
    BY <1>1 DEF Creating, Printing, Settled
  <1> QED
    BY <1>2, <1>3, <1>4 DEF Inv

\* A file that is read is listed or removed, and so is the one it displaces.
LEMMA InvReadDir == Inv /\ ReadDir => Inv'
  <1> SUFFICES ASSUME Inv, ReadDir PROVE Inv'
    OBVIOUS
  <1>1. PICK f \in scan :
            /\ scan' = scan \ {f}
            /\ num' = IF f > num THEN f ELSE num
            /\ tab' = IF tab[Slot(f)] = None \/ tab[Slot(f)] > f
                      THEN [tab EXCEPT ![Slot(f)] = f] ELSE tab
            /\ dir' = dir \ (IF tab[Slot(f)] = None \/ tab[Slot(f)] > f
                              THEN {tab[Slot(f)]} ELSE {f})
    BY DEF ReadDir
  <1>2. pc = "scan" /\ pc' = "scan" /\ then' = then /\ max' = max
    BY DEF ReadDir
  <1>3. /\ f \in Id /\ f \in Nat /\ num \in Nat /\ max \in Maxs
        /\ dir \subseteq Id /\ scan \subseteq Id
        /\ tab \in [Entries -> Id \cup {None}]
    BY <1>1, <1>2, LogAssumption DEF Inv, Types, Id
  <1>4. Slot(f) \in Entries
    BY <1>3, SlotIsEntry
  <1>5. num' \in Nat /\ f <= num' /\ num <= num'
    BY <1>1, <1>3, SMT
  <1>6. tab' \in [Entries -> Id \cup {None}] /\ Entries' = Entries
    BY <1>1, <1>2, <1>3 DEF Entries
  <1>7. Types'
    BY <1>1, <1>2, <1>3, <1>5, <1>6 DEF Inv, Types
  <1>8. EntriesUpTo(num)
    BY <1>2 DEF Inv, Scanning
  <1>9. EntriesUpTo(num)'
    <2> SUFFICES ASSUME NEW s \in Entries, tab'[s] # None PROVE tab'[s] <= num'
      BY <1>6 DEF EntriesUpTo
    <2>1. CASE tab'[s] = f
      BY <2>1, <1>5
    <2>2. CASE tab'[s] # f
      <3>1. tab'[s] = tab[s]
        BY <2>2, <1>1, <1>3, <1>4
      <3>2. tab[s] <= num /\ tab[s] \in Nat
        BY <3>1, <1>3, <1>8 DEF EntriesUpTo, Id
      <3> QED
        BY <3>1, <3>2, <1>3, <1>5, SMT
    <2> QED
      BY <2>1, <2>2
  <1>10. ASSUME NEW g \in dir' PROVE g \in scan' \/ (g <= num' /\ Listed(g)')
    <2>1. g \in dir /\ g \in Nat
      BY <1>1, <1>3 DEF Id
    <2>2. CASE g = f
      <3>1. tab[Slot(f)] = None \/ tab[Slot(f)] > f
        BY <2>2, <1>1
      <3>2. tab'[Slot(f)] = f
        BY <3>1, <1>1, <1>3, <1>4
      <3> QED
        BY <2>2, <3>2, <1>4, <1>5, <1>6 DEF Listed
    <2>3. CASE g # f /\ g \in scan
      BY <2>3, <1>1
    <2>4. CASE g # f /\ g \notin scan
      <3>1. g <= num /\ Listed(g)
        BY <2>1, <2>4, <1>2 DEF Inv, Scanning
      <3>2. PICK s \in Entries : tab[s] = g
        BY <3>1 DEF Listed
      <3>3. tab'[s] = g
        BY <3>2, <2>4, <1>1, <1>3, <1>4
      <3>4. g <= num'
        BY <3>1, <2>1, <1>3, <1>5, SMT
      <3> QED
        BY <3>3, <3>4, <1>6 DEF Listed
    <2> QED
      BY <2>2, <2>3, <2>4
  <1>11. Scanning'
    BY <1>9, <1>10 DEF Scanning
  <1>12. Creating' /\ Printing'
    BY <1>2 DEF Creating, Printing, Settled
  <1> QED
    BY <1>7, <1>11, <1>12 DEF Inv

\* All files are listed and below n, or in the case of no success as before.
LEMMA InvFirstFile == Inv /\ FirstFile => Inv'
  <1> SUFFICES ASSUME Inv, FirstFile PROVE Inv'
    OBVIOUS
  <1>1. /\ pc = "scan" /\ scan = {} /\ max' = max /\ tab' = tab /\ scan' = scan
        /\ num' = num + 1
    BY DEF FirstFile, Create
  <1>2. /\ num \in Nat /\ dir \subseteq Id /\ EntriesUpTo(num)
        /\ \A f \in dir : f <= num /\ Listed(f)
    BY <1>1 DEF Inv, Types, Scanning
  <1>3. num' - 1 = num /\ num' \in Nat
    BY <1>1, <1>2, SMT
  <1>4. EntriesUpTo(num' - 1)
    BY <1>2, <1>3
  <1>5. EntriesUpTo(num - 1)' <=> EntriesUpTo(num' - 1)
    BY <1>1 DEF EntriesUpTo, Entries
  <1>6. \A f : Listed(f) <=> Listed(f)'
    BY <1>1 DEF Listed, Entries
  <1>7. CASE pc' = "created" /\ num' \in Id /\ dir' = dir \cup {num'} /\ then' = "idle"
    <2>1. Types'
      BY <1>1, <1>2, <1>3, <1>7 DEF Inv, Types, Entries
    <2>2. \A f \in dir' : f = num' \/ (f < num' /\ Listed(f)')
      BY <1>1, <1>2, <1>6, <1>7, SMT DEF Id
    <2>3. Creating'
      BY <2>2, <1>4, <1>5, <1>7 DEF Creating
    <2>4. Scanning' /\ Printing'
      BY <1>7 DEF Scanning, Printing, Settled
    <2> QED
      BY <2>1, <2>3, <2>4 DEF Inv
  <1>8. CASE pc' = "silent" /\ dir' = dir /\ then' = then
    <2>1. Types'
      BY <1>1, <1>2, <1>3, <1>8 DEF Inv, Types, Entries
    <2> QED
      BY <2>1, <1>8 DEF Inv, Scanning, Creating, Printing, Settled
  <1> QED
    BY <1>1, <1>7, <1>8 DEF FirstFile, Create

\* A refresh goes on, or adds a file above all others.
LEMMA InvRefresh == Inv /\ (RefreshByTime \/ RefreshBySize) => Inv'
  <1> SUFFICES ASSUME Inv, RefreshByTime \/ RefreshBySize PROVE Inv'
    OBVIOUS
  <1>1. /\ Settled /\ max' = max /\ tab' = tab /\ scan' = scan /\ num' = num /\ fp' = fp
    BY DEF RefreshByTime, RefreshBySize, Create, Settled
  <1>2. /\ num \in Nat /\ dir \subseteq Id /\ EntriesUpTo(num - 1)
        /\ \A f \in dir : f < num /\ Listed(f)
        /\ fp \in dir /\ num = fp + 1
    BY <1>1 DEF Inv, Types, Printing
  <1>3. EntriesUpTo(num - 1)' /\ \A f : Listed(f) <=> Listed(f)'
    BY <1>1, <1>2 DEF EntriesUpTo, Listed, Entries
  <1>4. CASE pc' = "created" /\ num \in Id /\ dir' = dir \cup {num} /\ then' \in {"bysize", "print"}
    <2>1. Types'
      BY <1>1, <1>2, <1>4 DEF Inv, Types, Entries, Settled
    <2>2. Creating'
      BY <1>1, <1>2, <1>3, <1>4 DEF Creating
    <2>3. Scanning' /\ Printing'
      BY <1>4 DEF Scanning, Printing, Settled
    <2> QED
      BY <2>1, <2>2, <2>3 DEF Inv
  <1>5. CASE pc' \in {"bysize", "print"} /\ dir' = dir /\ then' = then
    <2>1. Types'
      BY <1>1, <1>2, <1>5 DEF Inv, Types, Entries, Settled
    <2>2. Printing'
      BY <1>1, <1>2, <1>3, <1>5 DEF Printing
    <2> QED
      BY <2>1, <2>2, <1>5 DEF Inv, Scanning, Creating
  <1> QED
    BY <1>1, <1>4, <1>5 DEF RefreshByTime, RefreshBySize, Create

\* The file that loses its place in the table leaves the directory, and it is
\* not the new one.
LEMMA InvCommit == Inv /\ Commit => Inv'
  <1> SUFFICES ASSUME Inv, Commit PROVE Inv'
    OBVIOUS
  <1> DEFINE old == tab[Slot(num)]
  <1>1. /\ pc = "created" /\ pc' = then /\ then' = then /\ max' = max /\ scan' = scan
        /\ dir' = dir \ {old} /\ tab' = [tab EXCEPT ![Slot(num)] = num]
        /\ fp' = num /\ num' = num + 1
    BY DEF Commit
  <1>2. /\ num \in Nat /\ dir \subseteq Id /\ max \in Maxs /\ then \in {"idle", "bysize", "print"}
        /\ tab \in [Entries -> Id \cup {None}] /\ scan \subseteq Id
    BY <1>1 DEF Inv, Types
  <1>3. /\ num \in dir /\ num \in Id /\ EntriesUpTo(num - 1)
        /\ \A f \in dir : f = num \/ (f < num /\ Listed(f))
    BY <1>1, <1>2 DEF Inv, Creating
  <1>4. Slot(num) \in Entries /\ Entries' = Entries
    BY <1>1, <1>2, SlotIsEntry DEF Entries
  <1>5. old # num
    <2>1. old = None \/ (old \in Nat /\ old <= num - 1)
      BY <1>2, <1>3, <1>4 DEF EntriesUpTo, Id
    <2> QED
      BY <2>1, <1>2, LogAssumption, SMT
  <1> HIDE DEF old
  <1>6. Types'
    <2>1. tab' \in [Entries' -> Id \cup {None}]
      BY <1>1, <1>2, <1>3, <1>4
    <2>2. num' \in Nat /\ max' \in Maxs /\ dir' \subseteq Id /\ scan' \subseteq Id
      BY <1>1, <1>2, SMT
    <2>3. then' \in {"idle", "bysize", "print"}
          /\ pc' \in {"down", "scan", "created", "idle", "bysize", "print", "silent"}
      BY <1>1, <1>2
    <2> QED
      BY <2>1, <2>2, <2>3 DEF Types
  <1>7. num \in dir'
    BY <1>1, <1>3, <1>5
  <1>8. ASSUME NEW f \in dir' PROVE f < num' /\ Listed(f)'
    <2>1. f \in dir /\ f # old /\ f \in Nat
      BY <1>1, <1>2 DEF Id
    <2>2. CASE f = num
      <3>1. tab'[Slot(num)] = num
        BY <1>1, <1>2, <1>4
      <3> QED
        BY <2>2, <3>1, <1>1, <1>2, <1>4 DEF Listed
    <2>3. CASE f # num
      <3>1. PICK s \in Entries : tab[s] = f
        BY <2>1, <2>3, <1>3 DEF Listed
      <3>2. tab'[s] = f
        BY <3>1, <2>1, <1>1, <1>2, <1>4 DEF old
      <3>3. f < num
        BY <2>1, <2>3, <1>3
      <3>4. f < num'
        BY <3>3, <2>1, <1>1, <1>2, SMT
      <3> QED
        BY <3>1, <3>2, <3>4, <1>4 DEF Listed
    <2> QED
      BY <2>2, <2>3
  <1>9. EntriesUpTo(num - 1)'
    <2> SUFFICES ASSUME NEW s \in Entries, tab'[s] # None PROVE tab'[s] <= num' - 1
      BY <1>4 DEF EntriesUpTo
    <2>1. CASE tab'[s] = num
      BY <2>1, <1>1, <1>2, SMT
    <2>2. CASE tab'[s] # num
      <3>1. tab'[s] = tab[s]
        BY <2>2, <1>1, <1>2, <1>4
      <3>2. tab[s] <= num - 1 /\ tab[s] \in Nat
        BY <3>1, <1>2, <1>3 DEF EntriesUpTo, Id
      <3> QED
        BY <3>1, <3>2, <1>1, <1>2, SMT
    <2> QED
      BY <2>1, <2>2
  <1>10. Printing'
    BY <1>1, <1>7, <1>8, <1>9 DEF Printing
  <1>11. Scanning' /\ Creating'
    BY <1>1, <1>2 DEF Scanning, Creating
  <1> QED
    BY <1>6, <1>10, <1>11 DEF Inv

\* Nothing that the invariant speaks of but pc is touched.
LEMMA InvWrite == Inv /\ Write => Inv'
  <1> SUFFICES ASSUME Inv, Write PROVE Inv'
    OBVIOUS
  <1>1. /\ pc = "print" /\ pc' = "idle" /\ dir' = dir /\ then' = then /\ max' = max
        /\ num' = num /\ tab' = tab /\ scan' = scan /\ fp' = fp
    BY DEF Write
  <1>2. Printing'
    BY <1>1 DEF Inv, Printing, Settled, EntriesUpTo, Listed, Entries
  <1> QED
    BY <1>1, <1>2 DEF Inv, Types, Scanning, Creating, Entries

LEMMA InvStop == Inv /\ Stop => Inv'
  BY SMT DEF Inv, Types, Scanning, Creating, Printing, Settled, Stop

LEMMA InvStutter == Inv /\ UNCHANGED vars => Inv'
  BY DEF vars, Inv, Types, Scanning, Creating, Printing, Settled, EntriesUpTo, Listed, Entries

LEMMA InvStep == Inv /\ [Next]_vars => Inv'
  BY InvStart, InvReadDir, InvFirstFile, InvRefresh, InvCommit, InvWrite, InvStop, InvStutter
     DEF Next

\* Inv holds in every reachable state.
LEMMA Invariance == Spec => []Inv
  BY InvInit, InvStep, PTL DEF Spec

-----------------------------------------------------------------------------
(* What follows from it. *)

\* The file that is written to is in the directory and the newest one
\* (_log_new_log_create never removes it).
THEOREM OpenStaysNewest == Spec => []OpenIsNewest
  <1>1. Inv => OpenIsNewest
    <2> SUFFICES ASSUME Inv, Settled PROVE fp \in dir /\ \A f \in dir : f <= fp
      BY DEF OpenIsNewest
    <2>1. fp \in dir /\ num = fp + 1 /\ \A f \in dir : f < num
      BY DEF Inv, Printing
    <2>2. dir \subseteq Nat
      BY DEF Inv, Types, Id
    <2> QED
      BY <2>1, <2>2, SMT
  <1> QED
    BY <1>1, Invariance, PTL

\* fopen with "w" is only called for a number above those of all files that are
\* there, so it never truncates a log.
THEOREM NothingIsTruncated == Spec => NumbersAreFresh
  <1>1. Inv /\ [Next]_vars =>
            [(pc # "created" /\ pc' = "created") => \A f \in dir : f < num']_vars
    <2> SUFFICES ASSUME Inv, Next, pc # "created", pc' = "created", NEW f \in dir
                 PROVE  f < num'
      OBVIOUS
    <2>1. num \in Nat /\ f \in Nat
      BY DEF Inv, Types, Id
    <2>2. CASE FirstFile
      <3>1. num' = num + 1 /\ f <= num
        BY <2>2 DEF FirstFile, Create, Inv, Scanning
      <3> QED
        BY <3>1, <2>1, SMT
    <2>3. CASE RefreshByTime \/ RefreshBySize
      BY <2>3 DEF RefreshByTime, RefreshBySize, Create, Inv, Printing, Settled
    <2> QED
      BY <2>2, <2>3 DEF Next, Start, ReadDir, Commit, Write, Stop, Inv, Types
  <1> QED
    BY <1>1, Invariance, PTL DEF Spec, NumbersAreFresh

\* Whenever a print is made, there are at most max_log_file_num log files.
THEOREM NeverTooMany == Spec => []AtMostMax
  <1>1. Inv => AtMostMax
    <2> SUFFICES ASSUME Inv, Settled PROVE Cardinality(dir) <= max
      BY DEF AtMostMax
    <2> DEFINE Used == {s \in Entries : tab[s] \in dir}
               file == [s \in Used |-> tab[s]]
    <2>1. max \in Nat \ {0}
      BY LogAssumption DEF Inv, Types
    <2>2. IsFiniteSet(Entries) /\ Cardinality(Entries) = max
      <3>1. /\ IsFiniteSet(0 .. max - 1)
            /\ Cardinality(0 .. max - 1) = IF 0 > max - 1 THEN 0 ELSE (max - 1) - 0 + 1
        BY <2>1, FS_Interval
      <3> QED
        BY <3>1, <2>1, SMT DEF Entries
    <2>3. IsFiniteSet(Used) /\ Cardinality(Used) <= max
      BY <2>2, FS_Subset
    <2>4. file \in Surjection(Used, dir)
      <3>1. file \in [Used -> dir]
        OBVIOUS
      <3>2. \A f \in dir : \E s \in Used : file[s] = f
        BY DEF Inv, Printing, Listed
      <3> QED
        BY <3>1, <3>2 DEF Surjection
    <2> HIDE DEF Used, file
    <2>5. IsFiniteSet(dir) /\ Cardinality(dir) <= Cardinality(Used)
      BY <2>3, <2>4, FS_Surjection
    <2>6. Cardinality(dir) \in Nat /\ Cardinality(Used) \in Nat
      BY <2>3, <2>5, FS_CardinalityType
    <2> QED
      BY <2>1, <2>3, <2>5, <2>6, SMT
  <1> QED
    BY <1>1, Invariance, PTL

-----------------------------------------------------------------------------
(* Types.  What the table lists is in the directory, and in its own slot.     *)

Entered == pc # "down" => \A s \in Entries :
    tab[s] # None => tab[s] \in dir \ scan /\ Slot(tab[s]) = s

Ranges ==
    /\ mode \in Modes
    /\ scan \subseteq dir
    /\ pc = "down" => DOMAIN tab = {}
    /\ pc \notin {"scan", "silent"} => scan = {}
    /\ num \in 0 .. MaxId + 1 /\ (pc \in {"scan", "created"} => num \in Id)
    /\ fp \in Id \cup {None}
    /\ length \in 0 .. MaxLength /\ size \in Nat

Flag == failed \in BOOLEAN

Typed == Inv /\ Entered /\ Ranges /\ Flag

LEMMA IdIsNat == Id \subseteq Nat /\ MaxId \in Nat /\ None \notin Id
  BY LogAssumption DEF Id

LEMMA TypedInit == Init => Typed
  <1> SUFFICES ASSUME Init PROVE Entered /\ Ranges /\ Flag
    BY InvInit DEF Typed
  <1>1. DOMAIN tab = {}
    BY DEF Init
  <1>2. Flag
    BY DEF Init, Flag
  <1> QED
    BY <1>1, <1>2, LogAssumption, SMT DEF Init, Entered, Ranges, Id

LEMMA TypedReadDir == ASSUME Typed, ReadDir PROVE Entered' /\ Ranges'
  <1>1. PICK f \in scan :
            /\ scan' = scan \ {f}
            /\ num' = IF f > num THEN f ELSE num
            /\ tab' = IF tab[Slot(f)] = None \/ tab[Slot(f)] > f
                      THEN [tab EXCEPT ![Slot(f)] = f] ELSE tab
            /\ dir' = dir \ (IF tab[Slot(f)] = None \/ tab[Slot(f)] > f
                              THEN {tab[Slot(f)]} ELSE {f})
    BY DEF ReadDir
  <1>2. /\ pc = "scan" /\ pc' = "scan" /\ max' = max /\ Entries' = Entries
        /\ mode' = mode /\ fp' = fp /\ length' = length /\ size' = size /\ failed' = failed
    BY DEF ReadDir, Entries
  <1>3. /\ f \in Id /\ f \in Nat /\ f \in dir /\ num \in Id /\ num \in Nat /\ max \in Maxs
        /\ tab \in [Entries -> Id \cup {None}] /\ Entered /\ Ranges
    BY <1>1, <1>2, IdIsNat DEF Typed, Inv, Types, Ranges
  <1>4. Slot(f) \in Entries
    BY <1>3, SlotIsEntry
  <1>5. tab[Slot(f)] # None => tab[Slot(f)] \in dir \ scan
    BY <1>2, <1>3, <1>4 DEF Entered
  <1>6. ASSUME NEW s \in Entries, tab'[s] # None
        PROVE  tab'[s] \in dir' \ scan' /\ Slot(tab'[s]) = s
    <2>1. CASE s = Slot(f) /\ (tab[Slot(f)] = None \/ tab[Slot(f)] > f)
      <3>1. tab'[s] = f
        BY <2>1, <1>1, <1>3, <1>4
      <3>2. tab[Slot(f)] # f
        BY <1>1, <1>5, <1>3, IdIsNat
      <3> QED
        BY <2>1, <3>1, <3>2, <1>1, <1>3
    <2>2. CASE ~(s = Slot(f) /\ (tab[Slot(f)] = None \/ tab[Slot(f)] > f))
      <3>1. tab'[s] = tab[s]
        BY <2>2, <1>1, <1>3, <1>4
      <3>2. tab[s] \in dir \ scan /\ Slot(tab[s]) = s
        BY <3>1, <1>6, <1>2, <1>3 DEF Entered
      <3>3. tab[s] # f
        BY <3>2, <1>1
      <3>4. tab[s] # tab[Slot(f)] \/ ~(tab[Slot(f)] = None \/ tab[Slot(f)] > f)
        <4> SUFFICES ASSUME tab[s] = tab[Slot(f)], tab[Slot(f)] = None \/ tab[Slot(f)] > f
                     PROVE  FALSE
          OBVIOUS
        <4>1. tab[Slot(f)] # None
          BY <3>1, <1>6
        <4>2. Slot(tab[Slot(f)]) = Slot(f)
          BY <4>1, <1>2, <1>3, <1>4 DEF Entered
        <4> QED
          BY <4>2, <3>2, <2>2
      <3> QED
        BY <3>1, <3>2, <3>3, <3>4, <1>1
    <2> QED
      BY <2>1, <2>2
  <1>8. Entered'
    BY <1>6, <1>2 DEF Entered, Slot
  <1>9. scan' \subseteq dir'
    <2>1. tab[Slot(f)] \notin scan
      BY <1>3, <1>5, IdIsNat DEF Typed, Inv, Types
    <2> QED
      BY <2>1, <1>1, <1>3 DEF Ranges
  <1>10. num' \in Id /\ num' \in 0 .. MaxId + 1
    BY <1>1, <1>3, LogAssumption DEF Id
  <1> QED
    BY <1>8, <1>9, <1>10, <1>2, <1>3 DEF Ranges

LEMMA TypedCommit == ASSUME Typed, Commit PROVE Entered' /\ Ranges'
  <1>1. /\ pc = "created" /\ pc' = then /\ max' = max /\ scan' = scan /\ Entries' = Entries
        /\ dir' = dir \ {tab[Slot(num)]} /\ tab' = [tab EXCEPT ![Slot(num)] = num]
        /\ fp' = num /\ num' = num + 1 /\ mode' = mode
        /\ size' = 0 /\ length' = 0 /\ failed' = FALSE
    BY DEF Commit, Entries
  <1>2. /\ then \in {"idle", "bysize", "print"}
        /\ num \in Id /\ num \in Nat /\ num \in dir /\ max \in Maxs
        /\ tab \in [Entries -> Id \cup {None}] /\ EntriesUpTo(num - 1)
    BY <1>1, IdIsNat DEF Typed, Inv, Types, Ranges, Creating
  <1>3. Slot(num) \in Entries
    BY <1>2, SlotIsEntry
  <1>4. ASSUME NEW s \in Entries, tab[s] # None PROVE tab[s] # num
    BY <1>2, <1>4, IdIsNat DEF EntriesUpTo
  <1>5. ASSUME NEW s \in Entries, tab'[s] # None
        PROVE  tab'[s] \in dir' \ scan' /\ Slot(tab'[s]) = s
    <2>1. CASE s = Slot(num)
      <3>1. tab'[s] = num /\ tab[s] # num
        BY <2>1, <1>1, <1>2, <1>3, <1>4, IdIsNat DEF Entered
      <3>2. scan = {}
        BY <1>1 DEF Typed, Ranges
      <3> QED
        BY <2>1, <3>1, <3>2, <1>1, <1>2
    <2>2. CASE s # Slot(num)
      <3>1. tab'[s] = tab[s]
        BY <2>2, <1>1, <1>2, <1>3
      <3>2. tab[s] \in dir \ scan /\ Slot(tab[s]) = s
        BY <3>1, <1>5, <1>1 DEF Typed, Entered
      <3>3. tab[Slot(num)] # tab[s]
        BY <2>2, <3>1, <3>2, <1>1, <1>3, <1>5 DEF Typed, Entered
      <3> QED
        BY <3>1, <3>2, <3>3, <1>1
    <2> QED
      BY <2>1, <2>2
  <1>7. Entered'
    BY <1>5, <1>1 DEF Entered, Slot
  <1>8. scan' = {}
    BY <1>1 DEF Typed, Ranges
  <1> QED
    BY <1>7, <1>8, <1>1, <1>2, LogAssumption DEF Typed, Ranges, Id

\* A step that leaves the table and the scan alone, or has neither.
LEMMA EnteredKept ==
    ASSUME Typed, pc # "down", max' = max, tab' = tab, scan' = scan, dir \subseteq dir'
    PROVE  Entered'
  BY DEF Typed, Entered, Entries, Slot

LEMMA TypedOpen == ASSUME Typed, FirstFile \/ RefreshByTime \/ RefreshBySize PROVE Entered' /\ Ranges'
  <1>1. /\ pc \in {"scan", "idle", "bysize"} /\ (pc = "scan" => scan = {})
        /\ pc' \in {"created", "silent", "bysize", "print"}
        /\ max' = max /\ tab' = tab /\ scan' = scan /\ dir \subseteq dir'
        /\ mode' = mode /\ length' = length /\ size' = size /\ fp' = fp
    BY DEF FirstFile, RefreshByTime, RefreshBySize, Create
  <1>2. Entered'
    BY <1>1, EnteredKept
  <1>3. num' \in 0 .. MaxId + 1 /\ (pc' = "created" => num' \in Id)
    <2>1. CASE FirstFile
      <3>1. num \in Id /\ num' = num + 1 /\ pc' \in {"created", "silent"} /\ (pc' = "created" => num + 1 \in Id)
        BY <2>1 DEF FirstFile, Create, Typed, Ranges
      <3> QED
        BY <3>1, LogAssumption DEF Id
    <2>2. CASE RefreshByTime \/ RefreshBySize
      BY <2>2 DEF RefreshByTime, RefreshBySize, Create, Typed, Ranges
    <2> QED
      BY <2>1, <2>2
  <1>4. scan' = {} /\ scan' \subseteq dir'
    BY <1>1 DEF Typed, Ranges
  <1> QED
    BY <1>1, <1>2, <1>3, <1>4 DEF Typed, Ranges

LEMMA TypedStep == Typed /\ [Next]_vars => Typed'
  <1> SUFFICES ASSUME Typed, [Next]_vars PROVE Entered' /\ Ranges' /\ Flag'
    BY InvStep DEF Typed
  <1>1. Flag'
    BY DEF Typed, Flag, Next, vars, Start, ReadDir, FirstFile, RefreshByTime, RefreshBySize,
       Create, Commit, Write, Stop
  <1>2. CASE Start
    <2>1. max' \in Maxs /\ pc = "down"
      BY <1>2 DEF Start, Typed, Inv, Types
    <2>2. max' \in Nat /\ Entries' = 0 .. max' - 1
      BY <2>1, LogAssumption DEF Entries
    <2>3. Entered'
      BY <1>2, <2>2 DEF Start, Entered
    <2>4. 0 \in Id /\ 0 \in 0 .. MaxId + 1
      BY LogAssumption DEF Id
    <2>5. Ranges'
      BY <1>2, <2>4 DEF Start, Typed, Ranges
    <2> QED
      BY <1>1, <2>3, <2>5
  <1>3. CASE Write
    <2>1. Entered'
      BY <1>3, EnteredKept DEF Write
    <2>2. length' \in 0 .. MaxLength /\ size' \in Nat
      BY <1>3, LogAssumption DEF Write, Typed, Ranges
    <2> QED
      BY <1>1, <1>3, <2>1, <2>2 DEF Write, Typed, Ranges
  <1>4. CASE Stop
    <2>1. DOMAIN tab' = {} /\ 0 \in 0 .. MaxId + 1 /\ 0 \in 0 .. MaxLength
      BY <1>4, LogAssumption DEF Stop
    <2> QED
      BY <1>1, <1>4, <2>1 DEF Stop, Typed, Entered, Ranges
  <1>5. CASE UNCHANGED vars
    BY <1>1, <1>5 DEF vars, Typed, Entered, Ranges, Entries, Slot
  <1> QED
    BY <1>1, <1>2, <1>3, <1>4, <1>5, TypedReadDir, TypedCommit, TypedOpen DEF Next

\* Every reachable state is well typed: what the table lists is in the directory
\* and has the slot of its number, and the numbers keep their bounds.
THEOREM TypeCorrect == Spec => []TypeOK
  <1>1. Typed => TypeOK
    <2> SUFFICES ASSUME Typed PROVE TypeOK
      OBVIOUS
    <2>1. ASSUME NEW s \in DOMAIN tab
          PROVE  tab[s] \in (Id \cap dir) \cup {None} /\ (tab[s] # None => Slot(tab[s]) = s)
      <3>1. pc # "down" /\ tab \in [Entries -> Id \cup {None}] /\ s \in Entries
        BY DEF Typed, Inv, Types, Ranges
      <3> QED
        BY <3>1 DEF Typed, Entered
    <2> QED
      BY <2>1 DEF TypeOK, Typed, Inv, Types, Ranges, Flag
  <1> QED
    BY <1>1, TypedInit, TypedStep, PTL DEF Spec

-----------------------------------------------------------------------------
(* The length of a file *)

\* The program knows the length of the open file.  When it starts to print to
\* it, the file is not too long, or no other could be created.
Limited ==
    /\ size = length
    /\ MaxSize > 0 /\ Settled /\ ~failed => length <= MaxSize + MaxPrint
    /\ MaxSize > 0 /\ pc = "print" /\ ~failed => length <= MaxSize

LEMMA LimitedStep == Typed /\ Limited /\ [Next]_vars => Limited'
  <1> SUFFICES ASSUME Typed, Limited, [Next]_vars PROVE Limited'
    OBVIOUS
  <1>1. /\ MaxSize \in Nat /\ MaxPrint \in Nat \ {0} /\ length \in Nat
        /\ then \in {"idle", "bysize", "print"}
    BY LogAssumption DEF Typed, Inv, Types, Ranges
  <1>2. CASE Write
    <2>1. PICK k \in 1 .. MaxPrint : length' = length + k /\ size' = size + k
      BY <1>2 DEF Write
    <2> QED
      BY <1>1, <1>2, <2>1 DEF Write, Limited, Settled
  <1>3. CASE Commit \/ Stop
    BY <1>1, <1>3 DEF Commit, Stop, Limited, Settled
  <1>4. CASE RefreshByTime
    BY <1>1, <1>4 DEF RefreshByTime, Create, Limited, Settled
  <1>5. CASE RefreshBySize
    BY <1>1, <1>5 DEF RefreshBySize, Create, TooLong, Limited, Settled
  <1>6. CASE Start \/ ReadDir \/ FirstFile
    BY <1>6 DEF Start, ReadDir, FirstFile, Create, Limited, Settled
  <1>7. CASE UNCHANGED vars
    BY <1>7 DEF vars, Limited, Settled
  <1> QED
    BY <1>2, <1>3, <1>4, <1>5, <1>6, <1>7 DEF Next

\* As long as new files can be created, a log file is longer than its limit by
\* at most what one call prints (_log_fp_refresh, log_write).
THEOREM FilesStayBounded == Spec => []FilesAreBounded
  <1>1. Init => Limited
    BY DEF Init, Limited, Settled
  <1>2. Limited => FilesAreBounded
    BY DEF Limited, FilesAreBounded
  <1> QED
    BY <1>1, <1>2, LimitedStep, TypedInit, TypedStep, PTL DEF Spec

-----------------------------------------------------------------------------
(* The latest logs *)

LEMMA DivMod ==
    ASSUME NEW a \in Nat, NEW b \in Nat \ {0}
    PROVE  (a \div b) \in Nat /\ (a % b) \in 0 .. b - 1 /\ a = b * (a \div b) + (a % b)
  BY SMT

\* Multiples that differ lie at least b apart.
LEMMA MultiplesApart ==
    ASSUME NEW b \in Nat \ {0}, NEW p \in Int, NEW q \in Int, p < q
    PROVE  b * p + b <= b * q
  BY SMT

\* Two files of a slot are a table apart,
LEMMA SlotsApart ==
    ASSUME NEW f \in Nat, NEW g \in Nat, f < g, max \in Nat \ {0}, Slot(f) = Slot(g)
    PROVE  g - f >= max
  <1> DEFINE p == f \div max
             q == g \div max
             r == f % max
  <1>1. p \in Nat /\ q \in Nat /\ r \in Nat /\ f = max * p + r /\ g = max * q + r
    <2>1. p \in Nat /\ r \in 0 .. max - 1 /\ f = max * p + r
      BY DivMod
    <2>2. q \in Nat /\ g = max * q + (g % max) /\ g % max = r
      BY DivMod DEF Slot
    <2> QED
      BY <2>1, <2>2
  <1> HIDE DEF p, q, r
  <1>2. max * p \in Nat /\ max * q \in Nat
    BY <1>1, SMT
  <1>3. p < q
    <2> SUFFICES ASSUME q <= p PROVE FALSE
      BY <1>1
    <2>1. max * q + max <= max * p \/ q = p
      BY <1>1, MultiplesApart
    <2> QED
      BY <1>1, <1>2, <2>1, SMT
  <1>4. max * p + max <= max * q
    BY <1>1, <1>3, MultiplesApart
  <1> QED
    BY <1>1, <1>2, <1>4

\* and so are those that are a table apart.
LEMMA SlotComesBack ==
    ASSUME NEW f \in Nat, max \in Nat \ {0}
    PROVE  Slot(f + max) = Slot(f)
  <1> DEFINE p == f \div max  r == f % max
             q == (f + max) \div max  t == (f + max) % max
  <1>1. /\ p \in Nat /\ r \in 0 .. max - 1 /\ f = max * p + r
        /\ q \in Nat /\ t \in 0 .. max - 1 /\ f + max = max * q + t
    <2>1. p \in Nat /\ r \in 0 .. max - 1 /\ f = max * p + r
      BY DivMod
    <2>2. f + max \in Nat
      OBVIOUS
    <2>3. q \in Nat /\ t \in 0 .. max - 1 /\ f + max = max * q + t
      BY <2>2, DivMod
    <2> QED
      BY <2>1, <2>3
  <1> HIDE DEF p, q, r, t
  <1>2. max * (p + 1) = max * p + max /\ max * p \in Nat /\ max * q \in Nat
    BY <1>1, SMT
  <1>3. ~(q < p + 1)
    BY <1>1, <1>2, MultiplesApart, SMT
  <1>4. ~(p + 1 < q)
    <2> SUFFICES ASSUME p + 1 < q PROVE FALSE
      OBVIOUS
    <2> DEFINE x == max * p  y == max * q
    <2>1. x + max + max <= y
      BY <1>1, <1>2, MultiplesApart
    <2>2. x \in Nat /\ y \in Nat /\ f = x + r /\ f + max = y + t
      BY <1>1, <1>2
    <2> HIDE DEF x, y
    <2> QED
      BY <1>1, <2>1, <2>2
  <1>5. q = p + 1
    BY <1>1, <1>3, <1>4
  <1>6. t = r
    BY <1>1, <1>2, <1>5
  <1> QED
    BY <1>6 DEF Slot, r, t

\* The files that are there, but for one that is only just being created.
Older == IF pc = "created" THEN dir \ {num} ELSE dir

\* Where every run has the same number of files and none is killed: the files
\* have numbers in a row, which a table can list, and the next number is known.
Kept == mode.sameMax /\ ~mode.killed

InARow(files) ==
    /\ \A f, g \in files : f .. g \subseteq files
    /\ \A f, g \in files : g - f < max

Latest == Kept =>
    /\ InARow(Older)
    /\ pc = "scan" => IF dir = scan THEN num = 0 ELSE num \in dir
    /\ pc = "created" /\ Older # {} => num - 1 \in Older

\* No two of them share a slot, so that the scan removes nothing.
LEMMA LatestReadDir == ASSUME Typed, Kept, Kept', Latest, ReadDir PROVE Latest'
  <1>1. PICK f \in scan :
            /\ scan' = scan \ {f}
            /\ num' = IF f > num THEN f ELSE num
            /\ dir' = dir \ (IF tab[Slot(f)] = None \/ tab[Slot(f)] > f
                              THEN {tab[Slot(f)]} ELSE {f})
    BY DEF ReadDir
  <1>2. pc = "scan" /\ pc' = "scan" /\ max' = max /\ Older = dir /\ Older' = dir'
    BY DEF ReadDir, Older
  <1>3. /\ f \in dir /\ f \in Nat /\ num \in Nat /\ max \in Maxs /\ max \in Nat \ {0}
        /\ dir \subseteq Nat /\ scan \subseteq dir
    BY <1>1, <1>2, IdIsNat, LogAssumption DEF Typed, Inv, Types, Ranges
  <1>4. Slot(f) \in Entries
    BY <1>3, SlotIsEntry
  <1>5. tab[Slot(f)] = None
    <2> SUFFICES ASSUME tab[Slot(f)] # None PROVE FALSE
      OBVIOUS
    <2> DEFINE g == tab[Slot(f)]
    <2>1. g \in dir \ scan /\ Slot(g) = Slot(f)
      BY <1>2, <1>4 DEF Typed, Entered
    <2> HIDE DEF g
    <2>2. g \in Nat /\ g # f /\ g - f < max /\ f - g < max
      BY <1>1, <1>2, <1>3, <2>1 DEF Latest, InARow
    <2>3. f < g \/ g < f
      BY <1>3, <2>2
    <2> QED
      BY <1>3, <2>1, <2>2, <2>3, SlotsApart
  <1>6. dir' = dir
    BY <1>1, <1>3, <1>5, LogAssumption
  <1>7. InARow(Older)'
    BY <1>2, <1>6 DEF Latest, InARow
  <1>8. dir' # scan' /\ num' \in dir'
    BY <1>1, <1>2, <1>3, <1>6 DEF Latest
  <1> QED
    BY <1>2, <1>7, <1>8 DEF Latest

\* The file that goes is the oldest, and only if there are as many as allowed.
LEMMA LatestCommit == ASSUME Typed, Kept, Latest, Commit PROVE Latest'
  <1> DEFINE gone == tab[Slot(num)]
             files == dir \ {num}
  <1>1. /\ pc = "created" /\ pc' = then /\ max' = max
        /\ dir' = dir \ {gone} /\ Older = files /\ Older' = dir'
        /\ then \in {"idle", "bysize", "print"}
    BY DEF Commit, Older, Typed, Inv, Types
  <1>2. /\ num \in Nat /\ num \in dir /\ max \in Maxs /\ max \in Nat \ {0} /\ dir \subseteq Nat
        /\ \A f \in files : f < num /\ Listed(f)
    BY <1>1, IdIsNat, LogAssumption DEF Typed, Inv, Types, Ranges, Creating
  <1>3. InARow(files) /\ (files # {} => num - 1 \in files)
    BY <1>1 DEF Latest
  <1>4. Slot(num) \in Entries
    BY <1>2, SlotIsEntry
  <1>5. gone # None => gone \in files /\ Slot(gone) = Slot(num)
    <2> SUFFICES ASSUME gone # None PROVE gone \in files /\ Slot(gone) = Slot(num)
      OBVIOUS
    <2>1. gone \in dir /\ Slot(gone) = Slot(num)
      BY <1>1, <1>4 DEF Typed, Entered
    <2>2. EntriesUpTo(num - 1)
      BY <1>1 DEF Typed, Inv, Creating
    <2>3. gone <= num - 1
      BY <1>4, <2>2 DEF EntriesUpTo
    <2>4. gone # num
      BY <1>2, <2>1, <2>3
    <2> QED
      BY <2>1, <2>4
  <1>6. ASSUME NEW f \in files PROVE num - f <= max
    <2>1. num - 1 \in files
      BY <1>3, <1>6
    <2>2. (num - 1) - f < max
      BY <1>3, <1>6, <2>1 DEF InARow
    <2> QED
      BY <1>2, <1>6, <2>2
  <1>7. ASSUME NEW f \in files, num - f = max PROVE gone = f
    <2>1. f \in Nat /\ num = f + max
      BY <1>2, <1>7
    <2>2. Slot(f) = Slot(num)
      BY <1>2, <2>1, SlotComesBack
    <2>3. PICK s \in Entries : tab[s] = f
      BY <1>2 DEF Listed
    <2>4. Slot(f) = s
      BY <1>1, <2>1, <2>3, LogAssumption DEF Typed, Entered
    <2> QED
      BY <2>2, <2>3, <2>4
  <1>8. gone # None => num - gone = max
    <2> SUFFICES ASSUME gone # None PROVE num - gone = max
      OBVIOUS
    <2>1. gone \in files /\ gone \in Nat /\ gone < num /\ Slot(gone) = Slot(num)
      BY <1>2, <1>5
    <2>2. num - gone >= max
      BY <1>2, <2>1, SlotsApart
    <2> QED
      BY <1>2, <1>6, <2>1, <2>2
  <1> HIDE DEF gone
  <1>9. ASSUME NEW f \in dir', NEW g \in dir' PROVE g - f < max
    <2>1. f \in dir /\ g \in dir /\ f # gone /\ g <= num /\ f <= num /\ f \in Nat /\ g \in Nat
      BY <1>1, <1>2
    <2>2. f = num \/ num - f < max
      BY <1>2, <1>6, <1>7, <2>1
    <2> QED
      BY <1>2, <2>1, <2>2
  <1>10. ASSUME NEW f \in dir', NEW g \in dir', NEW h \in f .. g PROVE h \in dir'
    <2>1. f \in dir /\ g \in dir /\ f # gone /\ f \in Nat /\ g \in Nat /\ f <= num /\ g <= num
      BY <1>1, <1>2
    <2>2. h \in dir
      <3>1. CASE f = num \/ h = num
        BY <1>2, <2>1, <3>1
      <3>2. CASE f # num /\ h # num
        <4>1. f \in files /\ num - 1 \in files /\ h \in f .. num - 1
          BY <1>2, <1>3, <2>1, <3>2
        <4> QED
          BY <1>3, <4>1 DEF InARow
      <3> QED
        BY <3>1, <3>2
    <2>3. h # gone
      <3> SUFFICES ASSUME h = gone PROVE FALSE
        OBVIOUS
      <3>1. gone # None /\ f < gone
        BY <2>1, LogAssumption
      <3>2. num - gone = max /\ f \in files /\ gone \in files
        BY <1>2, <1>5, <1>8, <2>1, <3>1
      <3>3. num - f <= max
        BY <1>6, <3>2
      <3> QED
        BY <1>2, <2>1, <3>1, <3>2, <3>3
    <2> QED
      BY <1>1, <2>2, <2>3
  <1>11. InARow(Older)'
    BY <1>1, <1>9, <1>10 DEF InARow
  <1> QED
    BY <1>1, <1>11 DEF Latest

\* The number of a new file is the next one.
LEMMA LatestOpen ==
    ASSUME Typed, Kept, Latest, FirstFile \/ RefreshByTime \/ RefreshBySize
    PROVE  Latest'
  <1>1. /\ pc \in {"scan", "idle", "bysize"} /\ pc' \in {"created", "silent", "bysize", "print"}
        /\ max' = max /\ Older = dir
    BY DEF FirstFile, RefreshByTime, RefreshBySize, Create, Older
  <1>2. CASE pc' # "created"
    <2>1. dir' = dir /\ Older' = dir'
      BY <1>1, <1>2 DEF FirstFile, RefreshByTime, RefreshBySize, Create, Older
    <2> QED
      BY <1>1, <1>2, <2>1 DEF Latest, InARow
  <1>3. CASE pc' = "created"
    <2>1. dir' = dir \cup {num'} /\ Older' = dir' \ {num'}
      BY <1>3 DEF FirstFile, RefreshByTime, RefreshBySize, Create, Older
    <2>2. num' \notin dir /\ (dir # {} => num' - 1 \in dir)
      <3>1. CASE FirstFile
        <4>1. /\ num \in Nat /\ num' = num + 1 /\ scan = {} /\ pc = "scan"
              /\ \A f \in dir : f <= num
          BY <3>1 DEF FirstFile, Create, Typed, Inv, Types, Scanning
        <4>2. dir # {} => num \in dir
          BY <4>1 DEF Latest
        <4> QED
          BY <4>1, <4>2
      <3>2. CASE RefreshByTime \/ RefreshBySize
        <4>1. num' = num /\ fp \in dir /\ num = fp + 1 /\ \A f \in dir : f < num
          BY <3>2 DEF RefreshByTime, RefreshBySize, Create, Typed, Inv, Printing, Settled
        <4>2. fp \in Nat
          BY <4>1, IdIsNat DEF Typed, Inv, Types
        <4> QED
          BY <4>1, <4>2
      <3> QED
        BY <3>1, <3>2
    <2>3. Older' = dir
      BY <2>1, <2>2
    <2> QED
      BY <1>1, <1>3, <2>2, <2>3 DEF Latest, InARow
  <1> QED
    BY <1>2, <1>3

LEMMA LatestStep == Typed /\ Latest /\ [Next]_vars => Latest'
  <1> SUFFICES ASSUME Typed, Latest, [Next]_vars, Kept' PROVE Latest'
    BY DEF Latest
  <1>1. mode' = mode
    BY DEF Next, vars, Start, ReadDir, FirstFile, RefreshByTime, RefreshBySize, Commit, Write, Stop
  <1>2. Kept
    BY <1>1 DEF Kept
  <1>3. CASE Start
    <2>1. /\ max' = max /\ dir' = dir /\ num' = 0 /\ scan' = dir /\ pc = "down"
          /\ pc' \in {"scan", "silent"}
      BY <1>2, <1>3 DEF Start, Kept
    <2> QED
      BY <1>2, <2>1 DEF Latest, Older, InARow
  <1>4. CASE Write \/ Stop
    <2>1. /\ max' = max /\ dir' = dir /\ pc # "created" /\ pc' \in {"idle", "down"}
      BY <1>2, <1>4 DEF Write, Stop, Kept
    <2> QED
      BY <1>2, <2>1 DEF Latest, Older, InARow
  <1>5. CASE UNCHANGED vars
    BY <1>2, <1>5 DEF vars, Latest, Older, InARow
  <1> QED
    BY <1>2, <1>3, <1>4, <1>5, LatestReadDir, LatestCommit, LatestOpen DEF Next

\* Where no run is killed in a rotation and all have the same number of files,
\* the logs in the directory are the latest ones and none between them is gone.
THEOREM LatestLogsAreKept == Spec => []LatestAreKept
  <1>1. Init => Latest
    <2> SUFFICES ASSUME Init PROVE Latest
      OBVIOUS
    <2>1. Older = {} /\ pc = "down"
      BY DEF Init, Older
    <2> QED
      BY <2>1 DEF Latest, InARow
  <1>2. Latest => LatestAreKept
    BY DEF Latest, LatestAreKept, Kept, Older, InARow
  <1> QED
    BY <1>1, <1>2, LatestStep, TypedInit, TypedStep, PTL DEF Spec

-----------------------------------------------------------------------------
(* The lock of the print buffer *)

Section == {"format", "put", "unlock"}
Waiting == {"create", "created", "ask", "wait"}

Chars == L!Context \X Nat \X Nat
Pieces == (1 .. 2) \X Nat \X (0 .. 2)

\* printBuf[3] is never more than the end of a text.
LockTypes ==
    /\ habit \in Habits
    /\ sched \in {"off", "running"} \cup Task
    /\ owner \in Seq(Task \cup {Nobody})
    /\ mutex \in 0 .. Len(owner) /\ (ready => mutex > 0)
    /\ wants \in [L!Context -> Nat] /\ \A c \in L!Context : wants[c] <= Len(owner)
    /\ at \in [L!Context -> {"idle", "lock"} \cup Waiting \cup Section]
    /\ piece \in [L!Context -> Pieces] /\ prints \in [L!Context -> Nat]
    /\ printBuf \in [1 .. 3 -> Chars \cup {L!Nul}] /\ printBuf[3] = L!Nul
    /\ console \in Seq(Chars)
    /\ \A c \in L!Context : at[c] \in Waiting => c \in Task
    /\ \A c \in L!Context : at[c] = "created" => mutex > 0

LEMMA LockConstants ==
    /\ Main \notin Task /\ Isr \notin Task \cup {Main} /\ Nobody \notin Task
    /\ "off" \notin Task /\ "running" \notin Task
    /\ \A h \in Habits : h.silent \subseteq Task
    /\ Task \subseteq L!Context /\ Main \in L!Context /\ Isr \in L!Context
BY DebugAssumption DEF L!LockAssumption, L!Context

\* The scheduler and the interrupts let c go on.
LEMMA WhoRuns ==
    ASSUME NEW c \in L!Context, L!CanRun(c)
    PROVE  /\ at[Isr] # "idle" => c = Isr
           /\ c = Main => sched = "off"
           /\ c \in Task => sched \in {"running", c}
BY LockConstants DEF L!CanRun, L!Context

LEMMA PieceSet ==
    ASSUME NEW p \in Pieces, NEW k
    PROVE  [p EXCEPT ![3] = k] = <<p[1], p[2], k>>
BY DEF Pieces

\* The two steps that touch the text, with their tuples taken apart
LEMMA FormatStep ==
    ASSUME LockTypes, NEW c \in L!Context, L!Format(c)
    PROVE  LET len == piece[c][1]
               k == piece[c][3]
           IN  /\ L!CanRun(c) /\ at[c] = "format"
               /\ UNCHANGED <<habit, sched, prints, console>> /\ UNCHANGED L!lockvars
               /\ \/ /\ k < len /\ at' = at
                     /\ printBuf' = [printBuf EXCEPT ![k + 1] =
                            <<c, prints[c], len * piece[c][2] + k + 1>>]
                     /\ piece' = [piece EXCEPT ![c] = <<len, piece[c][2], k + 1>>]
                  \/ /\ ~(k < len) /\ at' = [at EXCEPT ![c] = "put"]
                     /\ printBuf' = [printBuf EXCEPT ![k + 1] = L!Nul]
                     /\ piece' = [piece EXCEPT ![c] = <<len, piece[c][2], 0>>]
  <1>1. piece[c] \in Pieces
    BY DEF LockTypes
  <1>2. /\ [piece[c] EXCEPT ![3] = piece[c][3] + 1] = <<piece[c][1], piece[c][2], piece[c][3] + 1>>
        /\ [piece[c] EXCEPT ![3] = 0] = <<piece[c][1], piece[c][2], 0>>
    BY <1>1, PieceSet
  <1>3. at \in [L!Context -> {"idle", "lock"} \cup Waiting \cup Section]
    BY DEF LockTypes
  <1> QED
    BY <1>2, <1>3 DEF L!Format, L!Goto

LEMMA PutStep ==
    ASSUME LockTypes, NEW c \in L!Context, L!Put(c)
    PROVE  LET len == piece[c][1]
               done == piece[c][2] + 1
               k == piece[c][3]
           IN  /\ L!CanRun(c) /\ at[c] = "put"
               /\ UNCHANGED <<habit, sched, prints, printBuf>> /\ UNCHANGED L!lockvars
               /\ \/ /\ printBuf[k + 1] # L!Nul /\ at' = at
                     /\ console' = Append(console, printBuf[k + 1])
                     /\ piece' = [piece EXCEPT ![c] = <<len, piece[c][2], k + 1>>]
                  \/ /\ printBuf[k + 1] = L!Nul /\ console' = console
                     /\ piece' = [piece EXCEPT ![c] = <<len, done, 0>>]
                     /\ at' = [at EXCEPT ![c] = IF len * done < 2 THEN "format" ELSE "unlock"]
  <1>1. piece[c] \in Pieces
    BY DEF LockTypes
  <1>2. [piece[c] EXCEPT ![3] = piece[c][3] + 1] = <<piece[c][1], piece[c][2], piece[c][3] + 1>>
    BY <1>1, PieceSet
  <1>3. at \in [L!Context -> {"idle", "lock"} \cup Waiting \cup Section]
    BY DEF LockTypes
  <1> QED
    BY <1>2, <1>3 DEF L!Put, L!Goto

LEMMA SeqUpdate ==
    ASSUME NEW S, NEW q \in Seq(S), NEW i, NEW e \in S
    PROVE  [q EXCEPT ![i] = e] \in Seq(S) /\ Len([q EXCEPT ![i] = e]) = Len(q)
  <1>1. q \in [1 .. Len(q) -> S] /\ Len(q) \in Nat
    OBVIOUS
  <1>2. [q EXCEPT ![i] = e] \in [1 .. Len(q) -> S]
    BY <1>1

  <1> DEFINE r == [q EXCEPT ![i] = e]
  <1> HIDE DEF r
  <1>3. ASSUME NEW l \in Nat, r \in [1 .. l -> S] PROVE r \in Seq(S) /\ Len(r) = l
    BY <1>3
  <1> QED
    BY <1>1, <1>2, <1>3 DEF r

LEMMA FunctionUpdate ==
    ASSUME NEW S, NEW T, NEW f \in [S -> T], NEW i, NEW e \in T
    PROVE  /\ [f EXCEPT ![i] = e] \in [S -> T]
           /\ \A j \in S \ {i} : [f EXCEPT ![i] = e][j] = f[j]
OBVIOUS

LEMMA LockTypesInit == L!PrintInit => LockTypes
  <1> SUFFICES ASSUME L!PrintInit PROVE LockTypes
    OBVIOUS
  <1>1. /\ <<2, 0, 0>> \in Pieces /\ Len(owner) = 0 /\ owner \in Seq(Task \cup {Nobody})
        /\ console \in Seq(Chars)
    BY DEF L!PrintInit, Pieces
  <1>2. /\ printBuf \in [1 .. 3 -> Chars \cup {L!Nul}] /\ printBuf[3] = L!Nul
    BY DEF L!PrintInit
  <1> QED
    BY <1>1, <1>2 DEF L!PrintInit, LockTypes, Waiting, Section

\* The scheduler, and the beginning of a call
LEMMA LockTypesOutside ==
    ASSUME LockTypes,
           \/ L!StartScheduler
           \/ \E c \in L!Context, len \in 1 .. 2 : L!BeginPrint(c, len)
           \/ \E t \in Task, len \in 1 .. 2 : L!BeginSilentPrint(t, len)
           \/ \E t \in Task : L!Resume(t)
    PROVE  LockTypes'
  <1>1. CASE L!StartScheduler \/ \E t \in Task : L!Resume(t)
    BY <1>1 DEF L!StartScheduler, L!Resume, L!lockvars, L!textvars, LockTypes
  <1>2. ASSUME NEW c \in L!Context, NEW len \in 1 .. 2, L!Begin(c, len),
               sched' \in {"off", "running"} \cup Task
        PROVE  LockTypes'
    <2>1. <<len, 0, 0>> \in Pieces /\ prints[c] + 1 \in Nat
      BY DEF Pieces, LockTypes
    <2> QED
      BY <1>2, <2>1 DEF L!Begin, L!Goto, L!lockvars, LockTypes, Waiting, Section
  <1>3. CASE \E c \in L!Context, len \in 1 .. 2 : L!BeginPrint(c, len)
    BY <1>2, <1>3 DEF L!BeginPrint, LockTypes
  <1>4. CASE \E t \in Task, len \in 1 .. 2 : L!BeginSilentPrint(t, len)
    BY <1>2, <1>4, LockConstants DEF L!BeginSilentPrint
  <1> QED
    BY <1>1, <1>3, <1>4

LEMMA LockTypesLock ==
    ASSUME LockTypes, NEW c \in L!Context,
           L!Lock(c) \/ L!MarkReady(c) \/ L!Ask(c) \/ L!Unlock(c)
    PROVE  LockTypes'
  <1>1. CASE L!Lock(c)
    BY <1>1 DEF L!Lock, L!CpuIsTask, L!Goto, L!lockvars, L!textvars, LockTypes, Waiting, Section
  <1>2. CASE L!MarkReady(c)
    BY <1>2 DEF L!MarkReady, L!Goto, L!textvars, LockTypes, Waiting, Section
  <1>3. CASE L!Ask(c)
    <2>1. c \in Task /\ mutex \in Nat /\ mutex <= Len(owner)
      BY <1>3 DEF L!Ask, L!Goto, LockTypes, Waiting
    <2> QED
      BY <1>3, <2>1 DEF L!Ask, L!Goto, L!textvars, LockTypes, Waiting, Section
  <1>4. CASE L!Unlock(c)
    <2>1. owner' \in Seq(Task \cup {Nobody}) /\ Len(owner') = Len(owner)
      <3>1. owner \in Seq(Task \cup {Nobody}) /\ Nobody \in Task \cup {Nobody}
        BY DEF LockTypes
      <3>2. owner' = owner \/ owner' = [owner EXCEPT ![mutex] = Nobody]
        BY <1>4 DEF L!Unlock
      <3> QED
        BY <3>1, <3>2, SeqUpdate
    <2> QED
      BY <1>4, <2>1 DEF L!Unlock, L!Goto, L!textvars, LockTypes, Waiting, Section
  <1> QED
    BY <1>1, <1>2, <1>3, <1>4

LEMMA LockTypesCreate ==
    ASSUME LockTypes, NEW c \in L!Context, L!CreateMutex(c)
    PROVE  LockTypes'
  <1>1. /\ owner' \in Seq(Task \cup {Nobody}) /\ Len(owner') = Len(owner) + 1
        /\ Len(owner) \in Nat /\ mutex' = Len(owner')
    BY DEF L!CreateMutex, LockTypes
  <1>2. \A d \in L!Context : wants[d] \in Nat /\ wants'[d] <= Len(owner')
    BY <1>1 DEF L!CreateMutex, LockTypes
  <1>3. mutex' \in 0 .. Len(owner') /\ mutex' > 0
    BY <1>1
  <1>4. c \in Task
    BY DEF L!CreateMutex, L!Goto, LockTypes, Waiting
  <1> QED
    BY <1>1, <1>2, <1>3, <1>4 DEF L!CreateMutex, L!Goto, L!textvars, LockTypes, Waiting, Section

LEMMA LockTypesTake ==
    ASSUME LockTypes, NEW c \in L!Context, L!Take(c)
    PROVE  LockTypes'
  <1>1. c \in Task
    BY DEF L!Take, L!Goto, LockTypes, Waiting
  <1>2. owner' \in Seq(Task \cup {Nobody}) /\ Len(owner') = Len(owner)
    <2>1. /\ owner \in Seq(Task \cup {Nobody}) /\ c \in Task \cup {Nobody}
          /\ owner' = [owner EXCEPT ![wants[c]] = c]
      BY <1>1 DEF L!Take, LockTypes
    <2> QED
      BY <2>1, SeqUpdate, SMTT(60)
  <1> QED
    BY <1>1, <1>2 DEF L!Take, L!Goto, L!textvars, LockTypes, Waiting, Section

LEMMA LockTypesFormat ==
    ASSUME LockTypes, NEW c \in L!Context, L!Format(c)
    PROVE  LockTypes'
  <1> DEFINE len == piece[c][1]
             k == piece[c][3]
             char == <<c, prints[c], len * piece[c][2] + k + 1>>
  <1>1. piece[c] \in Pieces
    BY DEF LockTypes
  <1>2. len \in 1 .. 2 /\ k \in 0 .. 2 /\ piece[c][2] \in Nat /\ prints[c] \in Nat
    BY <1>1 DEF LockTypes, Pieces
  <1>3. len * piece[c][2] + k + 1 \in Nat
    <2>1. CASE len = 1
      BY <1>2, <2>1
    <2>2. CASE len = 2
      BY <1>2, <2>2
    <2> QED
      BY <1>2, <2>1, <2>2
  <1>4. char \in Chars
    BY <1>2, <1>3 DEF Chars
  <1>5. UNCHANGED <<habit, sched, prints, console>> /\ UNCHANGED L!lockvars
    BY FormatStep
  <1> HIDE DEF char
  <1>6. CASE /\ k < len /\ at' = at
             /\ printBuf' = [printBuf EXCEPT ![k + 1] = char]
             /\ piece' = [piece EXCEPT ![c] = <<len, piece[c][2], k + 1>>]
    <2>1. <<len, piece[c][2], k + 1>> \in Pieces /\ k + 1 # 3
      BY <1>2, <1>6 DEF Pieces
    <2>2. piece' \in [L!Context -> Pieces]
      BY <1>6, <2>1 DEF LockTypes
    <2>3. printBuf' \in [1 .. 3 -> Chars \cup {L!Nul}] /\ printBuf'[3] = L!Nul
      <3>1. printBuf \in [1 .. 3 -> Chars \cup {L!Nul}] /\ printBuf[3] = L!Nul
        BY DEF LockTypes
      <3>2. char \in Chars \cup {L!Nul} /\ printBuf' = [printBuf EXCEPT ![k + 1] = char]
        BY <1>4, <1>6
      <3>3. 3 \in (1 .. 3) \ {k + 1}
        BY <2>1
      <3> HIDE DEF k
      <3> QED
        BY <3>1, <3>2, <3>3, FunctionUpdate
    <2> QED
      BY <1>5, <1>6, <2>2, <2>3 DEF L!lockvars, LockTypes
  <1>7. CASE /\ ~(k < len) /\ at' = [at EXCEPT ![c] = "put"]
             /\ printBuf' = [printBuf EXCEPT ![k + 1] = L!Nul]
             /\ piece' = [piece EXCEPT ![c] = <<len, piece[c][2], 0>>]
    <2>1. <<len, piece[c][2], 0>> \in Pieces
      BY <1>2 DEF Pieces
    <2>2. piece' \in [L!Context -> Pieces]
      BY <1>7, <2>1 DEF LockTypes
    <2>3. printBuf' \in [1 .. 3 -> Chars \cup {L!Nul}] /\ printBuf'[3] = L!Nul
      BY <1>2, <1>7 DEF LockTypes
    <2> QED
      BY <1>5, <1>7, <2>2, <2>3 DEF L!lockvars, LockTypes, Waiting, Section
  <1> QED
    BY <1>6, <1>7, FormatStep DEF char

LEMMA LockTypesPut ==
    ASSUME LockTypes, NEW c \in L!Context, L!Put(c)
    PROVE  LockTypes'
  <1> DEFINE len == piece[c][1]
             k == piece[c][3]
             done == piece[c][2] + 1
  <1>1. piece[c] \in Pieces
    BY DEF LockTypes
  <1>2. len \in 1 .. 2 /\ k \in 0 .. 2 /\ piece[c][2] \in Nat
    BY <1>1 DEF Pieces
  <1>3. UNCHANGED <<habit, sched, prints, printBuf>> /\ UNCHANGED L!lockvars
    BY PutStep
  <1>4. CASE /\ printBuf[k + 1] # L!Nul /\ at' = at
             /\ console' = Append(console, printBuf[k + 1])
             /\ piece' = [piece EXCEPT ![c] = <<len, piece[c][2], k + 1>>]
    <2>1. k + 1 \in 1 .. 3 /\ k + 1 # 3
      BY <1>2, <1>4 DEF LockTypes
    <2>2. <<len, piece[c][2], k + 1>> \in Pieces
      BY <1>2, <2>1 DEF Pieces
    <2>3. piece' \in [L!Context -> Pieces]
      BY <1>4, <2>2 DEF LockTypes
    <2>4. console' \in Seq(Chars)
      BY <1>4, <2>1 DEF LockTypes
    <2> QED
      BY <1>3, <1>4, <2>3, <2>4 DEF L!lockvars, LockTypes
  <1>5. CASE /\ console' = console
             /\ piece' = [piece EXCEPT ![c] = <<len, done, 0>>]
             /\ at' = [at EXCEPT ![c] = IF len * done < 2 THEN "format" ELSE "unlock"]
    <2>1. <<len, done, 0>> \in Pieces
      BY <1>2 DEF Pieces
    <2>2. piece' \in [L!Context -> Pieces]
      BY <1>5, <2>1 DEF LockTypes
    <2> QED
      BY <1>3, <1>5, <2>2 DEF L!lockvars, LockTypes, Waiting, Section
  <1> QED
    BY <1>4, <1>5, PutStep

LEMMA LockTypesStep == LockTypes /\ [L!PrintNext]_(L!printvars) => LockTypes'
  <1> SUFFICES ASSUME LockTypes, [L!PrintNext]_(L!printvars) PROVE LockTypes'
    OBVIOUS
  <1>1. CASE UNCHANGED L!printvars
    BY <1>1 DEF L!printvars, LockTypes
  <1>2. CASE \E c \in L!Context : L!Advance(c)
    BY <1>2, LockTypesLock, LockTypesCreate, LockTypesTake, LockTypesFormat, LockTypesPut
    DEF L!Advance
  <1> QED
    BY <1>1, <1>2, LockTypesOutside DEF L!PrintNext

\* Whoever is inside a call, and how the scheduler got to where it is
Turns ==
    /\ at[Isr] # "idle" => habit.isr
    /\ sched = "off" => \A t \in Task : at[t] = "idle"
    /\ at[Main] # "idle" => sched = "off"
    /\ sched \in Task => sched \in habit.silent
    /\ \A t \in habit.silent : at[t] # "idle" => sched = t

LEMMA AdvanceMoves ==
    ASSUME LockTypes, NEW c \in L!Context, L!Advance(c)
    PROVE  /\ L!CanRun(c) /\ at[c] # "idle"
           /\ \A d \in L!Context \ {c} : at'[d] = at[d] /\ piece'[d] = piece[d]
           /\ UNCHANGED <<habit, sched, prints>>
  <1>1. /\ at \in [L!Context -> {"idle", "lock"} \cup Waiting \cup Section]
        /\ piece \in [L!Context -> Pieces]
    BY DEF LockTypes
  <1>2. CASE L!Format(c)
    BY <1>1, <1>2, FormatStep
  <1>3. CASE L!Put(c)
    BY <1>1, <1>3, PutStep
  <1>4. CASE L!Lock(c)
    BY <1>1, <1>4 DEF L!Lock, L!Goto, L!textvars
  <1>5. CASE L!CreateMutex(c) \/ L!MarkReady(c) \/ L!Ask(c) \/ L!Take(c)
    BY <1>1, <1>5 DEF L!CreateMutex, L!MarkReady, L!Ask, L!Take, L!Goto, L!textvars
  <1>6. CASE L!Unlock(c)
    BY <1>1, <1>6 DEF L!Unlock, L!Goto, L!textvars
  <1> QED
    BY <1>2, <1>3, <1>4, <1>5, <1>6 DEF L!Advance

LEMMA BeginStep ==
    ASSUME LockTypes, NEW c \in L!Context, NEW len, L!Begin(c, len)
    PROVE  /\ L!CanRun(c) /\ at[c] = "idle" /\ at'[c] = "lock"
           /\ piece'[c] = <<len, 0, 0>> /\ prints'[c] = prints[c] + 1
           /\ \A d \in L!Context \ {c} :
                at'[d] = at[d] /\ piece'[d] = piece[d] /\ prints'[d] = prints[d]
           /\ UNCHANGED <<habit, printBuf, console>> /\ UNCHANGED L!lockvars
BY DEF L!Begin, L!Goto, LockTypes

LEMMA TurnsInit == L!PrintInit => Turns
BY LockConstants DEF L!PrintInit, Turns

LEMMA TurnsStep == LockTypes /\ Turns /\ [L!PrintNext]_(L!printvars) => Turns'
  <1> SUFFICES ASSUME LockTypes, Turns, [L!PrintNext]_(L!printvars) PROVE Turns'
    OBVIOUS
  <1>1. habit \in Habits /\ habit.silent \subseteq Task
    BY LockConstants DEF LockTypes
  <1>2. CASE L!StartScheduler
    BY <1>1, <1>2, LockConstants DEF L!StartScheduler, Turns
  <1>3. CASE \E t \in Task : L!Resume(t)
    BY <1>1, <1>3, LockConstants DEF L!Resume, Turns
  <1>4. ASSUME NEW c \in L!Context, NEW len \in 1 .. 2, L!BeginPrint(c, len)
        PROVE  Turns'
    <2>1. L!Begin(c, len) /\ sched' = sched /\ (c = Isr => habit.isr)
          /\ (c \in habit.silent => sched = c)
      BY <1>1, <1>4 DEF L!BeginPrint
    <2>2. \A d \in L!Context \ {c} : at'[d] = at[d]
      BY <2>1, BeginStep
    <2>3. habit' = habit /\ L!CanRun(c)
      BY <2>1, BeginStep
    <2> QED
      BY <1>1, <2>1, <2>2, <2>3, WhoRuns, LockConstants DEF Turns
  <1>5. ASSUME NEW c \in Task, NEW len \in 1 .. 2, L!BeginSilentPrint(c, len)
        PROVE  Turns'
    <2>1. L!Begin(c, len) /\ sched = "running" /\ sched' = c /\ c \in habit.silent
      BY <1>5 DEF L!BeginSilentPrint
    <2>2. \A d \in L!Context \ {c} : at'[d] = at[d]
      BY <2>1, BeginStep, LockConstants
    <2>3. habit' = habit
      BY <2>1, BeginStep, LockConstants
    <2> QED
      BY <1>1, <2>1, <2>2, <2>3, LockConstants DEF Turns
  <1>6. ASSUME NEW c \in L!Context, L!Advance(c)
        PROVE  Turns'
    <2>1. /\ at[c] # "idle" /\ UNCHANGED <<habit, sched>>
          /\ \A d \in L!Context \ {c} : at'[d] = at[d]
      BY <1>6, AdvanceMoves
    <2> QED
      BY <1>1, <2>1, LockConstants DEF Turns
  <1>7. CASE UNCHANGED L!printvars
    BY <1>7 DEF L!printvars, Turns
  <1> QED
    BY <1>2, <1>3, <1>4, <1>5, <1>6, <1>7 DEF L!PrintNext

\* Two tasks do not print first at the same time.
NoRace == \A h \in Habits : ~h.race

\* Where only tasks and main print, all tasks under the mutex: there is one mutex,
\* made by whoever printed first, and a task in the section has it.
OneByOne == ~habit.isr /\ habit.silent = {} =>
    /\ ~ready => \A t, u \in Task : at[t] # "idle" /\ at[u] # "idle" => t = u
    /\ \A t \in Task : at[t] \in {"create", "created"} => ~ready
    /\ ready \/ (\E t \in Task : at[t] = "created") => mutex = 1 /\ Len(owner) = 1
    /\ ~ready /\ (\A t \in Task : at[t] # "created") => Len(owner) = 0
    /\ \A t \in Task :
        /\ at[t] \in {"ask", "wait"} \cup Section => ready
        /\ at[t] = "wait" => wants[t] = 1
        /\ at[t] \in Section => owner[1] = t

LEMMA OneByOneInit == L!PrintInit => OneByOne
BY LockConstants DEF L!PrintInit, OneByOne, Section

LEMMA OneByOneStep ==
    ASSUME NoRace
    PROVE  LockTypes /\ Turns /\ OneByOne /\ [L!PrintNext]_(L!printvars) => OneByOne'
  <1> SUFFICES ASSUME LockTypes, Turns, OneByOne, [L!PrintNext]_(L!printvars),
                      ~habit'.isr, habit'.silent = {}
               PROVE  OneByOne'
    BY DEF OneByOne
  <1>1. habit' = habit
    <2>1. ASSUME NEW c \in L!Context, L!Advance(c) PROVE habit' = habit
      BY <2>1, AdvanceMoves
    <2> QED
      BY <2>1 DEF L!PrintNext, L!printvars, L!StartScheduler, L!Resume, L!BeginPrint,
                  L!BeginSilentPrint, L!Begin
  <1>2. /\ ~habit.isr /\ habit.silent = {} /\ ~habit.race /\ sched \notin Task
        /\ at[Isr] = "idle"
    BY <1>1, LockConstants DEF NoRace, LockTypes, Turns
  <1>3. /\ at \in [L!Context -> {"idle", "lock"} \cup Waiting \cup Section]
        /\ owner \in Seq(Task \cup {Nobody}) /\ Len(owner) \in Nat
        /\ wants \in [L!Context -> Nat] /\ Task \subseteq L!Context
    BY LockConstants DEF LockTypes
  <1>4. CASE UNCHANGED L!printvars \/ L!StartScheduler \/ \E t \in Task : L!Resume(t)
    BY <1>1, <1>2, <1>4 DEF L!printvars, L!StartScheduler, L!Resume, L!lockvars, OneByOne
  <1>5. CASE \E t \in Task, len \in 1 .. 2 : L!BeginSilentPrint(t, len)
    BY <1>2, <1>5 DEF L!BeginSilentPrint
  <1>6. ASSUME NEW c \in L!Context, NEW len \in 1 .. 2, L!BeginPrint(c, len)
        PROVE  OneByOne'
    <2>1. /\ L!Begin(c, len)
          /\ c \in Task => ready \/ \A t \in Task : at[t] = "idle"
      BY <1>2, <1>6 DEF L!BeginPrint
    <2>2. /\ at'[c] = "lock" /\ \A d \in L!Context \ {c} : at'[d] = at[d]
          /\ UNCHANGED L!lockvars /\ at[c] = "idle"
      BY <2>1, BeginStep
    <2>3. ready' = ready /\ mutex' = mutex /\ owner' = owner /\ wants' = wants
      BY <2>2 DEF L!lockvars
    <2> QED
      BY <1>2, <1>3, <2>1, <2>2, <2>3 DEF OneByOne, Section
  <1>7. ASSUME NEW c \in L!Context, L!Advance(c)
        PROVE  OneByOne'
    <2>1. CASE L!Lock(c)
      BY <1>2, <1>3, <2>1, WhoRuns, LockConstants
      DEF L!Lock, L!Goto, L!CpuIsTask, L!lockvars, OneByOne, Section
    <2>2. CASE L!CreateMutex(c)
      <3>1. c \in Task /\ at[c] = "create" /\ at' = [at EXCEPT ![c] = "created"]
        BY <2>2 DEF L!CreateMutex, L!Goto, LockTypes, Waiting
      <3>2. ~ready /\ \A t \in Task \ {c} : at[t] = "idle"
        BY <1>2, <1>3, <3>1 DEF OneByOne
      <3>3. Len(owner) = 0
        BY <1>2, <1>3, <3>1, <3>2 DEF OneByOne
      <3>4. mutex' = 1 /\ Len(owner') = 1 /\ ready' = ready
        BY <1>3, <2>2, <3>3 DEF L!CreateMutex
      <3>5. /\ at'[c] = "created" /\ \A t \in Task \ {c} : at'[t] = "idle"
        BY <1>3, <3>1, <3>2
      <3> QED
        BY <3>1, <3>2, <3>4, <3>5 DEF OneByOne, Section
    <2>3. CASE L!MarkReady(c)
      BY <1>2, <1>3, <2>3 DEF L!MarkReady, L!Goto, OneByOne, Section, LockTypes, Waiting
    <2>4. CASE L!Ask(c)
      BY <1>2, <1>3, <2>4 DEF L!Ask, L!Goto, OneByOne, Section, LockTypes, Waiting
    <2>5. CASE L!Take(c)
      BY <1>2, <1>3, <2>5, LockConstants DEF L!Take, L!Goto, OneByOne, Section, LockTypes, Waiting
    <2>6. CASE L!Format(c)
      BY <1>2, <1>3, <2>6, FormatStep DEF L!lockvars, OneByOne, Section
    <2>7. CASE L!Put(c)
      BY <1>2, <1>3, <2>7, PutStep DEF L!lockvars, OneByOne, Section
    <2>8. CASE L!Unlock(c)
      BY <1>2, <1>3, <2>8, WhoRuns, LockConstants
      DEF L!Unlock, L!Goto, L!CpuIsTask, OneByOne, Section
    <2> QED
      BY <1>7, <2>1, <2>2, <2>3, <2>4, <2>5, <2>6, <2>7, <2>8 DEF L!Advance
  <1> QED
    BY <1>4, <1>5, <1>6, <1>7 DEF L!PrintNext

\* The two characters of c's k-th call, one behind the other
PairIn(q, c, k) == \E i \in 1 .. (Len(q) - 1) : q[i] = <<c, k, 1>> /\ q[i + 1] = <<c, k, 2>>

LEMMA PairStays ==
    ASSUME NEW q \in Seq(Chars), NEW x \in Chars, NEW c, NEW k, PairIn(q, c, k)
    PROVE  PairIn(Append(q, x), c, k)
BY DEF PairIn

LEMMA PairMade ==
    ASSUME NEW q \in Seq(Chars), NEW c, NEW k, Len(q) > 0, q[Len(q)] = <<c, k, 1>>,
           <<c, k, 2>> \in Chars
    PROVE  PairIn(Append(q, <<c, k, 2>>), c, k)
  <1> DEFINE r == Append(q, <<c, k, 2>>)
  <1>1. /\ Len(q) \in 1 .. (Len(r) - 1) /\ r[Len(q)] = <<c, k, 1>>
        /\ r[Len(q) + 1] = <<c, k, 2>>
    OBVIOUS
  <1> QED
    BY <1>1 DEF PairIn

\* m characters of c's call are on the console, the last of them at its end
Shown(q, c, m) ==
    /\ m = 1 => Len(q) > 0 /\ q[Len(q)] = <<c, prints[c], 1>>
    /\ m = 2 => PairIn(q, c, prints[c])

\* What is in the buffer and on the console while c prints
TextOf(c) ==
    LET len == piece[c][1]
        shown == len * piece[c][2]
        k == piece[c][3]
    IN  /\ at[c] \notin {"idle", "unlock"} => shown < 2
        /\ at[c] \in {"lock"} \cup Waiting => piece[c][2] = 0 /\ k = 0
        /\ at[c] = "format" =>
            /\ k <= len
            /\ \A j \in 1 .. k : printBuf[j] = <<c, prints[c], shown + j>>
            /\ Shown(console, c, shown)
        /\ at[c] = "put" =>
            /\ k <= len
            /\ \A j \in 1 .. len : printBuf[j] = <<c, prints[c], shown + j>>
            /\ printBuf[len + 1] = L!Nul
            /\ Shown(console, c, shown + k)
        /\ at[c] = "unlock" => Shown(console, c, 2)

TextsOf(c) ==
    /\ \A k \in 1 .. (prints[c] - 1) : PairIn(console, c, k)
    /\ at[c] = "idle" /\ prints[c] > 0 => PairIn(console, c, prints[c])
    /\ TextOf(c)

TextsAreWhole == \A c \in L!Context : L!Undisturbed(c) => TextsOf(c)

\* While an undisturbed context is in the section, no other one that can go on is.
LEMMA Alone ==
    ASSUME LockTypes, Turns, OneByOne,
           NEW c \in L!Context, NEW d \in L!Context, c # d, L!Undisturbed(d), L!CanRun(c),
           at[c] \in Section, at[d] \in Section
    PROVE  FALSE
  <1>1. /\ at[c] # "idle" /\ at[d] # "idle" /\ c \in Task \cup {Main, Isr}
        /\ d \in Task \cup {Main, Isr}
    BY DEF Section, L!Context
  <1>2. d # Isr /\ ~habit.isr /\ c # Isr
    BY <1>1, WhoRuns DEF Turns, L!Undisturbed
  <1>3. CASE d = Main
    BY <1>1, <1>2, <1>3, LockConstants DEF Turns
  <1>4. CASE d \in habit.silent
    BY <1>1, <1>2, <1>4, WhoRuns, LockConstants DEF Turns, LockTypes
  <1>5. CASE d \in Task /\ habit.silent = {}
    BY <1>1, <1>2, <1>5, LockConstants DEF Turns, OneByOne
  <1> QED
    BY <1>1, <1>2, <1>3, <1>4, <1>5 DEF L!Undisturbed

\* The steps that leave buffer and console alone
LEMMA AdvanceText ==
    ASSUME LockTypes, NEW c \in L!Context, L!Advance(c)
    PROVE  \/ L!Format(c) \/ L!Put(c)
           \/ UNCHANGED L!textvars
BY DEF L!Advance, L!Lock, L!CreateMutex, L!MarkReady, L!Ask, L!Take, L!Unlock

LEMMA ConsoleGrows ==
    ASSUME LockTypes, NEW c \in L!Context, L!Advance(c)
    PROVE  console' = console \/ \E x \in Chars : console' = Append(console, x)
  <1>1. CASE L!Put(c)
    <2>1. piece[c] \in Pieces
      BY DEF LockTypes
    <2>2. piece[c][3] + 1 \in 1 .. 3
      BY <2>1 DEF Pieces
    <2>3. printBuf[piece[c][3] + 1] \in Chars \cup {L!Nul}
      BY <2>2 DEF LockTypes
    <2> QED
      BY <1>1, <2>3, PutStep
  <1>2. CASE L!Format(c)
    BY <1>2, FormatStep
  <1>3. CASE UNCHANGED L!textvars
    BY <1>3 DEF L!textvars
  <1> QED
    BY <1>1, <1>2, <1>3, AdvanceText

\* A pair on the console stays there.
LEMMA PairsStay ==
    ASSUME LockTypes, NEW c \in L!Context, L!Advance(c), NEW d, NEW k, PairIn(console, d, k)
    PROVE  PairIn(console', d, k)
  <1>1. console \in Seq(Chars)
    BY DEF LockTypes
  <1>2. CASE console' = console
    BY <1>2
  <1>3. ASSUME NEW x \in Chars, console' = Append(console, x)
        PROVE  PairIn(console', d, k)
    BY <1>1, <1>3, PairStays
  <1> QED
    BY <1>2, <1>3, ConsoleGrows

\* The steps of another context
LEMMA OthersText ==
    ASSUME LockTypes, Turns, OneByOne,
           NEW c \in L!Context, NEW d \in L!Context, c # d, L!Undisturbed(d), L!Advance(c),
           TextsOf(d)
    PROVE  TextsOf(d)'
  <1>1. /\ at'[d] = at[d] /\ piece'[d] = piece[d] /\ prints'[d] = prints[d] /\ L!CanRun(c)
    BY AdvanceMoves
  <1>2. \A k : PairIn(console, d, k) => PairIn(console', d, k)
    BY PairsStay
  <1>3. at[d] \in {"format", "put"} => printBuf' = printBuf /\ console' = console
    <2>1. CASE L!Format(c)
      BY <1>1, <2>1, Alone, FormatStep DEF Section
    <2>2. CASE L!Put(c)
      BY <1>1, <2>2, Alone, PutStep DEF Section
    <2>3. CASE UNCHANGED L!textvars
      BY <2>3 DEF L!textvars
    <2> QED
      BY <2>1, <2>2, <2>3, AdvanceText
  <1>4. TextOf(d)'
    <2>1. CASE at[d] \in {"format", "put"}
      BY <1>1, <1>3, <2>1 DEF TextsOf, TextOf, Shown
    <2>2. CASE at[d] \notin {"format", "put"}
      BY <1>1, <1>2, <2>2 DEF TextsOf, TextOf, Shown
    <2> QED
      BY <2>1, <2>2
  <1> QED
    BY <1>1, <1>2, <1>4 DEF TextsOf

\* How far a call can be: in its only piece, or in the first or second of two
LEMMA PieceFacts ==
    ASSUME LockTypes, NEW c \in L!Context
    PROVE  /\ piece[c][1] \in 1 .. 2 /\ piece[c][2] \in Nat /\ piece[c][3] \in 0 .. 2
           /\ piece[c][1] * piece[c][2] < 2 =>
                \/ piece[c][1] = 2 /\ piece[c][2] = 0
                \/ piece[c][1] = 1 /\ piece[c][2] \in {0, 1}
  <1>1. piece[c] \in Pieces
    BY DEF LockTypes
  <1>2. piece[c][1] \in 1 .. 2 /\ piece[c][2] \in Nat /\ piece[c][3] \in 0 .. 2
    BY <1>1 DEF Pieces
  <1>3. CASE piece[c][1] = 1
    BY <1>2, <1>3
  <1>4. CASE piece[c][1] = 2
    BY <1>2, <1>4
  <1> QED
    BY <1>2, <1>3, <1>4

LEMMA TextLock ==
    ASSUME LockTypes, NEW c \in L!Context, TextsOf(c),
           L!Lock(c) \/ L!CreateMutex(c) \/ L!MarkReady(c) \/ L!Ask(c) \/ L!Take(c)
    PROVE  TextsOf(c)'
  <1>1. /\ UNCHANGED L!textvars /\ prints' = prints
        /\ at[c] \in {"lock"} \cup Waiting /\ at'[c] \in Waiting \cup {"format"}
    BY DEF L!Lock, L!CreateMutex, L!MarkReady, L!Ask, L!Take, L!Goto, Waiting, LockTypes
  <1>2. printBuf' = printBuf /\ console' = console /\ piece' = piece
    BY <1>1 DEF L!textvars
  <1>3. /\ at[c] \notin {"idle", "unlock", "format", "put"}
        /\ at'[c] \notin {"idle", "unlock", "put"}
    BY <1>1 DEF Waiting
  <1>4. piece[c][2] = 0 /\ piece[c][3] = 0 /\ piece[c][1] \in 1 .. 2
    BY <1>1, PieceFacts DEF TextsOf, TextOf
  <1>5. piece[c][1] * piece[c][2] = 0
    BY <1>4
  <1>6. TextOf(c)'
    <2>1. piece'[c][1] * piece'[c][2] = 0 /\ piece'[c][2] = 0 /\ piece'[c][3] = 0
          /\ 0 <= piece'[c][1]
      BY <1>2, <1>4, <1>5
    <2>2. \A j : Shown(console, c, 0)' /\ (j \notin 1 .. 0)
      BY DEF Shown
    <2>3. at'[c] \in {"format", "create", "created", "ask", "wait"}
      BY <1>1 DEF Waiting
    <2>4. CASE at'[c] = "format"
      <3>1. /\ piece'[c][3] <= piece'[c][1] /\ piece'[c][1] * piece'[c][2] < 2
            /\ Shown(console, c, piece[c][1] * piece[c][2])'
        BY <2>1 DEF Shown
      <3>2. \A j \in 1 .. piece'[c][3] :
              printBuf'[j] = <<c, prints'[c], piece'[c][1] * piece'[c][2] + j>>
        BY <2>1
      <3> QED
        BY <2>4, <3>1, <3>2 DEF TextOf, Waiting
    <2>5. CASE at'[c] \in {"create", "created", "ask", "wait"}
      <3>1. at'[c] \notin {"format", "put", "unlock"}
        BY <2>5
      <3>2. piece'[c][1] * piece'[c][2] < 2
        BY <2>1
      <3> QED
        BY <2>1, <3>1, <3>2 DEF TextOf
    <2> QED
      BY <2>3, <2>4, <2>5
  <1> QED
    BY <1>1, <1>2, <1>3, <1>6 DEF TextsOf

LEMMA TextFormat ==
    ASSUME LockTypes, NEW c \in L!Context, TextsOf(c), L!Format(c)
    PROVE  TextsOf(c)'
  <1> DEFINE len == piece[c][1]
             done == piece[c][2]
             k == piece[c][3]
             char(i) == <<c, prints[c], len * done + i>>
  <1>1. /\ at[c] = "format" /\ prints' = prints /\ console' = console
        /\ len \in 1 .. 2 /\ k \in 0 .. 2 /\ k <= len /\ len * done < 2
        /\ \A j \in 1 .. k : printBuf[j] = char(j)
        /\ Shown(console, c, len * done)
    BY FormatStep, PieceFacts DEF TextsOf, TextOf
  <1>2. DOMAIN printBuf = 1 .. 3 /\ c \in DOMAIN piece /\ c \in DOMAIN at
    BY DEF LockTypes
  <1>3. len * done + k + 1 = len * done + (k + 1)
    <2>1. \A x, y \in Nat : x + y + 1 = x + (y + 1)
      OBVIOUS
    <2>2. len * done \in Nat /\ k \in Nat
      BY <1>1, PieceFacts
    <2> QED
      BY <2>1, <2>2
  <1>4. CASE /\ k < len /\ at' = at
             /\ printBuf' = [printBuf EXCEPT ![k + 1] = <<c, prints[c], len * done + k + 1>>]
             /\ piece' = [piece EXCEPT ![c] = <<len, done, k + 1>>]
    <2>1. piece'[c] = <<len, done, k + 1>> /\ at'[c] = "format"
      BY <1>1, <1>2, <1>4
    <2>2. printBuf'[k + 1] = char(k + 1)
      BY <1>1, <1>2, <1>3, <1>4
    <2>3. \A j \in 1 .. k : printBuf'[j] = char(j)
      BY <1>1, <1>2, <1>4
    <2>4. \A j \in 1 .. k + 1 : printBuf'[j] = char(j)
      BY <1>1, <2>2, <2>3
    <2>5. TextOf(c)'
      BY <1>1, <1>4, <2>1, <2>4 DEF TextOf, Shown, Waiting
    <2> QED
      BY <1>1, <2>1, <2>5 DEF TextsOf
  <1>5. CASE /\ ~(k < len) /\ at' = [at EXCEPT ![c] = "put"]
             /\ printBuf' = [printBuf EXCEPT ![k + 1] = L!Nul]
             /\ piece' = [piece EXCEPT ![c] = <<len, done, 0>>]
    <2>1. piece'[c] = <<len, done, 0>> /\ at'[c] = "put" /\ k = len
      BY <1>1, <1>2, <1>5
    <2>2. printBuf'[len + 1] = L!Nul
      BY <1>1, <1>2, <1>5, <2>1
    <2>3. \A j \in 1 .. len : printBuf'[j] = char(j)
      BY <1>1, <1>2, <1>5, <2>1
    <2>4. len * done + 0 = len * done
      BY PieceFacts
    <2>5. TextOf(c)'
      BY <1>1, <1>5, <2>1, <2>2, <2>3, <2>4 DEF TextOf, Shown, Waiting
    <2> QED
      BY <1>1, <2>1, <2>5 DEF TextsOf
  <1> QED
    BY <1>4, <1>5, FormatStep

LEMMA TextPut ==
    ASSUME LockTypes, NEW c \in L!Context, TextsOf(c), L!Put(c)
    PROVE  TextsOf(c)'
  <1> DEFINE len == piece[c][1]
             done == piece[c][2]
             k == piece[c][3]
             char(i) == <<c, prints[c], i>>
  <1>1. /\ at[c] = "put" /\ prints' = prints /\ printBuf' = printBuf
        /\ len \in 1 .. 2 /\ k \in 0 .. 2 /\ k <= len /\ len * done < 2
        /\ \A j \in 1 .. len : printBuf[j] = char(len * done + j)
        /\ printBuf[len + 1] = L!Nul
        /\ Shown(console, c, len * done + k)
    BY PutStep, PieceFacts DEF TextsOf, TextOf
  <1>2. /\ console \in Seq(Chars) /\ c \in DOMAIN piece /\ c \in DOMAIN at
        /\ printBuf \in [1 .. 3 -> Chars \cup {L!Nul}] /\ prints[c] \in Nat
    BY DEF LockTypes
  <1>3. PICK shown \in {0, 1} :
          /\ len * done = shown
          /\ \/ len = 2 /\ done = 0 /\ shown = 0
             \/ len = 1 /\ done = shown
    BY <1>1, PieceFacts
  <1>4. \A i : char(i) # L!Nul
    BY DEF L!Nul
  <1>5. \A j : PairIn(console, c, j) => PairIn(console', c, j)
    BY PairsStay DEF L!Advance
  <1>6. CASE /\ printBuf[k + 1] # L!Nul /\ at' = at
             /\ console' = Append(console, printBuf[k + 1])
             /\ piece' = [piece EXCEPT ![c] = <<len, done, k + 1>>]
    <2>1. piece'[c] = <<len, done, k + 1>> /\ at'[c] = "put" /\ k < len
      BY <1>1, <1>2, <1>6
    <2>2. printBuf[k + 1] = char(shown + (k + 1))
      <3>1. k + 1 \in 1 .. len
        BY <1>1, <2>1
      <3> QED
        BY <1>1, <1>3, <3>1
    <2>3. shown + (k + 1) \in 1 .. 2
      BY <1>1, <1>3, <2>1
    <2>4. char(shown + (k + 1)) \in Chars
      BY <1>2, <2>3 DEF Chars
    <2>5. console' = Append(console, char(shown + (k + 1)))
      BY <1>6, <2>2
    <2>6. PICK m \in 1 .. 2 : m = shown + (k + 1) /\ Shown(console', c, m)
      <3>1. CASE shown + (k + 1) = 1
        <4>1. Len(console') > 0 /\ console'[Len(console')] = char(1)
          BY <1>2, <2>4, <2>5, <3>1
        <4> QED
          BY <3>1, <4>1 DEF Shown
      <3>2. CASE shown + (k + 1) = 2
        <4>1. shown + k = 1
          BY <1>1, <1>3, <3>2
        <4>2. Len(console) > 0 /\ console[Len(console)] = char(1)
          BY <1>1, <1>3, <4>1 DEF Shown
        <4>3. char(2) \in Chars /\ console' = Append(console, char(2))
          BY <2>4, <2>5, <3>2
        <4>4. PairIn(console', c, prints[c])
          BY <1>2, <4>2, <4>3, PairMade
        <4> QED
          BY <3>2, <4>4 DEF Shown
      <3>3. Shown(console', c, shown + (k + 1))
        BY <2>3, <3>1, <3>2
      <3> QED
        BY <2>3, <3>3
    <2>7. /\ piece'[c][1] = len /\ piece'[c][1] * piece'[c][2] = shown
          /\ piece'[c][3] = k + 1 /\ shown + piece'[c][3] = m
      BY <1>3, <2>1, <2>6
    <2>8. \A j \in 1 .. len : printBuf'[j] = <<c, prints'[c], shown + j>>
      BY <1>1, <1>3
    <2>9. Shown(console, c, m)'
      BY <1>1, <2>6 DEF Shown
    <2>10. k + 1 <= len /\ printBuf'[len + 1] = L!Nul
      BY <1>1, <2>1
    <2>11. TextOf(c)'
      BY <1>1, <1>3, <2>1, <2>7, <2>8, <2>9, <2>10 DEF TextOf, Waiting
    <2> QED
      BY <1>1, <1>5, <2>1, <2>11 DEF TextsOf
  <1>7. CASE /\ printBuf[k + 1] = L!Nul /\ console' = console
             /\ piece' = [piece EXCEPT ![c] = <<len, done + 1, 0>>]
             /\ at' = [at EXCEPT ![c] = IF len * (done + 1) < 2 THEN "format" ELSE "unlock"]
    <2>1. /\ piece'[c] = <<len, done + 1, 0>>
          /\ at'[c] = IF len * (done + 1) < 2 THEN "format" ELSE "unlock"
      BY <1>2, <1>7
    <2>2. k = len
      <3>1. CASE k < len
        <4>1. k + 1 \in 1 .. len
          BY <1>1, <3>1
        <4> QED
          BY <1>1, <1>4, <1>7, <4>1
      <3> QED
        BY <1>1, <3>1
    <2>3. len * (done + 1) = shown + k /\ shown + k \in {1, 2}
      BY <1>1, <1>3, <2>2
    <2>4. piece'[c][1] = len /\ piece'[c][1] * piece'[c][2] = shown + k /\ piece'[c][3] = 0
      BY <2>1, <2>3
    <2>5. PICK m \in {1, 2} : m = shown + k /\ Shown(console, c, m)'
      BY <1>1, <1>3, <1>7, <2>3 DEF Shown
    <2>6. TextOf(c)'
      <3>1. CASE m = 1
        <4>1. at'[c] = "format" /\ 0 <= len /\ piece'[c][1] * piece'[c][2] + 0 = 1
          BY <1>1, <2>1, <2>3, <2>4, <2>5, <3>1
        <4> QED
          BY <1>1, <2>4, <2>5, <3>1, <4>1 DEF TextOf, Waiting
      <3>2. CASE m = 2
        <4>1. at'[c] = "unlock"
          BY <2>1, <2>3, <2>5, <3>2
        <4> QED
          BY <2>5, <3>2, <4>1 DEF TextOf, Waiting
      <3> QED
        BY <2>5, <3>1, <3>2
    <2> QED
      BY <1>1, <1>5, <2>1, <2>6 DEF TextsOf
  <1> QED
    BY <1>6, <1>7, PutStep

LEMMA TextUnlock ==
    ASSUME LockTypes, NEW c \in L!Context, TextsOf(c), L!Unlock(c)
    PROVE  TextsOf(c)'
  <1>1. /\ at[c] = "unlock" /\ at'[c] = "idle" /\ prints' = prints /\ console' = console
    BY DEF L!Unlock, L!Goto, L!textvars, LockTypes
  <1> QED
    BY <1>1 DEF TextsOf, TextOf, Shown, Waiting

\* The beginning of a call, by c or by another context
LEMMA TextBegin ==
    ASSUME LockTypes, NEW c \in L!Context, NEW len \in 1 .. 2, L!Begin(c, len),
           NEW d \in L!Context, TextsOf(d)
    PROVE  TextsOf(d)'
  <1>1. /\ at[c] = "idle" /\ at'[c] = "lock" /\ piece'[c] = <<len, 0, 0>>
        /\ prints'[c] = prints[c] + 1
        /\ printBuf' = printBuf /\ console' = console
    BY BeginStep
  <1>2. CASE d = c
    <2>1. \A k \in 1 .. (prints'[c] - 1) : PairIn(console', c, k)
      <3>1. prints[c] \in Nat
        BY DEF LockTypes
      <3> QED
        BY <1>1, <1>2, <3>1 DEF TextsOf
    <2>2. piece'[c][1] * piece'[c][2] < 2 /\ piece'[c][2] = 0 /\ piece'[c][3] = 0
      BY <1>1
    <2>3. TextOf(c)'
      BY <1>1, <2>2 DEF TextOf
    <2> QED
      BY <1>1, <1>2, <2>1, <2>3 DEF TextsOf
  <1>3. CASE d # c
    <2>1. at'[d] = at[d] /\ piece'[d] = piece[d] /\ prints'[d] = prints[d]
      BY <1>3, BeginStep
    <2>2. TextOf(d)'
      BY <1>1, <2>1 DEF TextsOf, TextOf, Shown
    <2> QED
      BY <1>1, <2>1, <2>2 DEF TextsOf
  <1> QED
    BY <1>2, <1>3

LEMMA TextsInit == L!PrintInit => TextsAreWhole
  <1> SUFFICES ASSUME L!PrintInit, NEW c \in L!Context PROVE TextsOf(c)
    BY DEF TextsAreWhole
  <1> QED
    BY DEF L!PrintInit, TextsOf, TextOf, Waiting

LEMMA TextsStep ==
    LockTypes /\ Turns /\ OneByOne /\ TextsAreWhole /\ [L!PrintNext]_(L!printvars) => TextsAreWhole'
  <1> SUFFICES ASSUME LockTypes, Turns, OneByOne, TextsAreWhole, [L!PrintNext]_(L!printvars),
                      NEW d \in L!Context, L!Undisturbed(d)'
               PROVE  TextsOf(d)'
    BY DEF TextsAreWhole
  <1>1. L!Undisturbed(d)' <=> L!Undisturbed(d)
    <2>1. habit' = habit
      <3>1. ASSUME NEW c \in L!Context, L!Advance(c) PROVE habit' = habit
        BY <3>1, AdvanceMoves
      <3> QED
        BY <3>1 DEF L!PrintNext, L!printvars, L!StartScheduler, L!Resume, L!BeginPrint,
                    L!BeginSilentPrint, L!Begin
    <2> QED
      BY <2>1 DEF L!Undisturbed
  <1>2. L!Undisturbed(d) /\ TextsOf(d)
    BY <1>1 DEF TextsAreWhole
  <1>3. CASE UNCHANGED L!printvars \/ L!StartScheduler \/ \E t \in Task : L!Resume(t)
    <2>1. /\ at' = at /\ piece' = piece /\ prints' = prints /\ printBuf' = printBuf
          /\ console' = console
      BY <1>3 DEF L!printvars, L!StartScheduler, L!Resume, L!textvars
    <2>2. TextOf(d)'
      BY <1>2, <2>1 DEF TextsOf, TextOf, Shown
    <2> QED
      BY <1>2, <2>1, <2>2 DEF TextsOf
  <1>4. CASE \/ \E c \in L!Context, len \in 1 .. 2 : L!BeginPrint(c, len)
             \/ \E t \in Task, len \in 1 .. 2 : L!BeginSilentPrint(t, len)
    <2>1. PICK c \in L!Context, len \in 1 .. 2 : L!Begin(c, len)
      BY <1>4, LockConstants DEF L!BeginPrint, L!BeginSilentPrint
    <2> QED
      BY <1>2, <2>1, TextBegin
  <1>5. ASSUME NEW c \in L!Context, L!Advance(c)
        PROVE  TextsOf(d)'
    <2>1. CASE c = d
      BY <1>2, <1>5, <2>1, TextLock, TextFormat, TextPut, TextUnlock DEF L!Advance
    <2>2. CASE c # d
      BY <1>2, <1>5, <2>2, OthersText
    <2> QED
      BY <2>1, <2>2
  <1> QED
    BY <1>3, <1>4, <1>5 DEF L!PrintNext

-----------------------------------------------------------------------------
(* The behaviours of Debug *)

LEMMA LockPart == DebugSpec => L!PrintInit /\ [][L!PrintNext]_(L!printvars)
  <1>1. DebugInit => L!PrintInit
    BY DEF DebugInit
  <1>2. [DebugNext]_<<part, vars, printfvars, lockvars>> => [L!PrintNext]_(L!printvars)
    BY DEF DebugNext, lockvars, L!printvars
  <1> QED
    BY <1>1, <1>2, PTL DEF DebugSpec

LEMMA FilesPart == DebugSpec => Spec
  <1>1. DebugInit => Init
    BY DEF DebugInit
  <1>2. [DebugNext]_<<part, vars, printfvars, lockvars>> => [Next]_vars
    BY DEF DebugNext
  <1> QED
    BY <1>1, <1>2, PTL DEF DebugSpec, Spec

\* The directory with its files, and the lock with its mutexes, keep their types:
\* no task waits for a mutex that was never made (debug_lock).
THEOREM DebugTyped == DebugSpec => []DebugTypeOK
  <1>1. DebugSpec => []TypeOK
    BY FilesPart, TypeCorrect, PTL
  <1>2. LockTypes => L!PrintTypeOK
    <2> SUFFICES ASSUME LockTypes PROVE L!PrintTypeOK
      OBVIOUS
    <2>1. owner \in Seq(Task \cup {Nobody})
      BY DEF LockTypes
    <2> QED
      BY <2>1 DEF LockTypes, L!PrintTypeOK
  <1>3. DebugSpec => []LockTypes
    BY LockPart, LockTypesInit, LockTypesStep, PTL
  <1> QED
    BY <1>1, <1>2, <1>3, PTL DEF DebugTypeOK

\* No character of another context gets into a text, and none is lost or left
\* over, for every number of tasks and prints, as long as two tasks do not print
\* first at the same time (debug_printf, debug_phex).
THEOREM LinesStayWhole ==
    ASSUME NoRace
    PROVE  DebugSpec => []LinesAreWhole
  <1>1. L!PrintInit => LockTypes /\ Turns /\ OneByOne /\ TextsAreWhole
    BY LockTypesInit, TurnsInit, OneByOneInit, TextsInit
  <1>2. LockTypes /\ Turns /\ OneByOne /\ TextsAreWhole /\ [L!PrintNext]_(L!printvars)
        => (LockTypes /\ Turns /\ OneByOne /\ TextsAreWhole)'
    BY LockTypesStep, TurnsStep, OneByOneStep, TextsStep
  <1>3. LockTypes /\ TextsAreWhole => LinesAreWhole
    <2> SUFFICES ASSUME LockTypes, TextsAreWhole, NEW c \in L!Context, L!Undisturbed(c),
                        NEW k \in 1 .. (IF at[c] = "idle" THEN prints[c] ELSE prints[c] - 1)
                 PROVE  PairIn(console, c, k)
      BY DEF LinesAreWhole, L!LinesAreWhole, PairIn
    <2>1. prints[c] \in Nat /\ TextsOf(c)
      BY DEF LockTypes, TextsAreWhole
    <2>2. k \in 1 .. (prints[c] - 1) \/ (at[c] = "idle" /\ k = prints[c] /\ prints[c] > 0)
      BY <2>1
    <2> QED
      BY <2>1, <2>2 DEF TextsOf
  <1> QED
    BY <1>1, <1>2, <1>3, LockPart, PTL

-----------------------------------------------------------------------------
(* The fields of the printf engine *)

\* The engine's own characters: that they are in STRING too is nothing the provers
\* know.
Hex == {"0", "1", "2", "3", "4", "5", "6", "7", "8", "9", "a", "b", "c", "d", "e", "f",
        "x"}
Mark == {" ", "+", "-", ".", "%", "?"}
Character == STRING \cup Hex \cup Mark
Text == Seq(Character)

\* Every inhabited set of numbers has a least element.
LEMMA LeastOf ==
    ASSUME NEW N \in SUBSET Nat, NEW k \in N
    PROVE  \E c \in N : \A d \in N : c <= d
  <1> DEFINE R == {ss \in Nat \X Nat : ss[1] < ss[2]}
  <1>1. IsWellFoundedOn(R, Nat)
    BY NatLessThanWellFounded DEF OpToRel
  <1>2. N \subseteq Nat /\ N # {}
    OBVIOUS
  <1> HIDE DEF R
  <1>3. PICK c \in N : \A d \in N : ~(<<d, c>> \in R)
    BY <1>1, <1>2, WFMin
  <1>4. \A d \in N : ~(d < c)
    <2> SUFFICES ASSUME NEW d \in N, d < c PROVE <<d, c>> \in R
      BY <1>3
    <2>1. <<d, c>> \in Nat \X Nat
      BY <1>2
    <2> QED
      BY <2>1 DEF R
  <1> QED
    BY <1>2, <1>4

LEMMA MaxOfTwo == ASSUME NEW k \in Int PROVE F!AtLeast0(k) \in Nat
  <1>1. \E x \in {0, k} : \A y \in {0, k} : x >= y
    <2>1. CASE k >= 0
      BY <2>1
    <2>2. CASE ~(k >= 0)
      BY <2>2
    <2> QED
      BY <2>1, <2>2
  <1>2. F!Max({0, k}) \in {0, k} /\ \A y \in {0, k} : F!Max({0, k}) >= y
    BY <1>1 DEF F!Max
  <1> QED
    BY <1>2 DEF F!AtLeast0

LEMMA MinOfTwo ==
    ASSUME NEW a \in Int, NEW b \in Int
    PROVE  F!Min({a, b}) = IF a <= b THEN a ELSE b
  <1>1. \E x \in {a, b} : \A y \in {a, b} : x <= y
    <2>1. CASE a <= b
      BY <2>1
    <2>2. CASE ~(a <= b)
      BY <2>2
    <2> QED
      BY <2>1, <2>2
  <1>2. F!Min({a, b}) \in {a, b} /\ \A y \in {a, b} : F!Min({a, b}) <= y
    BY <1>1 DEF F!Min
  <1> QED
    BY <1>2

LEMMA TimesIsText ==
    ASSUME NEW ch \in Character, NEW k \in Nat
    PROVE  F!Times(ch, k) \in Text /\ Len(F!Times(ch, k)) = k
  <1>1. \A S : \A c \in S : [i \in 1 .. k |-> c] \in Seq(S) /\ Len([i \in 1 .. k |-> c]) = k
    OBVIOUS
  <1> QED
    BY <1>1 DEF F!Times, Text

LEMMA PaddedIsText ==
    ASSUME NEW d, d.width \in Int, NEW text \in Text, NEW len \in Int
    PROVE  F!Padded(d, text, len) \in Text
  <1>1. F!AtLeast0(d.width - len) \in Nat
    BY MaxOfTwo
  <1>2. F!Times(" ", F!AtLeast0(d.width - len)) \in Text
    <2>1. " " \in Character
      BY Zenon DEF Character, Mark
    <2> QED
      BY <1>1, <2>1, TimesIsText, Zenon
  <1>3. \A pad \in Text : pad \o text \in Text /\ text \o pad \in Text
    BY DEF Text
  <1> QED
    BY <1>2, <1>3, Zenon DEF F!Padded

\* The function inside DigitsOf
DigitsTo(m, base, f) == f = [k \in 0 .. m |->
    (IF k < base THEN <<>> ELSE f[k \div base]) \o <<F!Digit[(k % base) + 1]>>]

LEMMA DivSmaller ==
    ASSUME NEW k \in Nat, NEW base \in {2, 8, 10, 16}
    PROVE  /\ k \div base \in 0 .. k /\ (k >= base => k \div base < k)
           /\ k % base \in 0 .. (base - 1)
  <1>1. CASE base = 2
    BY <1>1
  <1>2. CASE base = 8
    BY <1>2
  <1>3. CASE base = 10
    BY <1>3
  <1>4. CASE base = 16
    BY <1>4
  <1> QED
    BY <1>1, <1>2, <1>3, <1>4

LEMMA DigitsExist ==
    ASSUME NEW val \in Nat, NEW base \in {2, 8, 10, 16}
    PROVE  \E f : DigitsTo(val, base, f)
  <1> DEFINE Bad == {m \in Nat : ~\E f : DigitsTo(m, base, f)}
             Value(f, k) == (IF k < base THEN <<>> ELSE f[k \div base])
                            \o <<F!Digit[(k % base) + 1]>>
  <1> SUFFICES ASSUME val \in Bad PROVE FALSE
    OBVIOUS
  <1>1. PICK c \in Bad : \A d \in Bad : c <= d
    <2>1. Bad \in SUBSET Nat
      OBVIOUS
    <2> HIDE DEF Bad
    <2> QED
      BY <2>1, LeastOf
  <1>2. c \in Nat /\ ~\E f : DigitsTo(c, base, f)
    OBVIOUS
  <1>3. PICK u : c > 0 => DigitsTo(c - 1, base, u)
    <2>1. CASE c > 0
      <3>1. c - 1 \in Nat /\ c - 1 \notin Bad
        BY <1>1, <1>2, <2>1
      <3> QED
        BY <3>1
    <2> QED
      BY <2>1
  <1> DEFINE v == [k \in 0 .. c |-> IF k = c THEN Value(u, c) ELSE u[k]]
  <1>4. ASSUME NEW k \in 0 .. c PROVE v[k] = Value(v, k)
    <2>1. k \in Nat /\ k \div base \in 0 .. k /\ (k >= base => k \div base < k)
      BY <1>2, DivSmaller
    <2>2. k >= base => k \div base \in 0 .. c /\ k \div base # c
      BY <1>2, <2>1
    <2>3. k >= base => v[k \div base] = u[k \div base]
      BY <2>2
    <2>4. Value(v, k) = Value(u, k)
      <3>1. CASE k < base
        BY <3>1
      <3>2. CASE ~(k < base)
        <4>1. v[k \div base] = u[k \div base]
          BY <1>2, <2>1, <2>3, <3>2
        <4> QED
          BY <3>2, <4>1, Zenon
      <3> QED
        BY <3>1, <3>2
    <2>5. CASE k = c
      <3>1. v[c] = Value(u, c)
        BY <1>2
      <3> QED
        BY <2>4, <2>5, <3>1
    <2>6. CASE k # c
      <3>1. v[k] = u[k] /\ k \in 0 .. (c - 1) /\ c > 0
        BY <1>2, <2>6
      <3>2. u[k] = Value(u, k)
        BY <1>3, <3>1 DEF DigitsTo
      <3> QED
        BY <2>4, <3>1, <3>2
    <2> QED
      BY <2>5, <2>6
  <1>5. v = [k \in 0 .. c |-> v[k]]
    OBVIOUS
  <1>6. DigitsTo(c, base, v)
    <2> HIDE DEF v
    <2> QED
      BY <1>4, <1>5 DEF DigitsTo
  <1> HIDE DEF v
  <1> QED
    BY <1>2, <1>6

LEMMA DigitsIs ==
    ASSUME NEW val \in Nat, NEW base \in {2, 8, 10, 16}
    PROVE  \E f : DigitsTo(val, base, f) /\ F!DigitsOf(val, base) = f[val]
  <1> DEFINE f == CHOOSE f : f = [k \in 0 .. val |->
                 (IF k < base THEN <<>> ELSE f[k \div base]) \o <<F!Digit[(k % base) + 1]>>]
  <1>1. f = [k \in 0 .. val |->
                 (IF k < base THEN <<>> ELSE f[k \div base]) \o <<F!Digit[(k % base) + 1]>>]
    BY DigitsExist, Zenon DEF DigitsTo
  <1>2. F!DigitsOf(val, base) = f[val]
    BY Zenon DEF F!DigitsOf
  <1> QED
    BY <1>1, <1>2, Zenon DEF DigitsTo

LEMMA DigitsAreText ==
    ASSUME NEW val \in Nat, NEW base \in {2, 8, 10, 16}
    PROVE  F!DigitsOf(val, base) \in Text
  <1>1. PICK f : DigitsTo(val, base, f) /\ F!DigitsOf(val, base) = f[val]
    BY DigitsIs
  <1> DEFINE Bad == {m \in Nat : m <= val /\ f[m] \notin Text}
  <1> SUFFICES ASSUME val \in Bad PROVE FALSE
    BY <1>1
  <1>2. PICK c \in Bad : \A d \in Bad : c <= d
    <2>1. Bad \in SUBSET Nat
      OBVIOUS
    <2> HIDE DEF Bad
    <2> QED
      BY <2>1, LeastOf
  <1>3. c \in Nat /\ c <= val /\ f[c] \notin Text
    OBVIOUS
  <1>4. /\ c \div base \in 0 .. c /\ (c >= base => c \div base < c)
        /\ c % base \in 0 .. 15
    BY <1>3, DivSmaller
  <1>5. f[c] = (IF c < base THEN <<>> ELSE f[c \div base]) \o <<F!Digit[(c % base) + 1]>>
    <2>1. \A k \in 0 .. val : f[k] =
            (IF k < base THEN <<>> ELSE f[k \div base]) \o <<F!Digit[(k % base) + 1]>>
      BY <1>1, Zenon DEF DigitsTo
    <2>2. c \in 0 .. val
      BY <1>3
    <2> QED
      BY <2>1, <2>2, Zenon
  <1>6. F!Digit[(c % base) + 1] \in Character
    <2>1. \A i \in 1 .. 16 : F!Digit[i] \in Character
      BY DEF F!Digit, Character, Hex
    <2> QED
      BY <1>4, <2>1
  <1>7. (IF c < base THEN <<>> ELSE f[c \div base]) \in Text
    <2>1. CASE c < base
      BY <2>1 DEF Text
    <2>2. CASE ~(c < base)
      <3>1. c \div base \in Nat /\ c \div base < c /\ c \div base <= val
        BY <1>3, <1>4, <2>2
      <3> QED
        BY <1>2, <2>2, <3>1
    <2> QED
      BY <2>1, <2>2
  <1> QED
    BY <1>3, <1>5, <1>6, <1>7 DEF Text

\* FlattenSeq, a sequence of texts in one
FlatTo(seqs, m, f) == f = [i \in 1 .. m |-> IF i = 1 THEN seqs[i] ELSE f[i - 1] \o seqs[i]]

LEMMA FlatExists ==
    ASSUME NEW seqs \in Seq(Text)
    PROVE  \E f : FlatTo(seqs, Len(seqs), f)
  <1> DEFINE Bad == {m \in Nat : m <= Len(seqs) /\ ~\E f : FlatTo(seqs, m, f)}
  <1> SUFFICES ASSUME Len(seqs) \in Bad PROVE FALSE
    OBVIOUS
  <1>1. PICK c \in Bad : \A d \in Bad : c <= d
    <2>1. Bad \in SUBSET Nat
      OBVIOUS
    <2> HIDE DEF Bad
    <2> QED
      BY <2>1, LeastOf
  <1>2. c \in Nat /\ c <= Len(seqs) /\ ~\E f : FlatTo(seqs, c, f)
    OBVIOUS
  <1>3. PICK u : c > 0 => FlatTo(seqs, c - 1, u)
    <2>1. CASE c > 0
      <3>1. c - 1 \in Nat /\ c - 1 \notin Bad
        BY <1>1, <1>2, <2>1
      <3> QED
        BY <1>2, <3>1
    <2> QED
      BY <2>1
  <1> DEFINE v == [i \in 1 .. c |-> IF i = c THEN (IF c = 1 THEN seqs[c] ELSE u[c - 1] \o seqs[c])
                                    ELSE u[i]]
  <1>4. ASSUME NEW i \in 1 .. c
        PROVE  v[i] = IF i = 1 THEN seqs[i] ELSE v[i - 1] \o seqs[i]
    <2>1. CASE i = c
      <3>1. i # 1 => i - 1 \in 1 .. c /\ i - 1 # c /\ i - 1 = c - 1
        BY <1>2, <2>1
      <3>2. i # 1 => v[i - 1] = u[c - 1]
        BY <2>1, <3>1, Zenon
      <3> QED
        BY <2>1, <3>2
    <2>2. CASE i # c
      <3>1. i \in 1 .. c - 1 /\ v[i] = u[i] /\ (i # 1 => v[i - 1] = u[i - 1]) /\ c > 0
        BY <1>2, <2>2
      <3>2. u[i] = IF i = 1 THEN seqs[i] ELSE u[i - 1] \o seqs[i]
        BY <1>3, <3>1 DEF FlatTo
      <3> QED
        BY <3>1, <3>2
    <2> QED
      BY <2>1, <2>2
  <1>5. v = [i \in 1 .. c |-> v[i]]
    OBVIOUS
  <1>6. FlatTo(seqs, c, v)
    <2> HIDE DEF v
    <2> QED
      BY <1>4, <1>5 DEF FlatTo
  <1> HIDE DEF v
  <1> QED
    BY <1>2, <1>6

LEMMA FlatIsText ==
    ASSUME NEW seqs \in Seq(Text)
    PROVE  F!FlattenSeq(seqs) \in Text
  <1>1. CASE Len(seqs) = 0
    <2>1. F!FlattenSeq(seqs) = seqs
      BY <1>1 DEF F!FlattenSeq
    <2>2. seqs = <<>>
      BY <1>1
    <2> QED
      BY <2>1, <2>2 DEF Text
  <1>2. CASE Len(seqs) # 0
    <2> DEFINE f == CHOOSE f : f = [i \in 1 .. Len(seqs) |->
                       IF i = 1 THEN seqs[i] ELSE f[i - 1] \o seqs[i]]
    <2>1. f = [i \in 1 .. Len(seqs) |-> IF i = 1 THEN seqs[i] ELSE f[i - 1] \o seqs[i]]
      BY FlatExists, Zenon DEF FlatTo
    <2>2. F!FlattenSeq(seqs) = f[Len(seqs)]
      BY <1>2, Zenon DEF F!FlattenSeq
    <2>3. PICK g : /\ g = [i \in 1 .. Len(seqs) |-> IF i = 1 THEN seqs[i] ELSE g[i - 1] \o seqs[i]]
                   /\ F!FlattenSeq(seqs) = g[Len(seqs)]
      BY <2>1, <2>2, Zenon
    <2> HIDE DEF f
    <2> DEFINE Bad == {m \in Nat : m \in 1 .. Len(seqs) /\ g[m] \notin Text}
    <2>4. Len(seqs) \in 1 .. Len(seqs) /\ Len(seqs) \in Nat
      BY <1>2
    <2> SUFFICES ASSUME Len(seqs) \in Bad PROVE FALSE
      BY <2>3, <2>4
    <2>5. PICK c \in Bad : \A d \in Bad : c <= d
      <3>1. Bad \in SUBSET Nat
        OBVIOUS
      <3> HIDE DEF Bad
      <3> QED
        BY <3>1, LeastOf
    <2>6. c \in 1 .. Len(seqs) /\ g[c] \notin Text
      OBVIOUS
    <2>7. g[c] = IF c = 1 THEN seqs[c] ELSE g[c - 1] \o seqs[c]
      BY <2>3, <2>6, Zenon
    <2>8. seqs[c] \in Text
      BY <2>6
    <2>9. c # 1 => g[c - 1] \in Text
      <3>1. c # 1 => c - 1 \in 1 .. Len(seqs) /\ c - 1 < c /\ c - 1 \in Nat
        BY <2>6
      <3> QED
        BY <2>5, <2>6, <3>1
    <2> QED
      BY <2>6, <2>7, <2>8, <2>9 DEF Text
  <1> QED
    BY <1>1, <1>2

LEMMA ConversionIs ==
    ASSUME NEW d \in F!Conversions
    PROVE  /\ d.conv \in {"literal", "unknown", "c", "s", "d", "f", "q"}
           /\ d.conv \in {"literal", "c"} => d.ch \in STRING
           /\ d.conv \in {"c", "s", "d", "f", "q"} => d.width \in Int
           /\ d.conv \in {"s", "d", "f"} => d.precision \in Int
           /\ d.conv = "s" => d.str \in Seq(STRING)
           /\ d.conv = "d" => d.num \in Int /\ d.base \in {2, 8, 10, 16}
           /\ d.conv = "f" => d.hundredths \in Nat /\ d.precision \in {0, 1}
           /\ d.conv = "q" => d.bytes \in Seq(0 .. 255) /\ d.size \in Nat \ {0}
  <1>1. /\ d.conv \in {"literal", "unknown", "c", "s", "d", "f", "q"}
        /\ d.conv \in {"literal", "c"} => d.ch \in STRING
        /\ d.conv \in {"c", "s", "d", "f", "q"} => d.width \in Int
    BY DEF F!Conversions
  <1>2. d.conv \in {"s", "d"} => d.precision \in Int
    BY DEF F!Conversions
  <1>3. /\ d.conv = "s" => d.str \in Seq(STRING)
        /\ d.conv = "d" => d.num \in Int /\ d.base \in {2, 8, 10, 16}
        /\ d.conv = "q" => d.bytes \in Seq(0 .. 255) /\ d.size \in Nat \ {0}
    BY DEF F!Conversions
  <1>4. d.conv = "f" => d.hundredths \in 0 .. 99 /\ d.precision \in {0, 1}
    BY DEF F!Conversions
  <1>5. 0 .. 99 \subseteq Nat /\ {0, 1} \subseteq Int
    OBVIOUS
  <1> QED
    BY <1>1, <1>2, <1>3, <1>4, <1>5

\* What texts are made of
LEMMA TextParts ==
    /\ <<>> \in Text
    /\ \A c \in Character : <<c>> \in Text
    /\ \A c, e \in Character : <<c, e>> \in Text
    /\ \A s, t \in Text : s \o t \in Text
BY DEF Text

LEMMA Characters ==
    /\ STRING \subseteq Character /\ " " \in Character /\ "+" \in Character /\ "-" \in Character
    /\ "." \in Character /\ "%" \in Character /\ "?" \in Character
    /\ "0" \in Character /\ "x" \in Character /\ "b" \in Character
BY Zenon DEF Character, Mark, Hex

LEMMA CharField ==
    ASSUME NEW d \in F!Conversions, d.conv = "c"
    PROVE  F!CharField(d) \in Text
  <1>1. d.width \in Int /\ d.ch \in STRING
    BY ConversionIs
  <1>2. <<d.ch>> \in Text
    BY <1>1, TextParts, Characters, Zenon
  <1> QED
    BY <1>1, <1>2, PaddedIsText DEF F!CharField

LEMMA StringField ==
    ASSUME NEW d \in F!Conversions, d.conv = "s"
    PROVE  F!StringField(d) \in Text
  <1> DEFINE len == IF d.precision < 0 THEN Len(d.str) ELSE F!Min({d.precision, Len(d.str)})
  <1>1. d.width \in Int /\ d.str \in Seq(STRING) /\ d.precision \in Int
    BY ConversionIs
  <1>2. len \in 0 .. Len(d.str)
    BY <1>1, MinOfTwo
  <1>3. \A s \in Seq(STRING) : s \in Text
    <2>1. \A S, T : S \subseteq T => Seq(S) \subseteq Seq(T)
      OBVIOUS
    <2> QED
      BY <2>1, Characters, Zenon DEF Text
  <1>4. SubSeq(d.str, 1, len) \in Text
    <2>1. \A s \in Seq(STRING) : \A k \in 0 .. Len(s) : SubSeq(s, 1, k) \in Seq(STRING)
      OBVIOUS
    <2> HIDE DEF len
    <2> QED
      BY <1>1, <1>2, <1>3, <2>1
  <1>5. F!Padded(d, SubSeq(d.str, 1, len), len) \in Text
    <2> HIDE DEF len
    <2> QED
      BY <1>1, <1>2, <1>4, PaddedIsText
  <1> QED
    BY <1>5, Zenon DEF F!StringField

\* Texts laid out: head, zeros and digits, padded
LEMMA LaidOutIsText ==
    ASSUME NEW d, d.width \in Int, d.precision \in Int, NEW head \in Text, NEW digits \in Text
    PROVE  F!LaidOut(d, head, digits) \in Text
  <1>1. Len(head) \in Int /\ Len(digits) \in Int
    BY DEF Text
  <1>2. \A k \in Int : F!Times("0", F!AtLeast0(k)) \in Text /\ F!AtLeast0(k) \in Int
    <2>1. \A k \in Int : F!AtLeast0(k) \in Nat /\ F!AtLeast0(k) \in Int
      BY MaxOfTwo
    <2>2. "0" \in Character
      BY Characters, Zenon
    <2> QED
      BY <2>1, <2>2, TimesIsText
  <1>3. head \o F!Times("0", F!AtLeast0(d.width - Len(head) - Len(digits))) \o digits \in Text
    <2>1. d.width - Len(head) - Len(digits) \in Int
      BY <1>1
    <2> QED
      BY <1>2, <2>1, TextParts
  <1> DEFINE zeros == F!AtLeast0(d.precision - Len(digits))
  <1>4. zeros \in Int /\ F!Times("0", zeros) \in Text
    BY <1>1, <1>2
  <1>5. head \o F!Times("0", zeros) \o digits \in Text /\ Len(head) + zeros + Len(digits) \in Int
    BY <1>1, <1>4, TextParts
  <1>6. F!Padded(d, head \o F!Times("0", zeros) \o digits, Len(head) + zeros + Len(digits)) \in Text
    <2> HIDE DEF zeros
    <2> QED
      BY <1>5, PaddedIsText
  <1> QED
    BY <1>3, <1>6, Zenon DEF F!LaidOut

LEMMA NumberField ==
    ASSUME NEW d \in F!Conversions, d.conv = "d"
    PROVE  F!NumberField(d) \in Text
  <1>1. d.width \in Int /\ d.precision \in Int /\ d.num \in Int /\ d.base \in {2, 8, 10, 16}
    BY ConversionIs
  <1>2. F!Sign(d) \in {<<"-">>, <<"+">>, <<" ">>, <<>>}
    BY Zenon DEF F!Sign, F!PositiveSign
  <1>3. F!Sign(d) \in Text
    BY <1>2, TextParts, Characters, Zenon
  <1>4. F!Special(d) \in {<<>>, <<"0">>, <<"0", "x">>, <<"0", "b">>}
    BY <1>1 DEF F!Special
  <1>5. F!Special(d) \in Text
    BY <1>4, TextParts, Characters, Zenon
  <1>6. F!Sign(d) \o F!Special(d) \in Text
    BY <1>3, <1>5, TextParts
  <1>7. F!NumberDigits(d) \in Text
    <2>1. (IF d.num < 0 THEN -d.num ELSE d.num) \in Nat
      BY <1>1
    <2> QED
      BY <1>1, <2>1, DigitsAreText DEF F!NumberDigits
  <1> QED
    BY <1>1, <1>6, <1>7, LaidOutIsText DEF F!NumberField

LEMMA FloatField ==
    ASSUME NEW d \in F!Conversions, d.conv = "f"
    PROVE  F!FloatField(d) \in Text
  <1> DEFINE parts == F!Decentralized(d.hundredths, d.precision)
             text == F!DoubleText(d, parts)
             sign == F!PositiveSign(d)
  <1>1. d.width \in Int /\ d.hundredths \in Nat /\ d.precision \in {0, 1}
    BY ConversionIs
  <1>2. parts[1] \in Nat /\ parts[2] \in Nat
    <2>1. CASE d.precision = 0
      BY <1>1, <2>1 DEF F!Decentralized, F!RoundedUp
    <2>2. CASE d.precision = 1
      BY <1>1, <2>2 DEF F!Decentralized, F!RoundedUp
    <2> QED
      BY <1>1, <2>1, <2>2
  <1> HIDE DEF parts
  <1>3. F!DigitsOf(parts[1], 10) \in Text /\ F!DigitsOf(parts[2], 10) \in Text
    BY <1>2, DigitsAreText
  <1>4. \A k \in Int : F!Times("0", F!AtLeast0(k)) \in Text
    <2>1. \A k \in Int : F!AtLeast0(k) \in Nat
      BY MaxOfTwo
    <2>2. "0" \in Character
      BY Characters, Zenon
    <2> QED
      BY <2>1, <2>2, TimesIsText
  <1>5. text \in Text
    <2> DEFINE dot == IF d.precision > 0 \/ "special" \in d.flags THEN <<".">> ELSE <<>>
               fraction == IF d.precision > 0 THEN F!DigitsOf(parts[2], 10) ELSE <<>>
    <2>1. dot \in Text
      BY TextParts, Characters, Zenon
    <2>2. fraction \in Text
      BY <1>3, TextParts, Zenon
    <2>3. d.precision - Len(fraction) \in Int
      <3> HIDE DEF fraction
      <3> QED
        BY <1>1, <2>2 DEF Text
    <2>4. text = F!DigitsOf(parts[1], 10) \o dot
                 \o F!Times("0", F!AtLeast0(d.precision - Len(fraction))) \o fraction
      BY Zenon DEF F!DoubleText
    <2> HIDE DEF dot, fraction
    <2>5. F!Times("0", F!AtLeast0(d.precision - Len(fraction))) \in Text
      BY <1>4, <2>3
    <2>6. \A s, t, v, w \in Text : s \o t \o v \o w \in Text
      BY TextParts
    <2> QED
      BY <1>3, <2>1, <2>2, <2>4, <2>5, <2>6
  <1>6. sign \in Text
    BY TextParts, Characters, Zenon DEF F!PositiveSign
  <1>7. F!FloatField(d) = F!LaidOutDouble(d, sign, text)
    BY Zenon DEF F!FloatField, parts
  <1> HIDE DEF text, sign
  <1>8. Len(sign) \in Int /\ Len(text) \in Int
    BY <1>5, <1>6 DEF Text
  <1>9. sign \o F!Times("0", F!AtLeast0(d.width - (Len(sign) + Len(text)))) \o text \in Text
    <2>1. d.width - (Len(sign) + Len(text)) \in Int
      BY <1>1, <1>8
    <2> QED
      BY <1>4, <1>5, <1>6, <2>1, TextParts
  <1>10. F!Padded(d, sign \o text, Len(sign) + Len(text)) \in Text
    <2>1. sign \o text \in Text /\ Len(sign) + Len(text) \in Int
      BY <1>5, <1>6, <1>8, TextParts
    <2> QED
      BY <1>1, <2>1, PaddedIsText
  <1> QED
    BY <1>7, <1>9, <1>10, Zenon DEF F!LaidOutDouble

LEMMA HexIsText ==
    ASSUME NEW bytes \in Seq(0 .. 255)
    PROVE  F!HexOf(bytes) \in Text
  <1> DEFINE pair(j) == LET b == bytes[Len(bytes) + 1 - j]
                        IN  <<F!Digit[(b \div 16) + 1], F!Digit[(b % 16) + 1]>>
  <1>1. ASSUME NEW j \in 1 .. Len(bytes) PROVE pair(j) \in Text
    <2>1. Len(bytes) + 1 - j \in 1 .. Len(bytes)
      OBVIOUS
    <2>2. bytes[Len(bytes) + 1 - j] \in 0 .. 255
      <3>1. \A S : \A s \in Seq(S) : \A i \in 1 .. Len(s) : s[i] \in S
        OBVIOUS
      <3> QED
        BY <2>1, <3>1
    <2>3. \A b \in 0 .. 255 : (b \div 16) + 1 \in 1 .. 16 /\ (b % 16) + 1 \in 1 .. 16
      OBVIOUS
    <2>4. \A i \in 1 .. 16 : F!Digit[i] \in Character
      BY DEF F!Digit, Character, Hex
    <2> QED
      BY <2>2, <2>3, <2>4, TextParts
  <1> HIDE DEF pair
  <1>2. [j \in 1 .. Len(bytes) |-> pair(j)] \in Seq(Text)
    BY <1>1
  <1>3. F!HexOf(bytes) = F!FlattenSeq([j \in 1 .. Len(bytes) |-> pair(j)])
    BY Zenon DEF F!HexOf, pair
  <1> QED
    BY <1>2, <1>3, FlatIsText

LEMMA PieceIsBytes ==
    ASSUME NEW bytes \in Seq(0 .. 255), NEW m \in Nat \ {0}, NEW k \in 0 .. Len(bytes)
    PROVE  SubSeq(bytes, m, k) \in Seq(0 .. 255)
  <1>1. CASE m > k
    <2>1. \A s \in Seq(0 .. 255) : \A x, y \in Nat : x > y => SubSeq(s, x, y) = <<>>
      OBVIOUS
    <2>2. <<>> \in Seq(0 .. 255)
      OBVIOUS
    <2> QED
      BY <1>1, <2>1, <2>2
  <1>2. CASE m <= k
    <2>1. \A S : \A s \in Seq(S) : \A x, y \in 1 .. Len(s) : x <= y => SubSeq(s, x, y) \in Seq(S)
      OBVIOUS
    <2>2. m \in 1 .. Len(bytes) /\ k \in 1 .. Len(bytes)
      BY <1>2
    <2> QED
      BY <1>2, <2>1, <2>2
  <1> QED
    BY <1>1, <1>2

\* Where the items of an array are: no item reaches past its end.
LEMMA ItemsFit ==
    ASSUME NEW size_ \in Nat \ {0}, NEW whole \in Nat, NEW over \in 0 .. size_ - 1,
           NEW i \in 1 .. whole
    PROVE  /\ (i - 1) * size_ \in Nat /\ i * size_ \in Nat
           /\ i * size_ <= size_ * whole + over
  <1>1. (i - 1) * size_ \in Nat /\ i * size_ \in Nat /\ size_ * i = i * size_
        /\ size_ * whole \in Nat
    OBVIOUS
  <1>2. size_ * i <= size_ * whole
    <2>1. CASE i = whole
      BY <1>1, <2>1
    <2>2. CASE i < whole
      <3>1. size_ * i + size_ <= size_ * whole
        BY <2>2, MultiplesApart
      <3>2. \A x, y, z \in Nat : x + y <= z => x <= z
        OBVIOUS
      <3> QED
        BY <1>1, <3>1, <3>2
    <2> QED
      BY <2>1, <2>2
  <1>3. \A x, y, z \in Nat : x <= y => x <= y + z
    OBVIOUS
  <1> QED
    BY <1>1, <1>2, <1>3

LEMMA ArrayField ==
    ASSUME NEW d \in F!Conversions, d.conv = "q"
    PROVE  F!ArrayField(d) \in Text
  <1>1. d.width \in Int /\ d.bytes \in Seq(0 .. 255) /\ d.size \in Nat \ {0}
    BY ConversionIs
  <1>2. PICK size_ \in Nat \ {0} : size_ = d.size
    BY <1>1
  <1>3. PICK length_ \in Nat : length_ = Len(d.bytes)
    BY <1>1
  <1>4. PICK whole \in Nat, over \in 0 .. size_ - 1 :
          /\ whole = length_ \div size_ /\ over = length_ % size_
          /\ length_ = size_ * whole + over
    BY DivMod
  <1> DEFINE item(i) == (IF i > 1 THEN <<" ">> ELSE <<>>)
                        \o F!HexOf(SubSeq(d.bytes, (i - 1) * d.size + 1, i * d.size))
  <1>5. ASSUME NEW i \in 1 .. whole PROVE item(i) \in Text
    <2>1. PICK m \in Nat, k \in Nat : m = (i - 1) * size_ /\ k = i * size_ /\ k <= length_
      BY <1>4, ItemsFit
    <2>2. m = (i - 1) * d.size /\ k = i * d.size
      BY <1>2, <2>1
    <2>3. m + 1 \in Nat \ {0} /\ k \in 0 .. Len(d.bytes)
      BY <1>3, <2>1
    <2>4. SubSeq(d.bytes, m + 1, k) \in Seq(0 .. 255)
      BY <1>1, <2>3, PieceIsBytes
    <2>5. F!HexOf(SubSeq(d.bytes, (i - 1) * d.size + 1, i * d.size)) \in Text
      BY <2>2, <2>4, HexIsText
    <2>6. (IF i > 1 THEN <<" ">> ELSE <<>>) \in Text
      BY TextParts, Characters, Zenon
    <2> QED
      BY <2>5, <2>6, TextParts, Zenon
  <1>6. F!FlattenSeq([i \in 1 .. whole |-> item(i)]) \in Text
    <2> HIDE DEF item
    <2>1. [i \in 1 .. whole |-> item(i)] \in Seq(Text)
      BY <1>5
    <2> QED
      BY <2>1, FlatIsText
  <1> DEFINE rest == IF over = 0 THEN <<>>
               ELSE <<" ">> \o F!Times("?", 2 * (d.size - over))
                    \o F!HexOf(SubSeq(d.bytes, whole * d.size + 1, whole * d.size + over))
  <1>7. rest \in Text
    <2>1. 2 * (size_ - over) \in Nat
      BY <1>4
    <2>2. F!Times("?", 2 * (d.size - over)) \in Text
      BY <1>2, <2>1, TimesIsText, Characters, Zenon
    <2>3. PICK m \in Nat : m = whole * size_ /\ m + over = length_
      <3>1. size_ * whole \in Nat /\ whole * size_ = size_ * whole
        OBVIOUS
      <3> QED
        BY <1>4, <3>1
    <2>4. m + 1 \in Nat \ {0} /\ m + over \in 0 .. Len(d.bytes) /\ m = whole * d.size
      <3>1. m = whole * d.size
        BY <1>2, <2>3, Zenon
      <3>2. \A x, y, z \in Nat : x + y = z => x + 1 \in Nat \ {0} /\ x + y \in 0 .. z
        OBVIOUS
      <3>3. m + over = length_ /\ over \in Nat
        BY <2>3
      <3>4. m + 1 \in Nat \ {0} /\ m + over \in 0 .. length_
        BY <3>2, <3>3
      <3> QED
        BY <1>3, <3>1, <3>4, Zenon
    <2>5. SubSeq(d.bytes, m + 1, m + over) \in Seq(0 .. 255)
      BY <1>1, <2>4, PieceIsBytes
    <2>6. F!HexOf(SubSeq(d.bytes, whole * d.size + 1, whole * d.size + over)) \in Text
      BY <2>4, <2>5, HexIsText, Zenon
    <2>7. <<" ">> \in Text
      BY TextParts, Characters, Zenon
    <2>8. <<" ">> \o F!Times("?", 2 * (d.size - over)) \in Text
      BY <2>2, <2>7, TextParts, Zenon
    <2> QED
      BY <2>6, <2>8, TextParts, Zenon
  <1>8. F!ArrayText(d, whole, over) \in Text
    <2>1. F!ArrayText(d, whole, over) = F!FlattenSeq([i \in 1 .. whole |-> item(i)]) \o rest
      BY ZenonT(60) DEF F!ArrayText
    <2> HIDE DEF item, rest
    <2> QED
      BY <1>6, <1>7, <2>1, TextParts, Zenon
  <1> DEFINE reckoned == whole - (IF over > 0 THEN 1 ELSE 0)
  <1>9. reckoned \in Int
    BY <1>4
  <1>10. F!ArrayField(d) = F!Padded(d, F!ArrayText(d, whole, over),
                                    reckoned * 2 * d.size + reckoned - 1)
    BY <1>2, <1>3, <1>4, Zenon DEF F!ArrayField
  <1> HIDE DEF reckoned
  <1>11. \A x, y \in Int : x * 2 * y + x - 1 \in Int
    OBVIOUS
  <1>12. d.size \in Int
    BY <1>2
  <1>13. reckoned * 2 * d.size + reckoned - 1 \in Int
    BY <1>9, <1>11, <1>12, Zenon
  <1> QED
    BY <1>1, <1>8, <1>10, <1>13, PaddedIsText

\* Every directive prints a text.
LEMMA FieldIsText ==
    ASSUME NEW d \in F!Conversions
    PROVE  F!Field(d) \in Text
  <1>1. CASE d.conv = "literal"
    <2>1. F!Field(d) = <<d.ch>>
      BY <1>1, Zenon DEF F!Field
    <2> QED
      BY <1>1, <2>1, ConversionIs, TextParts, Characters, Zenon
  <1>2. CASE d.conv = "unknown"
    <2>1. F!Field(d) = <<"%">>
      BY <1>2, Zenon DEF F!Field
    <2> QED
      BY <2>1, TextParts, Characters, Zenon
  <1>3. CASE d.conv = "c"
    <2>1. F!Field(d) = F!CharField(d)
      BY <1>3, Zenon DEF F!Field
    <2> QED
      BY <1>3, <2>1, CharField
  <1>4. CASE d.conv = "s"
    <2>1. F!Field(d) = F!StringField(d)
      BY <1>4, Zenon DEF F!Field
    <2> QED
      BY <1>4, <2>1, StringField
  <1>5. CASE d.conv = "d"
    <2>1. F!Field(d) = F!NumberField(d)
      BY <1>5, Zenon DEF F!Field
    <2> QED
      BY <1>5, <2>1, NumberField
  <1>6. CASE d.conv = "f"
    <2>1. F!Field(d) = F!FloatField(d)
      BY <1>6, Zenon DEF F!Field
    <2> QED
      BY <1>6, <2>1, FloatField
  <1>7. CASE d.conv = "q"
    <2>1. F!Field(d) = F!ArrayField(d)
      BY <1>7, Zenon DEF F!Field
    <2> QED
      BY <1>7, <2>1, ArrayField
  <1> QED
    BY <1>1, <1>2, <1>3, <1>4, <1>5, <1>6, <1>7, ConversionIs

-----------------------------------------------------------------------------
(* The streams of the printf engine *)

LineEnd == "\n"

\* The function inside HandedOn
HandedTo(s, text, m, f) ==
    f = [k \in 0 .. m |-> IF k = 0 THEN s ELSE F!InByte(f[k - 1], text[k])]

LEMMA HandedExists ==
    ASSUME NEW s, NEW text \in Text
    PROVE  \E f : HandedTo(s, text, Len(text), f)
  <1> DEFINE Bad == {m \in Nat : m <= Len(text) /\ ~\E f : HandedTo(s, text, m, f)}
  <1>1. Len(text) \in Nat
    BY DEF Text
  <1> SUFFICES ASSUME Len(text) \in Bad PROVE FALSE
    BY <1>1
  <1>2. PICK c \in Bad : \A d \in Bad : c <= d
    <2>1. Bad \in SUBSET Nat
      OBVIOUS
    <2> HIDE DEF Bad
    <2> QED
      BY <2>1, LeastOf
  <1>3. c \in Nat /\ c <= Len(text) /\ ~\E f : HandedTo(s, text, c, f)
    OBVIOUS
  <1>4. PICK u : c > 0 => HandedTo(s, text, c - 1, u)
    <2>1. CASE c > 0
      <3>1. c - 1 \in Nat /\ c - 1 \notin Bad
        BY <1>2, <1>3, <2>1
      <3> QED
        BY <1>1, <1>3, <3>1
    <2> QED
      BY <2>1
  <1> DEFINE v == [k \in 0 .. c |-> IF k = c THEN (IF c = 0 THEN s ELSE F!InByte(u[c - 1], text[c]))
                                    ELSE u[k]]
  <1>5. ASSUME NEW k \in 0 .. c
        PROVE  v[k] = IF k = 0 THEN s ELSE F!InByte(v[k - 1], text[k])
    <2>1. CASE k = c
      <3>1. k # 0 => k - 1 \in 0 .. c /\ k - 1 # c /\ k - 1 = c - 1
        BY <1>3, <2>1
      <3>2. k # 0 => v[k - 1] = u[c - 1]
        BY <2>1, <3>1, Zenon
      <3> QED
        BY <2>1, <3>2
    <2>2. CASE k # c
      <3>1. k \in 0 .. c - 1 /\ v[k] = u[k] /\ (k # 0 => v[k - 1] = u[k - 1]) /\ c > 0
        BY <1>3, <2>2
      <3>2. u[k] = IF k = 0 THEN s ELSE F!InByte(u[k - 1], text[k])
        BY <1>4, <3>1 DEF HandedTo
      <3> QED
        BY <3>1, <3>2
    <2> QED
      BY <2>1, <2>2
  <1>6. v = [k \in 0 .. c |-> v[k]]
    OBVIOUS
  <1>7. HandedTo(s, text, c, v)
    <2> HIDE DEF v
    <2> QED
      BY <1>5, <1>6 DEF HandedTo
  <1> HIDE DEF v
  <1> QED
    BY <1>3, <1>7

LEMMA HandedIs ==
    ASSUME NEW s, NEW text \in Text
    PROVE  \E f : HandedTo(s, text, Len(text), f) /\ F!HandedOn(s, text) = f[Len(text)]
  <1> DEFINE f == CHOOSE f : f = [k \in 0 .. Len(text) |->
                    IF k = 0 THEN s ELSE F!InByte(f[k - 1], text[k])]
  <1>0. \E g : g = [k \in 0 .. Len(text) |-> IF k = 0 THEN s ELSE F!InByte(g[k - 1], text[k])]
    <2>1. PICK g : HandedTo(s, text, Len(text), g)
      BY HandedExists
    <2>2. g = [k \in 0 .. Len(text) |-> IF k = 0 THEN s ELSE F!InByte(g[k - 1], text[k])]
      BY <2>1 DEF HandedTo
    <2> QED
      BY <2>2
  <1>1. f = [k \in 0 .. Len(text) |-> IF k = 0 THEN s ELSE F!InByte(f[k - 1], text[k])]
    BY <1>0, Zenon
  <1>2. F!HandedOn(s, text) = f[Len(text)]
    BY Zenon DEF F!HandedOn
  <1> QED
    BY <1>1, <1>2, Zenon DEF HandedTo

\* What the cache and what was written make up
Stream == [cache : Text, written : Text]
Waits(s) ==
    /\ s \in Stream /\ Len(s.cache) < CacheSize
    /\ \A i \in 1 .. Len(s.cache) : s.cache[i] # LineEnd

LEMMA StreamUpdate ==
    ASSUME NEW s \in Stream, NEW w \in Text, NEW c \in Text
    PROVE  /\ LET t == [s EXCEPT !.written = w, !.cache = c]
              IN  t \in Stream /\ t.written = w /\ t.cache = c
           /\ LET t == [s EXCEPT !.cache = c]
              IN  t \in Stream /\ t.written = s.written /\ t.cache = c
  BY DEF Stream

\* A byte more
LEMMA InByteIs ==
    ASSUME NEW s, Waits(s), NEW ch \in Character
    PROVE  LET t == F!InByte(s, ch)
           IN  Waits(t) /\ t.written \o t.cache = Append(s.written \o s.cache, ch)
  <1> DEFINE c == Append(s.cache, ch)
             t == F!InByte(s, ch)
  <1>1. /\ s.cache \in Text /\ s.written \in Text /\ s \in Stream
        /\ c \in Text /\ Len(c) = Len(s.cache) + 1
        /\ CacheSize \in Nat \ {0} /\ Len(s.cache) \in Nat /\ Len(s.cache) < CacheSize
    BY DebugAssumption DEF Waits, Stream, Text, F!PrintfAssumption
  <1>2. CASE Len(c) = CacheSize \/ ch = LineEnd
    <2>1. t = [s EXCEPT !.written = s.written \o c, !.cache = <<>>]
      BY <1>2, Zenon DEF F!InByte, LineEnd
    <2>2. t.written = s.written \o c /\ t.cache = <<>> /\ t \in Stream
      <3>1. s.written \o c \in Text /\ <<>> \in Text
        BY <1>1 DEF Text
      <3> HIDE DEF t, c
      <3>2. PICK w \in Text, e \in Text : w = s.written \o c /\ e = <<>>
        BY <3>1, Zenon
      <3>3. t = [s EXCEPT !.written = w, !.cache = e]
        BY <2>1, <3>2, Zenon
      <3>4. t.written = w /\ t.cache = e /\ t \in Stream
        <4>1. s \in Stream
          BY <1>1
        <4> QED
          BY <3>3, <4>1 DEF Stream
      <3> QED
        BY <3>2, <3>4
    <2>3. Waits(t)
      <3> HIDE DEF t
      <3>1. t.cache = <<>> /\ Len(<<>>) = 0
        BY <2>2
      <3>2. Len(t.cache) < CacheSize /\ \A i \in 1 .. Len(t.cache) : t.cache[i] # LineEnd
        BY <1>1, <3>1
      <3> QED
        BY <2>2, <3>2 DEF Waits
    <2>4. t.written \o t.cache = Append(s.written \o s.cache, ch)
      <3>1. \A x, y \in Text : \A e \in Character :
              (x \o Append(y, e)) \o <<>> = Append(x \o y, e)
        BY DEF Text
      <3> QED
        BY <1>1, <2>2, <3>1, ZenonT(60)
    <2> QED
      BY <2>3, <2>4
  <1>3. CASE ~(Len(c) = CacheSize \/ ch = LineEnd)
    <2>1. t = [s EXCEPT !.cache = c]
      BY <1>3, Zenon DEF F!InByte, LineEnd
    <2>2. t.written = s.written /\ t.cache = c /\ t \in Stream
      <3> HIDE DEF t, c
      <3> QED
        BY <1>1, <2>1, StreamUpdate, Zenon
    <2>3. \A i \in 1 .. Len(c) : c[i] # LineEnd
      <3>1. \A x \in Text : \A e \in Character :
              \A i \in 1 .. Len(Append(x, e)) :
                Append(x, e)[i] = IF i \in 1 .. Len(x) THEN x[i] ELSE e
        BY DEF Text
      <3> QED
        BY <1>1, <1>3, <3>1 DEF Waits
    <2>4. Len(c) < CacheSize
      BY <1>1, <1>3
    <2>5. Waits(t)
      <3> HIDE DEF t, c
      <3> QED
        BY <2>2, <2>3, <2>4, Zenon DEF Waits
    <2>6. t.written \o t.cache = Append(s.written \o s.cache, ch)
      <3>1. \A x, y \in Text : \A e \in Character : x \o Append(y, e) = Append(x \o y, e)
        BY DEF Text
      <3> QED
        BY <1>1, <2>2, <3>1, ZenonT(60)
    <2> QED
      BY <2>5, <2>6
  <1> QED
    BY <1>2, <1>3

\* k characters of text more
Arrived(s, text, t, k) ==
    Waits(t) /\ t.written \o t.cache = s.written \o s.cache \o SubSeq(text, 1, k)

\* A text more
LEMMA HandedOnIs ==
    ASSUME NEW s, Waits(s), NEW text \in Text
    PROVE  LET t == F!HandedOn(s, text)
           IN  Waits(t) /\ t.written \o t.cache = s.written \o s.cache \o text
  <1> DEFINE sofar(k) == s.written \o s.cache \o SubSeq(text, 1, k)
             Good(t, k) == Arrived(s, text, t, k)
  <1>1. PICK f : HandedTo(s, text, Len(text), f) /\ F!HandedOn(s, text) = f[Len(text)]
    BY HandedIs
  <1>2. \A k \in 0 .. Len(text) : f[k] = IF k = 0 THEN s ELSE F!InByte(f[k - 1], text[k])
    BY <1>1, Zenon DEF HandedTo
  <1>3. Len(text) \in Nat /\ s.written \o s.cache \in Text
    BY DEF Waits, Stream, Text
  <1>4. \A k \in 0 .. Len(text) : Good(f[k], k)
    <2> DEFINE Bad == {k \in Nat : k <= Len(text) /\ ~Good(f[k], k)}
    <2> SUFFICES ASSUME NEW k \in Bad PROVE FALSE
      BY <1>3
    <2>1. PICK c \in Bad : \A d \in Bad : c <= d
      <3>1. Bad \in SUBSET Nat
        OBVIOUS
      <3> HIDE DEF Bad
      <3> QED
        BY <3>1, LeastOf
    <2>2. c \in 0 .. Len(text) /\ ~Good(f[c], c)
      BY <1>3
    <2>3. f[c] = IF c = 0 THEN s ELSE F!InByte(f[c - 1], text[c])
      BY <1>2, <2>2
    <2>4. CASE c = 0
      <3>1. \A x \in Text : x = x \o SubSeq(text, 1, 0)
        BY DEF Text
      <3>2. Good(s, 0)
        BY <1>3, <3>1 DEF Arrived
      <3> QED
        BY <2>2, <2>3, <2>4, <3>2, Zenon
    <2>5. CASE c # 0
      <3>1. c - 1 \in 0 .. Len(text) /\ c - 1 < c /\ c \in 1 .. Len(text)
        BY <1>3, <2>2, <2>5
      <3>2. Good(f[c - 1], c - 1)
        <4> HIDE DEF Good
        <4> QED
          BY <1>3, <2>1, <3>1
      <3>3. text[c] \in Character
        <4>1. \A S : \A q \in Seq(S) : \A i \in 1 .. Len(q) : q[i] \in S
          OBVIOUS
        <4> QED
          BY <3>1, <4>1 DEF Text
      <3>4. PICK t : /\ t = f[c] /\ Waits(t)
                     /\ t.written \o t.cache = Append(sofar(c - 1), text[c])
        <4> HIDE DEF sofar
        <4>1. PICK r : r = f[c - 1]
          OBVIOUS
        <4>2. Waits(r) /\ r.written \o r.cache = sofar(c - 1) /\ f[c] = F!InByte(r, text[c])
          BY <2>3, <2>5, <3>2, <4>1, Zenon DEF Arrived, sofar
        <4> QED
          BY <3>3, <4>2, InByteIs, Zenon
      <3>5. Append(sofar(c - 1), text[c]) = sofar(c)
        <4>1. \A S : \A x, y \in Seq(S) : \A i \in 1 .. Len(y) :
                Append(x \o SubSeq(y, 1, i - 1), y[i]) = x \o SubSeq(y, 1, i)
          <5> SUFFICES ASSUME NEW S, NEW x \in Seq(S), NEW y \in Seq(S), NEW i \in 1 .. Len(y)
                       PROVE  Append(x \o SubSeq(y, 1, i - 1), y[i]) = x \o SubSeq(y, 1, i)
            OBVIOUS
          <5> QED
            BY SMTT(60)
        <4>2. PICK x : x = s.written \o s.cache /\ x \in Text
          BY <1>3
        <4>3. Append(x \o SubSeq(text, 1, c - 1), text[c]) = x \o SubSeq(text, 1, c)
          BY <3>1, <4>1, <4>2 DEF Text
        <4> QED
          BY <4>2, <4>3, Zenon
      <3> QED
        <4> HIDE DEF sofar
        <4>1. Good(t, c)
          BY <3>4, <3>5, Zenon DEF Arrived, sofar
        <4> QED
          BY <2>2, <3>4, <4>1, Zenon
    <2> QED
      BY <2>4, <2>5
  <1>5. Good(F!HandedOn(s, text), Len(text))
    <2> HIDE DEF Good
    <2> QED
      BY <1>1, <1>3, <1>4
  <1>6. SubSeq(text, 1, Len(text)) = text
    BY DEF Text
  <1> QED
    BY <1>5, <1>6, Zenon DEF Arrived

-----------------------------------------------------------------------------
(* The calls of the printf engine *)

Known(directives) == \A i \in DOMAIN directives : directives[i].conv # "unknown"

EngineTypes ==
    /\ todo \in Seq(F!Calls)
    /\ call \in F!Calls \cup {F!Idle}
    /\ items \in Seq(F!Conversions) /\ (call = F!Idle => items = <<>>)
    /\ printed \in Text /\ before \in Text /\ n \in Nat

\* What was printed to the function has been written or waits in the cache.
OnItsWay ==
    /\ Waits([cache |-> cache, written |-> written])
    /\ written \o cache = before \o (IF call.to = "function" THEN printed ELSE <<>>)

\* What was printed to the buffer is in it as far as it goes, and is counted.
CutOff == call.to = "memory" =>
    /\ mem = SubSeq(printed, 1, F!Min({Len(printed), call.size}))
    /\ Known(call.items) => Known(items) /\ n = Len(printed)

EngineInv == EngineTypes /\ OnItsWay /\ CutOff

LEMMA CallIs ==
    ASSUME NEW c \in F!Calls
    PROVE  /\ c.to \in {"memory", "function"} /\ c # F!Idle /\ c.items \in Seq(F!Conversions)
           /\ c.to = "memory" => c.size \in Nat \ {0}
  <1>1. /\ c.to \in {"memory", "function"} /\ c.items \in Seq(F!Conversions)
        /\ c.to = "memory" => c.size \in Nat \ {0}
    BY DEF F!Calls
  <1>2. F!Idle.to = "nowhere"
    BY DEF F!Idle
  <1> QED
    BY <1>1, <1>2

LEMMA EngineInit == F!PrintfInit => EngineInv
  <1> SUFFICES ASSUME F!PrintfInit PROVE EngineInv
    OBVIOUS
  <1>1. F!Idle.to = "nowhere" /\ Len(<<>>) = 0
    BY DEF F!Idle
  <1>2. <<>> \in Text /\ <<>> \o <<>> = <<>> /\ CacheSize \in Nat \ {0}
    BY DebugAssumption DEF Text, F!PrintfAssumption
  <1>3. todo \in Seq(F!Calls)
    BY DebugAssumption DEF F!PrintfInit, F!PrintfAssumption
  <1>4. EngineTypes
    BY <1>2, <1>3 DEF EngineTypes, F!PrintfInit
  <1>5. Waits([cache |-> <<>>, written |-> <<>>])
    BY <1>1, <1>2 DEF Waits, Stream
  <1> QED
    BY <1>1, <1>2, <1>4, <1>5 DEF EngineInv, OnItsWay, CutOff, F!PrintfInit

\* A call begins with nothing printed.
LEMMA EngineBegin == ASSUME EngineInv, F!Begin PROVE EngineInv'
  <1>1. /\ todo \in Seq(F!Calls) /\ todo # <<>>
        /\ call' = Head(todo) /\ todo' = Tail(todo) /\ items' = Head(todo).items
        /\ call = F!Idle /\ n' = 0 /\ mem' = <<>> /\ printed' = <<>>
        /\ cache' = cache /\ written' = written /\ before' = before
    BY DEF EngineInv, EngineTypes, F!Begin
  <1>2. call' \in F!Calls /\ todo' \in Seq(F!Calls)
    <2>1. \A S : \A q \in Seq(S) : q # <<>> => Head(q) \in S /\ Tail(q) \in Seq(S)
      OBVIOUS
    <2> QED
      BY <1>1, <2>1
  <1>3. /\ call'.to \in {"memory", "function"} /\ call' # F!Idle
        /\ call'.items \in Seq(F!Conversions) /\ items' = call'.items
        /\ call'.to = "memory" => call'.size \in Nat \ {0}
    BY <1>1, <1>2, CallIs
  <1>4. <<>> \in Text /\ Len(<<>>) = 0 /\ SubSeq(<<>>, 1, 0) = <<>>
    BY DEF Text
  <1>5. EngineTypes'
    BY <1>1, <1>2, <1>3, <1>4 DEF EngineInv, EngineTypes
  <1>6. OnItsWay'
    <2>1. call.to = "nowhere"
      BY <1>1 DEF F!Idle
    <2>2. (IF call'.to = "function" THEN printed' ELSE <<>>)
          = (IF call.to = "function" THEN printed ELSE <<>>)
      BY <1>1, <2>1
    <2> QED
      BY <1>1, <2>2 DEF EngineInv, OnItsWay
  <1>7. CutOff'
    <2> SUFFICES ASSUME call'.to = "memory"
                 PROVE  /\ mem' = SubSeq(printed', 1, F!Min({Len(printed'), call'.size}))
                        /\ Known(call'.items) => Known(items') /\ n' = Len(printed')
      BY DEF CutOff, Known
    <2>1. F!Min({0, call'.size}) = 0
      BY <1>3, MinOfTwo
    <2> QED
      BY <1>1, <1>3, <1>4, <2>1
  <1> QED
    BY <1>5, <1>6, <1>7 DEF EngineInv

\* The end of a call: what it printed to the function is what was printed before
\* the next.
LEMMA EngineFinish == ASSUME EngineInv, F!Finish PROVE EngineInv'
  <1>1. /\ call # F!Idle /\ items = <<>> /\ call' = F!Idle
        /\ items' = items /\ n' = n /\ cache' = cache /\ written' = written
        /\ printed' = printed /\ todo' = todo
        /\ before' = IF call.to = "memory" THEN before ELSE before \o printed
    BY DEF F!Finish
  <1>2. call.to \in {"memory", "function"} /\ call'.to = "nowhere"
    BY <1>1, CallIs DEF EngineInv, EngineTypes, F!Idle
  <1>3. printed \in Text /\ before \in Text /\ before \o printed \in Text
        /\ before \o <<>> = before /\ (before \o printed) \o <<>> = before \o printed
    BY DEF EngineInv, EngineTypes, Text
  <1>4. EngineTypes'
    BY <1>1, <1>3 DEF EngineInv, EngineTypes
  <1>5. OnItsWay'
    BY <1>1, <1>2, <1>3 DEF EngineInv, OnItsWay
  <1> QED
    BY <1>2, <1>4, <1>5 DEF EngineInv, CutOff

\* The beginning of a text, and what follows it
LEMMA CutGrows ==
    ASSUME NEW S, NEW p \in Seq(S), NEW q \in Seq(S),
           NEW a \in 0 .. Len(p), NEW b \in 0 .. Len(q), b > 0 => a = Len(p)
    PROVE  SubSeq(p, 1, a) \o SubSeq(q, 1, b) = SubSeq(p \o q, 1, a + b)
  <1>1. ASSUME NEW x \in Seq(S), NEW i \in 0 .. Len(x)
        PROVE  \E y \in Seq(S) : /\ y = SubSeq(x, 1, i) /\ Len(y) = i
                                 /\ \A j \in 1 .. i : y[j] = x[j]
    <2>1. /\ SubSeq(x, 1, i) \in Seq(S) /\ Len(SubSeq(x, 1, i)) = i
          /\ \A j \in 1 .. i : SubSeq(x, 1, i)[j] = x[j]
      BY <1>1
    <2> QED
      BY <2>1, Zenon
  <1>2. \A x, y \in Seq(S) :
          /\ x \o y \in Seq(S) /\ Len(x \o y) = Len(x) + Len(y)
          /\ \A i \in 1 .. Len(x) + Len(y) :
               (x \o y)[i] = IF i <= Len(x) THEN x[i] ELSE y[i - Len(x)]
    OBVIOUS
  <1>3. PICK lp \in Nat, lq \in Nat : lp = Len(p) /\ lq = Len(q)
    OBVIOUS
  <1>4. a \in Nat /\ b \in Nat /\ a <= lp /\ b <= lq /\ (b > 0 => a = lp)
    BY <1>3
  <1>5. PICK w \in Seq(S) : /\ w = p \o q /\ Len(w) = lp + lq
                            /\ \A i \in 1 .. lp + lq : w[i] = IF i <= lp THEN p[i] ELSE q[i - lp]
    BY <1>2, <1>3, ZenonT(60)
  <1>6. PICK m \in Seq(S) : m = SubSeq(p, 1, a) /\ Len(m) = a /\ \A i \in 1 .. a : m[i] = p[i]
    BY <1>1
  <1>7. PICK r \in Seq(S) : r = SubSeq(q, 1, b) /\ Len(r) = b /\ \A i \in 1 .. b : r[i] = q[i]
    BY <1>1
  <1>8. a + b \in 0 .. Len(w)
    <2>1. a + b \in 0 .. lp + lq
      BY <1>4
    <2>2. Len(w) = lp + lq
      BY <1>5
    <2> QED
      BY <2>1, <2>2, Zenon
  <1>9. PICK u \in Seq(S) : /\ u = SubSeq(w, 1, a + b) /\ Len(u) = a + b
                            /\ \A i \in 1 .. a + b : u[i] = w[i]
    BY <1>1, <1>8, Zenon
  <1>10. PICK v \in Seq(S) : /\ v = m \o r /\ Len(v) = a + b
                             /\ \A i \in 1 .. a + b : v[i] = IF i <= a THEN m[i] ELSE r[i - a]
    <2>1. m \o r \in Seq(S)
      BY <1>2, Zenon
    <2>2. Len(m) = a /\ Len(r) = b
      BY <1>6, <1>7, Zenon
    <2>3. /\ Len(m \o r) = Len(m) + Len(r)
          /\ \A i \in 1 .. Len(m) + Len(r) :
               (m \o r)[i] = IF i <= Len(m) THEN m[i] ELSE r[i - Len(m)]
      OBVIOUS
    <2>4. Len(m \o r) = a + b
      BY <2>2, <2>3, Zenon
    <2>5. \A i \in 1 .. a + b : (m \o r)[i] = IF i <= a THEN m[i] ELSE r[i - a]
      BY <2>2, <2>3, Zenon
    <2> QED
      BY <2>1, <2>4, <2>5, Zenon
  <1>11. ASSUME NEW i \in 1 .. a + b
         PROVE  u[i] = v[i]
    <2>1. u[i] = IF i <= lp THEN p[i] ELSE q[i - lp]
      <3>1. i \in 1 .. lp + lq
        BY <1>4
      <3> QED
        <4>1. u[i] = w[i]
          BY <1>9
        <4> QED
          BY <1>5, <3>1, <4>1, Zenon
    <2>2. CASE i <= a
      BY <1>4, <1>6, <1>10, <2>1, <2>2
    <2>3. CASE ~(i <= a)
      <3>1. a = lp /\ i - a \in 1 .. b
        BY <1>4, <2>3
      <3>2. r[i - a] = q[i - a] /\ v[i] = r[i - a]
        BY <1>4, <1>7, <1>10, <2>3, <3>1
      <3> QED
        BY <1>4, <2>1, <2>3, <3>1, <3>2
    <2> QED
      BY <1>4, <2>2, <2>3
  <1>12. u = v
    <2>1. u = [i \in 1 .. a + b |-> u[i]]
      BY <1>4, <1>9
    <2>2. v = [i \in 1 .. a + b |-> v[i]]
      <3>1. Len(v) = a + b
        BY <1>10, Zenon
      <3>2. v = [i \in 1 .. Len(v) |-> v[i]]
        OBVIOUS
      <3> QED
        BY <3>1, <3>2, Zenon
    <2>3. [i \in 1 .. a + b |-> u[i]] = [i \in 1 .. a + b |-> v[i]]
      BY <1>11, Zenon
    <2> QED
      BY <2>1, <2>2, <2>3, Zenon
  <1> QED
    BY <1>5, <1>6, <1>7, <1>9, <1>10, <1>12

LEMMA LastReplaced ==
    ASSUME NEW S, NEW q \in Seq(S), NEW k \in 1 .. Len(q), NEW e
    PROVE  [SubSeq(q, 1, k) EXCEPT ![k] = e] = Append(SubSeq(q, 1, k - 1), e)
  <1> DEFINE x == SubSeq(q, 1, k)
             y == SubSeq(q, 1, k - 1)
             x2 == [x EXCEPT ![k] = e]
             y2 == Append(y, e)
             T == S \cup {e}
  <1>1. /\ x \in Seq(T) /\ Len(x) = k /\ \A i \in 1 .. k : x[i] = q[i]
        /\ y \in Seq(T) /\ Len(y) = k - 1 /\ \A i \in 1 .. k - 1 : y[i] = q[i]
    OBVIOUS
  <1> HIDE DEF x, y
  <1>2. x = [i \in 1 .. k |-> x[i]]
    BY <1>1
  <1>3. x2 = [i \in 1 .. k |-> IF i = k THEN e ELSE x[i]]
    BY <1>2
  <1>4. y2 \in Seq(T) /\ Len(y2) = k /\ \A i \in 1 .. k : y2[i] = IF i = k THEN e ELSE y[i]
    BY <1>1
  <1>5. y2 = [i \in 1 .. k |-> y2[i]]
    <2> HIDE DEF y2
    <2>1. y2 = [i \in 1 .. Len(y2) |-> y2[i]]
      BY <1>4
    <2> QED
      BY <1>4, <2>1, Zenon
  <1>6. \A i \in 1 .. k : y2[i] = IF i = k THEN e ELSE x[i]
    BY <1>1, <1>4
  <1> HIDE DEF x2, y2
  <1>7. x2 = y2
    BY <1>3, <1>5, <1>6
  <1> QED
    BY <1>7 DEF x, y, x2, y2

LEMMA OutcomeIsText ==
    ASSUME NEW d \in F!Conversions, NEW text \in F!Outcomes(d)
    PROVE  text \in Text
  <1>1. text = F!Field(d) \/ text = <<>>
    BY Zenon DEF F!Outcomes
  <1> QED
    BY <1>1, FieldIsText, TextParts

\* A directive goes to the buffer as far as there is room, or through the cache.
LEMMA EngineDirective == ASSUME EngineInv, F!Directive PROVE EngineInv'
  <1> DEFINE d == items[1]
             s == [cache |-> cache, written |-> written]
  <1>1. PICK text \in F!Outcomes(d) : items # <<>> /\ F!Prints(text)
    BY DEF F!Directive
  <1>2. PICK t : t = F!HandedOn(s, text)
    OBVIOUS
  <1>3. /\ items # <<>> /\ items' = SubSeq(items, 2, Len(items))
        /\ n' = n + F!Counted(d, text) /\ printed' = printed \o text
        /\ call' = call /\ before' = before /\ todo' = todo
        /\ call.to = "memory" =>
             /\ mem' = mem \o SubSeq(text, 1, F!Min({Len(text), call.size - Len(mem)}))
             /\ cache' = cache /\ written' = written
        /\ call.to # "memory" => cache' = t.cache /\ written' = t.written /\ mem' = mem
    BY <1>1, <1>2 DEF F!Prints
  <1>4. d \in F!Conversions /\ items' \in Seq(F!Conversions) /\ 1 \in DOMAIN items
    <2>1. \A S : \A q \in Seq(S) : q # <<>> =>
            q[1] \in S /\ SubSeq(q, 2, Len(q)) \in Seq(S) /\ 1 \in DOMAIN q
      OBVIOUS
    <2>2. items \in Seq(F!Conversions)
      BY DEF EngineInv, EngineTypes
    <2> QED
      BY <1>3, <2>1, <2>2
  <1>5. text \in Text /\ Len(text) \in Nat /\ F!Counted(d, text) \in Nat
        /\ (d.conv # "unknown" => F!Counted(d, text) = Len(text))
    <2>1. text \in Text
      BY <1>1, <1>4, OutcomeIsText
    <2> QED
      BY <2>1 DEF F!Counted, Text
  <1>6. call \in F!Calls /\ call # F!Idle
    BY <1>3 DEF EngineInv, EngineTypes
  <1>7. call.to \in {"memory", "function"} /\ (call.to = "memory" => call.size \in Nat \ {0})
    BY <1>6, CallIs
  <1>8. printed \in Text /\ before \in Text /\ n \in Nat /\ printed' \in Text
    BY <1>3, <1>5 DEF EngineInv, EngineTypes, Text
  <1>9. EngineTypes'
    BY <1>3, <1>4, <1>5, <1>6, <1>8 DEF EngineInv, EngineTypes
  <1>10. OnItsWay'
    <2>1. CASE call.to = "memory"
      BY <1>3, <2>1 DEF EngineInv, OnItsWay
    <2>2. CASE call.to = "function"
      <3>1. Waits(s) /\ s.cache = cache /\ s.written = written
        BY DEF EngineInv, OnItsWay
      <3>2. Waits(t) /\ t.written \o t.cache = s.written \o s.cache \o text
        <4> HIDE DEF s
        <4> QED
          BY <1>2, <1>5, <3>1, HandedOnIs
      <3>3. [cache |-> t.cache, written |-> t.written] = t
        BY <3>2 DEF Waits, Stream
      <3>4. before \o printed \o text = before \o (printed \o text)
        BY <1>5, <1>8 DEF Text
      <3>5. written \o cache = before \o printed
        BY <2>2 DEF EngineInv, OnItsWay
      <3>6. written' \o cache' = before' \o printed'
        BY <1>3, <2>2, <3>1, <3>2, <3>4, <3>5
      <3>7. [cache |-> cache', written |-> written'] = t
        BY <1>3, <2>2, <3>3
      <3> QED
        BY <1>3, <2>2, <3>2, <3>6, <3>7 DEF OnItsWay
    <2> QED
      BY <1>7, <2>1, <2>2
  <1>11. CutOff'
    <2> SUFFICES ASSUME call.to = "memory"
                 PROVE  /\ mem' = SubSeq(printed', 1, F!Min({Len(printed'), call.size}))
                        /\ Known(call.items) => Known(items') /\ n' = Len(printed')
      BY <1>3 DEF CutOff, Known
    <2>1. /\ mem = SubSeq(printed, 1, F!Min({Len(printed), call.size}))
          /\ Known(call.items) => Known(items) /\ n = Len(printed)
      BY DEF EngineInv, CutOff
    <2>2. PICK k \in Nat : k = call.size
      BY <1>7
    <2>3. Len(printed) \in Nat /\ Len(printed') \in Nat /\ Len(printed') = Len(printed) + Len(text)
      BY <1>3, <1>5, <1>8 DEF Text
    <2>4. PICK a \in Nat : a = F!Min({Len(printed), k}) /\ a = IF Len(printed) <= k THEN Len(printed) ELSE k
      BY <2>3, MinOfTwo
    <2>5. Len(mem) = a /\ mem = SubSeq(printed, 1, a)
      BY <1>8, <2>1, <2>2, <2>4 DEF Text
    <2>6. PICK b \in Nat : b = F!Min({Len(text), k - Len(mem)})
                           /\ b = IF Len(text) <= k - Len(mem) THEN Len(text) ELSE k - Len(mem)
      <3>1. k - Len(mem) \in Nat
        BY <2>4, <2>5
      <3> QED
        BY <1>5, <3>1, MinOfTwo
    <2>7. PICK c \in Nat : c = F!Min({Len(printed'), k})
                           /\ c = IF Len(printed') <= k THEN Len(printed') ELSE k
      BY <2>3, MinOfTwo
    <2>8. mem' = SubSeq(printed', 1, F!Min({Len(printed'), call.size}))
      <3>1. mem \o SubSeq(text, 1, b) = SubSeq(printed \o text, 1, c)
        <4>1. PICK lp \in Nat, lt \in Nat : lp = Len(printed) /\ lt = Len(text)
          BY <1>5, <2>3
        <4>2. /\ a = IF lp <= k THEN lp ELSE k
              /\ b = IF lt <= k - a THEN lt ELSE k - a
              /\ c = IF lp + lt <= k THEN lp + lt ELSE k
          BY <2>3, <2>4, <2>5, <2>6, <2>7, <4>1, Zenon
        <4>3. c = a + b /\ (b > 0 => a = lp) /\ a \in 0 .. lp /\ b \in 0 .. lt
          BY <4>2
        <4>4. mem \o SubSeq(text, 1, b) = SubSeq(printed \o text, 1, a + b)
          <5>1. a \in 0 .. Len(printed) /\ b \in 0 .. Len(text) /\ (b > 0 => a = Len(printed))
            BY <4>1, <4>3
          <5>2. printed \in Seq(Character) /\ text \in Seq(Character)
            BY <1>5, <1>8 DEF Text
          <5> QED
            BY <2>5, <5>1, <5>2, CutGrows
        <4> QED
          BY <4>3, <4>4, Zenon
      <3> QED
        BY <1>3, <2>2, <2>6, <2>7, <3>1
    <2>9. ASSUME Known(call.items) PROVE Known(items') /\ n' = Len(printed')
      <3>1. Known(items) /\ n = Len(printed)
        BY <2>1, <2>9
      <3>2. d.conv # "unknown"
        BY <1>4, <3>1 DEF Known
      <3>3. \A S : \A q \in Seq(S) : \A i \in DOMAIN SubSeq(q, 2, Len(q)) :
              i + 1 \in DOMAIN q /\ SubSeq(q, 2, Len(q))[i] = q[i + 1]
        OBVIOUS
      <3>4. items \in Seq(F!Conversions)
        BY DEF EngineInv, EngineTypes
      <3>5. Known(items')
        BY <1>3, <3>1, <3>3, <3>4 DEF Known
      <3> QED
        BY <1>3, <1>5, <2>3, <3>1, <3>2, <3>5
    <2> QED
      BY <2>8, <2>9
  <1> QED
    BY <1>9, <1>10, <1>11 DEF EngineInv

LEMMA EngineStep == EngineInv /\ [F!PrintfNext]_(F!printfvars) => EngineInv'
  <1>1. EngineInv /\ UNCHANGED F!printfvars => EngineInv'
    BY DEF F!printfvars, EngineInv, EngineTypes, OnItsWay, CutOff, Known
  <1> QED
    BY <1>1, EngineBegin, EngineDirective, EngineFinish DEF F!PrintfNext

LEMMA EnginePart == DebugSpec => F!PrintfInit /\ [][F!PrintfNext]_(F!printfvars)
  <1>1. DebugInit => F!PrintfInit
    BY DEF DebugInit
  <1>2. [DebugNext]_<<part, vars, printfvars, lockvars>> => [F!PrintfNext]_(F!printfvars)
    BY DEF DebugNext, printfvars, F!printfvars
  <1> QED
    BY <1>1, <1>2, PTL DEF DebugSpec

LEMMA EngineInvariance == DebugSpec => []EngineInv
  BY EnginePart, EngineInit, EngineStep, PTL

\* Whatever is printed to a function, in whatever pieces, arrives once and in order,
\* and no end of a line waits in the cache (streamout_in_byte).
THEOREM LinesGetHandedOn == DebugSpec => []LinesAreHandedOn
  <1>1. EngineInv => LinesAreHandedOn
    <2> SUFFICES ASSUME EngineInv PROVE F!LinesAreHandedOn
      BY DEF LinesAreHandedOn
    <2>1. /\ cache \in Text /\ Len(cache) < CacheSize
          /\ \A i \in 1 .. Len(cache) : cache[i] # LineEnd
      <3>1. Waits([cache |-> cache, written |-> written])
        BY DEF EngineInv, OnItsWay
      <3>2. [cache |-> cache, written |-> written].cache = cache
        OBVIOUS
      <3> QED
        BY <3>1, <3>2 DEF Waits, Stream
    <2>2. LineEnd \notin F!ToSet(cache)
      <3>1. \A e \in F!ToSet(cache) : \E i \in 1 .. Len(cache) : e = cache[i]
        BY <2>1 DEF F!ToSet, Text
      <3> QED
        BY <2>1, <3>1, Zenon
    <2> QED
      BY <2>1, <2>2, Zenon DEF F!LinesAreHandedOn, LineEnd, EngineInv, OnItsWay
  <1> QED
    BY <1>1, EngineInvariance, PTL

\* What snprintf leaves in the buffer of its caller is the text as far as it goes
\* into all but one byte, and a Nul; what it returns is the length of all of it
\* (eh_snprintf, streamout_finish).
THEOREM TextsAreCut == DebugSpec => SnprintfContract
  <1> DEFINE fits == F!Min({Len(printed), call.size - 1})
  <1>1. ASSUME EngineInv, F!Finish, call.to = "memory"
        PROVE  /\ mem' = Append(SubSeq(printed, 1, fits), F!Nul)
               /\ (\A i \in DOMAIN call.items : call.items[i].conv # "unknown") =>
                    n' = Len(printed)
    <2>1. PICK k \in Nat \ {0} : k = call.size
      BY <1>1, CallIs DEF EngineInv, EngineTypes, F!Finish
    <2>2. printed \in Text /\ Len(printed) \in Nat
      BY <1>1 DEF EngineInv, EngineTypes, Text
    <2>3. PICK lp \in Nat : lp = Len(printed)
      BY <2>2
    <2>4. fits = (IF lp <= k - 1 THEN lp ELSE k - 1)
      BY <2>1, <2>3, MinOfTwo
    <2>5. mem = SubSeq(printed, 1, IF lp <= k THEN lp ELSE k)
      BY <1>1, <2>1, <2>3, MinOfTwo DEF EngineInv, CutOff
    <2>6. mem' = F!FinishMemory(mem, k)
      BY <1>1, <2>1 DEF F!Finish
    <2>7. mem' = Append(SubSeq(printed, 1, fits), F!Nul)
      <3>1. PICK j \in Nat : j = fits /\ j = IF lp <= k - 1 THEN lp ELSE k - 1
        BY <2>1, <2>4
      <3>2. CASE lp < k
        <4>1. mem = SubSeq(printed, 1, lp) /\ j = lp
          BY <2>5, <3>1, <3>2
        <4>2. Len(SubSeq(printed, 1, lp)) = lp
          BY <2>2, <2>3 DEF Text
        <4> QED
          BY <2>6, <3>1, <3>2, <4>1, <4>2 DEF F!FinishMemory
      <3>3. CASE ~(lp < k)
        <4>1. mem = SubSeq(printed, 1, k) /\ j = k - 1 /\ k \in 1 .. Len(printed)
          <5>1. k = IF lp <= k THEN lp ELSE k
            BY <3>3
          <5>2. k \in 1 .. lp /\ j = k - 1
            BY <3>1, <3>3
          <5> QED
            BY <2>3, <2>5, <5>1, <5>2, Zenon
        <4>2. Len(SubSeq(printed, 1, k)) = k
          BY <2>2, <4>1 DEF Text
        <4>3. mem' = [SubSeq(printed, 1, k) EXCEPT ![k] = F!Nul]
          BY <2>6, <4>1, <4>2 DEF F!FinishMemory
        <4>4. [SubSeq(printed, 1, k) EXCEPT ![k] = F!Nul] = Append(SubSeq(printed, 1, k - 1), F!Nul)
          BY <2>2, <4>1, LastReplaced DEF Text
        <4> QED
          BY <3>1, <4>1, <4>3, <4>4
      <3> QED
        BY <3>2, <3>3
    <2>8. Known(call.items) => n' = Len(printed)
      BY <1>1 DEF EngineInv, CutOff, F!Finish
    <2> QED
      BY <2>7, <2>8 DEF Known
  <1>2. EngineInv /\ [F!PrintfNext]_(F!printfvars) =>
          [F!Finish /\ call.to = "memory" =>
             /\ mem' = Append(SubSeq(printed, 1, fits), F!Nul)
             /\ (\A i \in DOMAIN call.items : call.items[i].conv # "unknown") =>
                  n' = Len(printed)]_(F!printfvars)
    BY <1>1
  <1> QED
    BY <1>2, EngineInvariance, EnginePart, PTL DEF SnprintfContract, F!SnprintfContract

-----------------------------------------------------------------------------
(* Numbers read back: the value of the digits that are printed *)

Rank(c) == F!SelectInSeq(F!Digit, LAMBDA x : x = c)

Numeral == {F!Digit[i] : i \in 1 .. 16}

LEMMA Numerals ==
    /\ Numeral \subseteq Character /\ "0" \in Numeral
    /\ " " \notin Numeral /\ "-" \notin Numeral /\ "+" \notin Numeral /\ "." \notin Numeral
  <1>1. Numeral = {"0", "1", "2", "3", "4", "5", "6", "7", "8", "9", "a", "b", "c", "d", "e", "f"}
    BY DEF Numeral, F!Digit
  <1> QED
    BY <1>1, Zenon DEF Character, Hex

LEMMA DigitsDiffer == \A i, j \in 1 .. 16 : F!Digit[i] = F!Digit[j] => i = j
  BY DEF F!Digit

LEMMA RankOf == ASSUME NEW i \in 1 .. 16 PROVE Rank(F!Digit[i]) = i
  <1> DEFINE I == {j \in 1 .. Len(F!Digit) : F!Digit[j] = F!Digit[i]}
  <1>1. Len(F!Digit) = 16
    BY DEF F!Digit
  <1>2. I = {i}
    BY <1>1, DigitsDiffer
  <1>3. F!Min({i}) = i
    BY DEF F!Min
  <1>4. Rank(F!Digit[i]) = IF I # {} THEN F!Min(I) ELSE 0
    BY Zenon DEF Rank, F!SelectInSeq
  <1> HIDE DEF I
  <1> QED
    BY <1>2, <1>3, <1>4

\* f is the value of the first m characters of s, for each m up to the end.
Worth(s, base, m, f) ==
    f[0] = 0 /\ \A k \in 1 .. m : f[k] = f[k - 1] * base + Rank(s[k]) - 1

ValueTo(s, base, m, f) ==
    f = [k \in 0 .. m |-> IF k = 0 THEN 0 ELSE f[k - 1] * base + Rank(s[k]) - 1]

LEMMA WorthAlike ==
    ASSUME NEW s, NEW base, NEW m \in Nat, NEW f, NEW g, Worth(s, base, m, f), Worth(s, base, m, g)
    PROVE  f[m] = g[m]
  <1> DEFINE Bad == {k \in Nat : k <= m /\ f[k] # g[k]}
  <1> SUFFICES ASSUME m \in Bad PROVE FALSE
    OBVIOUS
  <1>1. PICK c \in Bad : \A d \in Bad : c <= d
    <2>1. Bad \in SUBSET Nat
      OBVIOUS
    <2> HIDE DEF Bad
    <2> QED
      BY <2>1, LeastOf
  <1>2. c \in Nat /\ c <= m /\ f[c] # g[c]
    OBVIOUS
  <1>3. c # 0
    BY <1>2 DEF Worth
  <1>4. c \in 1 .. m /\ c - 1 \in Nat /\ c - 1 <= m /\ ~(c <= c - 1)
    BY <1>2, <1>3
  <1>5. f[c - 1] = g[c - 1]
    BY <1>1, <1>4
  <1>6. f[c] = f[c - 1] * base + Rank(s[c]) - 1 /\ g[c] = g[c - 1] * base + Rank(s[c]) - 1
    BY <1>4 DEF Worth
  <1> QED
    BY <1>2, <1>5, <1>6

LEMMA ValueExists ==
    ASSUME NEW s, NEW base, NEW n0 \in Nat
    PROVE  \E f : ValueTo(s, base, n0, f)
  <1> DEFINE Bad == {m \in Nat : ~\E f : ValueTo(s, base, m, f)}
             Next1(f, k) == IF k = 0 THEN 0 ELSE f[k - 1] * base + Rank(s[k]) - 1
  <1> SUFFICES ASSUME n0 \in Bad PROVE FALSE
    OBVIOUS
  <1>1. PICK c \in Bad : \A d \in Bad : c <= d
    <2>1. Bad \in SUBSET Nat
      OBVIOUS
    <2> HIDE DEF Bad
    <2> QED
      BY <2>1, LeastOf
  <1>2. c \in Nat /\ ~\E f : ValueTo(s, base, c, f)
    OBVIOUS
  <1>3. PICK u : c > 0 => ValueTo(s, base, c - 1, u)
    <2>1. CASE c > 0
      <3>1. c - 1 \in Nat /\ c - 1 \notin Bad
        BY <1>1, <1>2, <2>1
      <3> QED
        BY <3>1
    <2> QED
      BY <2>1
  <1> DEFINE v == [k \in 0 .. c |-> IF k = c THEN Next1(u, c) ELSE u[k]]
  <1>4. ASSUME NEW k \in 0 .. c PROVE v[k] = Next1(v, k)
    <2>1. k # 0 => k - 1 \in 0 .. c /\ k - 1 # c
      BY <1>2
    <2>2. k # 0 => v[k - 1] = u[k - 1]
      BY <2>1
    <2>3. Next1(v, k) = Next1(u, k)
      <3>1. CASE k = 0
        BY <3>1
      <3>2. CASE k # 0
        <4>1. v[k - 1] = u[k - 1]
          BY <2>2, <3>2
        <4> HIDE DEF v
        <4> QED
          BY <3>2, <4>1
      <3> QED
        BY <3>1, <3>2
    <2>4. CASE k = c
      <3>1. v[c] = Next1(u, c)
        BY <1>2
      <3> HIDE DEF v, Next1
      <3> QED
        BY <2>3, <2>4, <3>1
    <2>5. CASE k # c
      <3>1. v[k] = u[k] /\ k \in 0 .. (c - 1) /\ c > 0
        BY <1>2, <2>5
      <3>2. u[k] = Next1(u, k)
        BY <1>3, <3>1 DEF ValueTo
      <3> HIDE DEF v, Next1
      <3> QED
        BY <2>3, <3>1, <3>2
    <2> QED
      BY <2>4, <2>5
  <1>5. v = [k \in 0 .. c |-> v[k]]
    OBVIOUS
  <1>6. ValueTo(s, base, c, v)
    <2> HIDE DEF v
    <2> QED
      BY <1>4, <1>5 DEF ValueTo
  <1> HIDE DEF v
  <1> QED
    BY <1>2, <1>6

LEMMA ValueIs ==
    ASSUME NEW s, Len(s) \in Nat, NEW base
    PROVE  \E f : Worth(s, base, Len(s), f) /\ F!Value(s, base) = f[Len(s)]
  <1> DEFINE f == CHOOSE f : f = [k \in 0 .. Len(s) |->
                 IF k = 0 THEN 0 ELSE f[k - 1] * base + Rank(s[k]) - 1]
  <1>1. f = [k \in 0 .. Len(s) |-> IF k = 0 THEN 0 ELSE f[k - 1] * base + Rank(s[k]) - 1]
    <2>1. \E g : g = [k \in 0 .. Len(s) |-> IF k = 0 THEN 0 ELSE g[k - 1] * base + Rank(s[k]) - 1]
      BY ValueExists, Zenon DEF ValueTo
    <2> QED
      BY <2>1, Zenon
  <1>2. F!Value(s, base) = f[Len(s)]
    BY Zenon DEF F!Value, Rank
  <1> HIDE DEF f
  <1>3. f[0] = 0
    <2>1. 0 \in 0 .. Len(s)
      OBVIOUS
    <2> QED
      BY <1>1, <2>1
  <1>4. ASSUME NEW k \in 1 .. Len(s) PROVE f[k] = f[k - 1] * base + Rank(s[k]) - 1
    <2>1. k \in 0 .. Len(s) /\ k # 0
      OBVIOUS
    <2> QED
      BY <1>1, <2>1
  <1> QED
    BY <1>2, <1>3, <1>4 DEF Worth

\* Any function that runs through the values ends with the value.
LEMMA ValueBy ==
    ASSUME NEW s, NEW m \in Nat, Len(s) = m, NEW base, NEW g, Worth(s, base, m, g)
    PROVE  F!Value(s, base) = g[m]
  <1>1. PICK f : Worth(s, base, Len(s), f) /\ F!Value(s, base) = f[Len(s)]
    BY ValueIs
  <1> QED
    BY <1>1, WorthAlike

LEMMA ValueEmpty == ASSUME NEW base PROVE F!Value(<<>>, base) = 0
  <1> DEFINE g == [k \in 0 .. 0 |-> 0]
  <1>1. Len(<<>>) = 0 /\ g[0] = 0
    OBVIOUS
  <1>2. Worth(<<>>, base, 0, g)
    BY <1>1 DEF Worth
  <1> QED
    BY <1>1, <1>2, ValueBy

LEMMA ValueAppend ==
    ASSUME NEW s \in Text, NEW c \in Character, NEW base
    PROVE  F!Value(s \o <<c>>, base) = F!Value(s, base) * base + Rank(c) - 1
  <1>1. PICK a \in Nat : a = Len(s)
    BY DEF Text
  <1>2. PICK f : Worth(s, base, a, f) /\ F!Value(s, base) = f[a]
    BY <1>1, ValueIs
  <1>3. PICK t : t = s \o <<c>>
    OBVIOUS
  <1>4. /\ Len(t) = a + 1 /\ t[a + 1] = c
        /\ \A k \in 1 .. a : t[k] = s[k]
    <2>1. <<c>> \in Text /\ Len(<<c>>) = 1 /\ <<c>>[1] = c
      BY DEF Text
    <2>2. /\ Len(t) = Len(s) + Len(<<c>>)
          /\ \A k \in 1 .. Len(s) + Len(<<c>>) :
                t[k] = IF k <= Len(s) THEN s[k] ELSE <<c>>[k - Len(s)]
      BY <1>3, <2>1, ConcatProperties DEF Text
    <2> QED
      BY <1>1, <2>1, <2>2
  <1> DEFINE g == [k \in 0 .. a + 1 |-> IF k = a + 1 THEN f[a] * base + Rank(c) - 1 ELSE f[k]]
  <1>5. \A k \in 0 .. a : g[k] = f[k]
    BY <1>1
  <1>6. g[a + 1] = f[a] * base + Rank(c) - 1
    BY <1>1
  <1>7. g[0] = 0
    BY <1>1, <1>2, <1>5 DEF Worth
  <1> HIDE DEF g
  <1>8. ASSUME NEW k \in 1 .. a + 1 PROVE g[k] = g[k - 1] * base + Rank(t[k]) - 1
    <2>1. CASE k = a + 1
      <3>1. k - 1 = a /\ a \in 0 .. a
        BY <1>1, <2>1
      <3> QED
        BY <1>4, <1>5, <1>6, <2>1, <3>1
    <2>2. CASE k # a + 1
      <3>1. k \in 1 .. a /\ k \in 0 .. a /\ k - 1 \in 0 .. a
        BY <1>1, <2>2
      <3>2. f[k] = f[k - 1] * base + Rank(s[k]) - 1
        BY <1>2, <3>1 DEF Worth
      <3> QED
        BY <1>4, <1>5, <3>1, <3>2
    <2> QED
      BY <2>1, <2>2
  <1>9. Worth(t, base, a + 1, g)
    BY <1>7, <1>8 DEF Worth
  <1>10. F!Value(t, base) = g[a + 1]
    <2>1. a + 1 \in Nat
      BY <1>1
    <2> QED
      BY <1>4, <1>9, <2>1, ValueBy
  <1> QED
    BY <1>2, <1>3, <1>6, <1>10

\* Zeros in front do not count.
LEMMA ValueZeros ==
    ASSUME NEW z \in Nat, NEW s \in Text, NEW base \in Nat
    PROVE  F!Value(F!Times("0", z) \o s, base) = F!Value(s, base)
  <1>1. PICK a \in Nat : a = Len(s)
    BY DEF Text
  <1>2. PICK f : Worth(s, base, a, f) /\ F!Value(s, base) = f[a]
    BY <1>1, ValueIs
  <1>3. PICK t : t = F!Times("0", z) \o s
    OBVIOUS
  <1>4. /\ Len(t) = z + a
        /\ \A k \in 1 .. z : t[k] = "0"
        /\ \A k \in z + 1 .. z + a : t[k] = s[k - z]
    <2>1. PICK u : u = F!Times("0", z)
      OBVIOUS
    <2>2. u \in Text /\ Len(u) = z
      <3>1. "0" \in Character
        BY Characters, Zenon
      <3> QED
        BY <2>1, <3>1, TimesIsText
    <2>3. \A k \in 1 .. z : u[k] = "0"
      BY <2>1 DEF F!Times
    <2>4. /\ Len(t) = Len(u) + Len(s)
          /\ \A k \in 1 .. Len(u) + Len(s) : t[k] = IF k <= Len(u) THEN u[k] ELSE s[k - Len(u)]
      BY <1>3, <2>1, <2>2, ConcatProperties DEF Text
    <2> QED
      BY <1>1, <2>2, <2>3, <2>4
  <1> DEFINE g == [k \in 0 .. z + a |-> IF k <= z THEN 0 ELSE f[k - z]]
  <1>5. /\ \A k \in 0 .. z : g[k] = 0
        /\ \A k \in z + 1 .. z + a : g[k] = f[k - z]
    BY <1>1
  <1> HIDE DEF g
  <1>6. Rank("0") = 1
    <2>1. F!Digit[1] = "0"
      BY DEF F!Digit
    <2> QED
      BY <2>1, RankOf
  <1>7. f[0] = 0
    BY <1>2 DEF Worth
  <1>8. ASSUME NEW k \in 1 .. z + a PROVE g[k] = g[k - 1] * base + Rank(t[k]) - 1
    <2>1. CASE k <= z
      <3>1. k \in 1 .. z /\ k \in 0 .. z /\ k - 1 \in 0 .. z
        BY <2>1
      <3>2. g[k] = 0 /\ g[k - 1] = 0 /\ t[k] = "0"
        BY <1>4, <1>5, <3>1
      <3>3. 0 * base + 1 - 1 = 0
        OBVIOUS
      <3> QED
        BY <1>6, <3>2, <3>3
    <2>2. CASE ~(k <= z)
      <3>1. k \in z + 1 .. z + a /\ k - z \in 1 .. a
        BY <1>1, <2>2
      <3>2. g[k] = f[k - z] /\ t[k] = s[k - z]
        BY <1>4, <1>5, <3>1
      <3>3. f[k - z] = f[(k - z) - 1] * base + Rank(s[k - z]) - 1
        BY <1>2, <3>1 DEF Worth
      <3>4. g[k - 1] = f[(k - z) - 1]
        <4>1. CASE k = z + 1
          <5>1. k - 1 \in 0 .. z /\ (k - z) - 1 = 0
            BY <4>1
          <5> QED
            BY <1>5, <1>7, <5>1
        <4>2. CASE k # z + 1
          <5>1. k - 1 \in z + 1 .. z + a /\ (k - 1) - z = (k - z) - 1
            BY <1>1, <2>2, <4>2
          <5> QED
            BY <1>5, <5>1
        <4> QED
          BY <4>1, <4>2
      <3> QED
        BY <3>2, <3>3, <3>4
    <2> QED
      BY <2>1, <2>2
  <1>9. Worth(t, base, z + a, g)
    <2>1. g[0] = 0
      BY <1>5
    <2> QED
      BY <1>8, <2>1 DEF Worth
  <1>10. F!Value(t, base) = g[z + a]
    <2>1. z + a \in Nat
      BY <1>1
    <2> QED
      BY <1>4, <1>9, <2>1, ValueBy
  <1>11. g[z + a] = f[a]
    <2>1. CASE a = 0
      <3>1. z + a \in 0 .. z
        BY <2>1
      <3> QED
        BY <1>5, <1>7, <2>1, <3>1
    <2>2. CASE a # 0
      <3>1. z + a \in z + 1 .. z + a /\ (z + a) - z = a
        BY <1>1, <2>2
      <3> QED
        BY <1>5, <3>1
    <2> QED
      BY <2>1, <2>2
  <1> QED
    BY <1>2, <1>3, <1>10, <1>11

LEMMA DivRest ==
    ASSUME NEW k \in Nat, NEW base \in {2, 8, 10, 16}
    PROVE  (k \div base) * base + (k % base) = k /\ (k < base => k % base = k)
  <1>1. CASE base = 2
    BY <1>1
  <1>2. CASE base = 8
    BY <1>2
  <1>3. CASE base = 10
    BY <1>3
  <1>4. CASE base = 16
    BY <1>4
  <1> QED
    BY <1>1, <1>2, <1>3, <1>4

\* The digits of a number are numerals, at least one, and their value is the number.
LEMMA DigitsReadBack ==
    ASSUME NEW val \in Nat, NEW base \in {2, 8, 10, 16}
    PROVE  /\ F!Value(F!DigitsOf(val, base), base) = val
           /\ F!DigitsOf(val, base) \in Seq(Numeral)
           /\ F!DigitsOf(val, base) # <<>>
  <1>1. PICK f : DigitsTo(val, base, f) /\ F!DigitsOf(val, base) = f[val]
    BY DigitsIs
  <1> DEFINE Good(m) == f[m] \in Seq(Numeral) /\ f[m] # <<>> /\ F!Value(f[m], base) = m
             Bad == {m \in Nat : m <= val /\ ~Good(m)}
  <1> SUFFICES ASSUME val \in Bad PROVE FALSE
    BY <1>1
  <1>2. PICK c \in Bad : \A d \in Bad : c <= d
    <2>1. Bad \in SUBSET Nat
      OBVIOUS
    <2> HIDE DEF Bad
    <2> QED
      BY <2>1, LeastOf
  <1>3. c \in Nat /\ c <= val /\ ~Good(c)
    OBVIOUS
  <1>4. /\ c \div base \in 0 .. c /\ (c >= base => c \div base < c)
        /\ c % base \in 0 .. 15
    BY <1>3, DivSmaller
  <1>5. f[c] = (IF c < base THEN <<>> ELSE f[c \div base]) \o <<F!Digit[(c % base) + 1]>>
    <2>1. \A k \in 0 .. val : f[k] =
            (IF k < base THEN <<>> ELSE f[k \div base]) \o <<F!Digit[(k % base) + 1]>>
      BY <1>1, Zenon DEF DigitsTo
    <2>2. c \in 0 .. val
      BY <1>3
    <2> QED
      BY <2>1, <2>2, Zenon
  <1>6. PICK i \in 1 .. 16, ch \in Numeral : i = (c % base) + 1 /\ ch = F!Digit[i] /\ Rank(ch) = i
    <2>1. (c % base) + 1 \in 1 .. 16
      BY <1>4
    <2> QED
      BY <2>1, RankOf DEF Numeral
  <1>7. PICK u : u = IF c < base THEN <<>> ELSE f[c \div base]
    OBVIOUS
  <1>8. u \in Seq(Numeral) /\ F!Value(u, base) * base + (c % base) = c
    <2>1. CASE c < base
      <3>1. u = <<>> /\ F!Value(u, base) = 0 /\ c % base = c
        BY <1>3, <1>7, <2>1, ValueEmpty, DivRest
      <3> QED
        BY <1>3, <3>1
    <2>2. CASE ~(c < base)
      <3>1. c \div base \in Nat /\ ~(c <= c \div base) /\ c \div base <= val
        BY <1>3, <1>4, <2>2
      <3>2. Good(c \div base)
        BY <1>2, <3>1
      <3> QED
        BY <1>3, <1>7, <2>2, <3>2, DivRest
    <2> QED
      BY <2>1, <2>2
  <1>9. PICK w : w = <<ch>>
    OBVIOUS
  <1>10. w \in Seq(Numeral) /\ Len(w) = 1
    BY <1>9
  <1>11. u \o w \in Seq(Numeral) /\ Len(u \o w) = Len(u) + 1 /\ Len(u) \in Nat
    <2>1. u \in Seq(Numeral)
      BY <1>8
    <2>2. u \o w \in Seq(Numeral) /\ Len(u \o w) = Len(u) + Len(w)
      BY <1>10, <2>1, ConcatProperties
    <2> QED
      BY <1>10, <2>1, <2>2, LenProperties
  <1>12. F!Value(u \o w, base) = F!Value(u, base) * base + i - 1
    <2>1. \A S, T : S \subseteq T => Seq(S) \subseteq Seq(T)
      OBVIOUS
    <2>2. u \in Text /\ ch \in Character
      BY <1>8, <2>1, Numerals DEF Text
    <2> QED
      BY <1>6, <1>9, <2>2, ValueAppend
  <1>13. F!Value(u, base) \in Int /\ F!Value(u, base) * base \in Int
    <2>1. CASE c < base
      BY <1>7, <2>1, ValueEmpty
    <2>2. CASE ~(c < base)
      <3>1. c \div base \in Nat /\ ~(c <= c \div base) /\ c \div base <= val
        BY <1>3, <1>4, <2>2
      <3> QED
        BY <1>2, <1>7, <2>2, <3>1
    <2> QED
      BY <2>1, <2>2
  <1>14. F!Value(u \o w, base) = c
    <2>1. PICK y \in Int : y = F!Value(u, base) * base
      BY <1>13
    <2>2. F!Value(u \o w, base) = y + i - 1 /\ y + (c % base) = c
      BY <1>8, <1>12, <2>1
    <2> QED
      BY <1>4, <1>6, <2>2
  <1>15. f[c] = u \o w
    BY <1>5, <1>6, <1>7, <1>9, Zenon
  <1>16. u \o w # <<>>
    BY <1>11
  <1> QED
    BY <1>3, <1>11, <1>14, <1>15, <1>16

\* A number with one digit
LEMMA OneDigit ==
    ASSUME NEW val \in 0 .. 9
    PROVE  F!DigitsOf(val, 10) = <<F!Digit[val + 1]>>
  <1>1. PICK f : DigitsTo(val, 10, f) /\ F!DigitsOf(val, 10) = f[val]
    BY DigitsIs
  <1>2. \A k \in 0 .. val : f[k] =
            (IF k < 10 THEN <<>> ELSE f[k \div 10]) \o <<F!Digit[(k % 10) + 1]>>
    BY <1>1, Zenon DEF DigitsTo
  <1>3. val \in 0 .. val /\ val < 10 /\ val % 10 = val
    OBVIOUS
  <1>4. f[val] = <<>> \o <<F!Digit[val + 1]>>
    BY <1>2, <1>3
  <1>5. PICK ch : ch = F!Digit[val + 1]
    OBVIOUS
  <1>6. <<>> \o <<ch>> = <<ch>>
    <2>1. <<ch>> \in Seq({ch})
      OBVIOUS
    <2> QED
      BY <2>1, ConcatEmptySeq
  <1> QED
    BY <1>1, <1>4, <1>5, <1>6

-----------------------------------------------------------------------------
(* Numbers read back: the field around the digits *)

\* What is between two texts
Between(f, m, b) ==
    LET out == f \o m \o b
    IN  /\ Len(out) = Len(f) + Len(m) + Len(b)
        /\ \A i \in 1 .. Len(f) + Len(m) + Len(b) : out[i] =
             IF i <= Len(f) THEN f[i]
             ELSE IF i <= Len(f) + Len(m) THEN m[i - Len(f)] ELSE b[i - (Len(f) + Len(m))]
        /\ SubSeq(out, Len(f) + 1, Len(f) + Len(m)) = m

LEMMA InBetween ==
    ASSUME NEW S, NEW f \in Seq(S), NEW m \in Seq(S), NEW b \in Seq(S)
    PROVE  Between(f, m, b)
  <1>1. PICK lf \in Nat, lm \in Nat, lb \in Nat : lf = Len(f) /\ lm = Len(m) /\ lb = Len(b)
    BY LenProperties
  <1>2. PICK w : w = f \o m \o b
    OBVIOUS
  <1>3. PICK u \in Seq(S) : /\ u = f \o m /\ Len(u) = lf + lm
                            /\ \A i \in 1 .. lf + lm : u[i] = IF i <= lf THEN f[i] ELSE m[i - lf]
    <2>1. f \o m \in Seq(S)
      BY ConcatProperties
    <2>2. /\ Len(f \o m) = Len(f) + Len(m)
          /\ \A i \in 1 .. Len(f) + Len(m) : (f \o m)[i] = IF i <= Len(f) THEN f[i] ELSE m[i - Len(f)]
      BY ConcatProperties
    <2> QED
      BY <1>1, <2>1, <2>2, Zenon
  <1>4. /\ w \in Seq(S) /\ Len(w) = lf + lm + lb
        /\ \A i \in 1 .. lf + lm + lb : w[i] = IF i <= lf + lm THEN u[i] ELSE b[i - (lf + lm)]
    <2>1. w = u \o b
      BY <1>2, <1>3
    <2>2. /\ w \in Seq(S) /\ Len(w) = Len(u) + Len(b)
          /\ \A i \in 1 .. Len(u) + Len(b) : w[i] = IF i <= Len(u) THEN u[i] ELSE b[i - Len(u)]
      BY <2>1, ConcatProperties
    <2> QED
      BY <1>1, <1>3, <2>2
  <1>5. ASSUME NEW i \in 1 .. lf + lm + lb
        PROVE  w[i] = IF i <= lf THEN f[i] ELSE IF i <= lf + lm THEN m[i - lf] ELSE b[i - (lf + lm)]
    <2>1. i <= lf + lm => i \in 1 .. lf + lm
      BY <1>1
    <2>2. i <= lf => i <= lf + lm
      BY <1>1
    <2> QED
      BY <1>3, <1>4, <2>1, <2>2
  <1>6. SubSeq(w, lf + 1, lf + lm) = m
    <2>1. \A i \in lf + 1 .. lf + lm : w[i] \in S
      <3> SUFFICES ASSUME NEW i \in lf + 1 .. lf + lm PROVE w[i] \in S
        OBVIOUS
      <3>1. i \in 1 .. lf + lm + lb
        BY <1>1
      <3> QED
        BY <1>4, <3>1, ElementOfSeq
    <2>2. PICK v : v = SubSeq(w, lf + 1, lf + lm)
      OBVIOUS
    <2>3. /\ v \in Seq(S)
          /\ Len(v) = IF lf + 1 <= lf + lm THEN (lf + lm) - (lf + 1) + 1 ELSE 0
          /\ \A i \in 1 .. (lf + lm) - (lf + 1) + 1 : v[i] = w[lf + 1 + i - 1]
      <3>1. lf + 1 \in Int /\ lf + lm \in Int
        BY <1>1
      <3> QED
        BY <2>1, <2>2, <3>1, SubSeqProperties
    <2>4. Len(v) = lm /\ (lf + lm) - (lf + 1) + 1 = lm
      BY <1>1, <2>3
    <2>5. ASSUME NEW i \in 1 .. lm PROVE v[i] = m[i]
      <3>1. lf + 1 + i - 1 = lf + i /\ lf + i \in 1 .. lf + lm + lb
            /\ ~(lf + i <= lf) /\ lf + i <= lf + lm /\ (lf + i) - lf = i
        BY <1>1
      <3>2. v[i] = w[lf + i]
        BY <2>3, <2>4, <3>1
      <3> QED
        BY <1>5, <3>1, <3>2
    <2> QED
      BY <1>1, <2>2, <2>3, <2>4, <2>5, SeqEqual
  <1> QED
    BY <1>1, <1>2, <1>4, <1>5, <1>6 DEF Between

\* A text among blanks is found there.
LEMMA FramedBy ==
    ASSUME NEW blanks, NEW B, \A c \in B : c \notin blanks,
           NEW f \in Seq(blanks), NEW m \in Seq(B), m # <<>>, NEW b \in Seq(blanks)
    PROVE  /\ F!Framed(f \o m \o b, blanks, Len(f), Len(b))
           /\ Len(f \o m \o b) = Len(f) + Len(m) + Len(b)
           /\ Len(f) \in 0 .. Len(f \o m \o b) /\ Len(b) \in 0 .. Len(f \o m \o b)
           /\ SubSeq(f \o m \o b, Len(f) + 1, Len(f \o m \o b) - Len(b)) = m
  <1>1. PICK S : S = blanks \cup B
    OBVIOUS
  <1>2. f \in Seq(S) /\ m \in Seq(S) /\ b \in Seq(S)
    <2>1. blanks \subseteq S /\ B \subseteq S
      BY <1>1
    <2> QED
      BY <2>1, SeqMonotonic
  <1>3. PICK lf \in Nat, lm \in Nat, lb \in Nat : lf = Len(f) /\ lm = Len(m) /\ lb = Len(b)
    BY <1>2, LenProperties
  <1>4. lm # 0
    <2>1. Len(m) \in Nat \ {0}
      BY EmptySeq
    <2> QED
      BY <1>3, <2>1
  <1>5. PICK w : w = f \o m \o b
    OBVIOUS
  <1>6. /\ Len(w) = lf + lm + lb /\ SubSeq(w, lf + 1, lf + lm) = m
        /\ \A i \in 1 .. lf + lm + lb : w[i] =
             IF i <= lf THEN f[i] ELSE IF i <= lf + lm THEN m[i - lf] ELSE b[i - (lf + lm)]
    <2>1. f \in Seq(S) /\ m \in Seq(S) /\ b \in Seq(S)
      BY <1>2
    <2>2. Between(f, m, b)
      BY <2>1, InBetween
    <2> QED
      BY <1>3, <1>5, <2>2 DEF Between
  <1>7. ASSUME NEW i \in 1 .. lf + lm + lb
        PROVE  w[i] \in blanks <=> i <= lf \/ i > (lf + lm + lb) - lb
    <2>1. CASE i <= lf
      <3>1. i \in 1 .. lf
        BY <2>1
      <3>2. f[i] \in blanks
        BY <1>3, <3>1, ElementOfSeq
      <3> QED
        BY <1>6, <2>1, <3>2
    <2>2. CASE ~(i <= lf) /\ i <= lf + lm
      <3>1. i - lf \in 1 .. lm /\ ~(i > (lf + lm + lb) - lb)
        BY <2>2
      <3>2. m[i - lf] \in B
        BY <1>3, <3>1, ElementOfSeq
      <3> QED
        BY <1>6, <2>2, <3>1, <3>2
    <2>3. CASE ~(i <= lf + lm)
      <3>1. i - (lf + lm) \in 1 .. lb /\ i > (lf + lm + lb) - lb /\ ~(i <= lf)
        BY <2>3
      <3>2. b[i - (lf + lm)] \in blanks
        BY <1>3, <3>1, ElementOfSeq
      <3> QED
        BY <1>6, <2>3, <3>1, <3>2
    <2> QED
      BY <2>1, <2>2, <2>3
  <1>8. lf + lb < lf + lm + lb /\ lf \in 0 .. lf + lm + lb /\ lb \in 0 .. lf + lm + lb
        /\ (lf + lm + lb) - lb = lf + lm
    BY <1>4
  <1> QED
    BY <1>3, <1>5, <1>6, <1>7, <1>8 DEF F!Framed

LEMMA MaxIs ==
    ASSUME NEW a \in Int, NEW b \in Int
    PROVE  F!Max({a, b}) = IF a >= b THEN a ELSE b
  <1>1. \E x \in {a, b} : \A y \in {a, b} : x >= y
    <2>1. CASE a >= b
      BY <2>1
    <2>2. CASE ~(a >= b)
      BY <2>2
    <2> QED
      BY <2>1, <2>2
  <1>2. F!Max({a, b}) \in {a, b} /\ \A y \in {a, b} : F!Max({a, b}) >= y
    BY <1>1 DEF F!Max
  <1> QED
    BY <1>2

LEMMA AtLeast0Is == ASSUME NEW k \in Int PROVE F!AtLeast0(k) = IF k <= 0 THEN 0 ELSE k
  <1>1. F!Max({0, k}) = IF 0 >= k THEN 0 ELSE k
    BY MaxIs
  <1> QED
    BY <1>1 DEF F!AtLeast0

\* The engine's signs, which the arithmetic provers cannot spell
Blank == " "
Minus == "-"
Plus == "+"

LEMMA Signs ==
    /\ Blank \in Character /\ Minus \in Character /\ Plus \in Character
    /\ Blank \notin Numeral /\ Minus \notin Numeral /\ Plus \notin Numeral
    /\ Blank # Minus /\ Blank # Plus /\ Minus # Plus
    /\ Blank # "x" /\ Minus # "x" /\ Plus # "x"
    /\ Blank # "." /\ Plus # "."
BY Numerals, Characters, Zenon DEF Blank, Minus, Plus

LEMMA TimesIs ==
    ASSUME NEW c, NEW k \in Nat
    PROVE  F!Times(c, k) \in Seq({c}) /\ Len(F!Times(c, k)) = k /\ F!Times(c, 0) = <<>>
  <1>1. [i \in 1 .. k |-> c] \in Seq({c}) /\ Len([i \in 1 .. k |-> c]) = k
    OBVIOUS
  <1>2. [i \in 1 .. 0 |-> c] = <<>>
    OBVIOUS
  <1> QED
    BY <1>1, <1>2 DEF F!Times

\* A text is padded on one side.
LEMMA PaddedAs ==
    ASSUME NEW d, d.width \in Int, NEW text \in Text, NEW len \in Int
    PROVE  \E a, b \in Nat :
             /\ F!Padded(d, text, len) = F!Times(Blank, a) \o text \o F!Times(Blank, b)
             /\ a + b = IF d.width <= len THEN 0 ELSE d.width - len
             /\ b > 0 => "left" \in d.flags /\ a = 0
  <1>1. PICK k \in Nat : k = F!AtLeast0(d.width - len)
                         /\ k = IF d.width <= len THEN 0 ELSE d.width - len
    <2>1. PICK w \in Int : w = d.width
      OBVIOUS
    <2>2. F!AtLeast0(w - len) = IF w - len <= 0 THEN 0 ELSE w - len
      BY AtLeast0Is
    <2> QED
      BY <2>1, <2>2
  <1>2. F!Padded(d, text, len) = IF "left" \in d.flags THEN text \o F!Times(Blank, k)
                                 ELSE F!Times(Blank, k) \o text
    BY <1>1, Zenon DEF F!Padded, Blank
  <1>3. PICK t : t = F!Times(Blank, k)
    OBVIOUS
  <1>4. t \in Text
    BY <1>3, Signs, TimesIsText
  <1>5. <<>> = F!Times(Blank, 0) /\ <<>> \o text = text /\ (t \o text) \o <<>> = t \o text
    <2>1. t \o text \in Seq(Character)
      BY <1>4, TextParts DEF Text
    <2> QED
      BY <2>1, TimesIs, ConcatEmptySeq DEF Text
  <1>6. CASE "left" \in d.flags
    <2>1. F!Padded(d, text, len) = F!Times(Blank, 0) \o text \o F!Times(Blank, k)
      BY <1>2, <1>5, <1>6
    <2>2. 0 + k = k /\ 0 \in Nat
      OBVIOUS
    <2> QED
      BY <1>1, <1>6, <2>1, <2>2
  <1>7. CASE "left" \notin d.flags
    <2>1. F!Padded(d, text, len) = F!Times(Blank, k) \o text \o F!Times(Blank, 0)
      BY <1>2, <1>3, <1>5, <1>7
    <2>2. k + 0 = k /\ 0 \in Nat /\ ~(0 > 0)
      OBVIOUS
    <2> QED
      BY <1>1, <2>1, <2>2
  <1> QED
    BY <1>6, <1>7

\* Head and digits with zeros between them and blanks around, as wide as asked for
LEMMA LaidOutAs ==
    ASSUME NEW d, d.width \in Int, d.precision \in Int, NEW head \in Text, NEW digits \in Text
    PROVE  \E a, b, z \in Nat :
             /\ F!LaidOut(d, head, digits) =
                  F!Times(Blank, a) \o (head \o F!Times("0", z) \o digits) \o F!Times(Blank, b)
             /\ z + Len(digits) >= d.precision
             /\ b > 0 => "left" \in d.flags /\ a = 0
             /\ a + (Len(head) + z + Len(digits)) + b =
                  F!Max({d.width, Len(head) + F!Max({Len(digits), d.precision})})
  <1>1. PICK w \in Int, p \in Int : w = d.width /\ p = d.precision
    OBVIOUS
  <1>2. PICK lh \in Nat, ld \in Nat : lh = Len(head) /\ ld = Len(digits)
    BY DEF Text
  <1>3. F!Max({w, lh + F!Max({ld, p})}) = IF w >= lh + (IF ld >= p THEN ld ELSE p) THEN w
                                          ELSE lh + (IF ld >= p THEN ld ELSE p)
    <2>1. PICK y \in Int : y = F!Max({ld, p}) /\ y = IF ld >= p THEN ld ELSE p
      BY MaxIs
    <2>2. F!Max({w, lh + y}) = IF w >= lh + y THEN w ELSE lh + y
      BY MaxIs
    <2> QED
      BY <2>1, <2>2
  <1>4. \A k \in Nat : head \o F!Times("0", k) \o digits \in Text
    <2>1. "0" \in Character
      BY Characters, Zenon
    <2> QED
      BY <2>1, TimesIsText, TextParts
  <1>5. CASE "zero" \in d.flags /\ p < 0
    <2>1. PICK z \in Nat : z = F!AtLeast0(w - lh - ld) /\ z = IF w - lh - ld <= 0 THEN 0 ELSE w - lh - ld
      <3>1. w - lh - ld \in Int
        OBVIOUS
      <3> QED
        BY <3>1, AtLeast0Is
    <2>2. PICK t \in Text : t = head \o F!Times("0", z) \o digits
      BY <1>4
    <2>3. F!LaidOut(d, head, digits) = t
      BY <1>1, <1>2, <1>5, <2>1, <2>2, Zenon DEF F!LaidOut
    <2>4. F!Times(Blank, 0) \o t \o F!Times(Blank, 0) = t
      BY TimesIs, ConcatEmptySeq DEF Text
    <2>5. 0 + (lh + z + ld) + 0 = F!Max({w, lh + F!Max({ld, p})}) /\ z + ld >= p /\ ~(0 > 0) /\ 0 \in Nat
      <3>1. PICK y \in Int : y = F!Max({w, lh + F!Max({ld, p})})
                            /\ y = IF w >= lh + ld THEN w ELSE lh + ld
        BY <1>3, <1>5
      <3>2. 0 + (lh + z + ld) + 0 = IF w >= lh + ld THEN w ELSE lh + ld
        <4>1. z = IF w - lh - ld <= 0 THEN 0 ELSE w - lh - ld
          BY <2>1
        <4> QED
          BY <4>1
      <3>3. z + ld >= p /\ ~(0 > 0) /\ 0 \in Nat
        BY <1>5
      <3> QED
        BY <3>1, <3>2, <3>3
    <2> QED
      BY <1>1, <1>2, <2>2, <2>3, <2>4, <2>5, Zenon
  <1>6. CASE ~("zero" \in d.flags /\ p < 0)
    <2>1. PICK z \in Nat : z = F!AtLeast0(p - ld) /\ z = IF p - ld <= 0 THEN 0 ELSE p - ld
      <3>1. p - ld \in Int
        OBVIOUS
      <3> QED
        BY <3>1, AtLeast0Is
    <2>2. PICK t \in Text : t = head \o F!Times("0", z) \o digits
      BY <1>4
    <2>3. PICK len \in Int : len = lh + z + ld
      OBVIOUS
    <2>4. F!LaidOut(d, head, digits) = F!Padded(d, t, len)
      BY <1>1, <1>2, <1>6, <2>1, <2>2, <2>3, Zenon DEF F!LaidOut
    <2>5. PICK a \in Nat, b \in Nat :
             /\ F!Padded(d, t, len) = F!Times(Blank, a) \o t \o F!Times(Blank, b)
             /\ a + b = IF d.width <= len THEN 0 ELSE d.width - len
             /\ b > 0 => "left" \in d.flags /\ a = 0
      BY PaddedAs
    <2>6. a + (lh + z + ld) + b = F!Max({w, lh + F!Max({ld, p})}) /\ z + ld >= p
      <3>1. z = IF p - ld <= 0 THEN 0 ELSE p - ld
        BY <2>1
      <3>2. PICK g \in Nat : g = z + ld
        OBVIOUS
      <3>3. g = IF ld >= p THEN ld ELSE p
        BY <3>1, <3>2
      <3>4. PICK y \in Int : y = F!Max({w, lh + F!Max({ld, p})})
                            /\ y = IF w >= lh + g THEN w ELSE lh + g
        BY <1>3, <3>3
      <3>5. a + b = IF w <= len THEN 0 ELSE w - len
        BY <1>1, <2>5
      <3>6. a + (lh + z + ld) + b = y
        <4>1. len = lh + g /\ a + (lh + z + ld) + b = a + b + len
          BY <2>3, <3>2
        <4> QED
          BY <3>4, <3>5, <4>1
      <3> QED
        BY <3>2, <3>3, <3>4, <3>6
    <2> QED
      BY <1>1, <1>2, <2>2, <2>4, <2>5, <2>6, Zenon
  <1> QED
    BY <1>5, <1>6

Base == {2, 8, 10, 16}
NumeralOrX == Numeral \cup {"x"}
SignText == {<<>>, <<Minus>>, <<Plus>>}

\* A sign is taken off.
LEMMA Signless ==
    ASSUME NEW B, Minus \notin B, Plus \notin B, NEW p \in Seq(B), p # <<>>,
           NEW rest \in SignText
    PROVE  /\ F!Unsigned(rest \o p) = p
           /\ rest \o p \in Seq(B \cup {Minus, Plus}) /\ rest \o p # <<>>
           /\ (rest \o p)[1] = Minus <=> rest = <<Minus>>
  <1>1. \A s : F!Unsigned(s) = IF s[1] \in {Minus, Plus} THEN Tail(s) ELSE s
    BY Zenon DEF F!Unsigned, Minus, Plus
  <1>2. PICK S : S = B \cup {Minus, Plus}
    OBVIOUS
  <1>3. p \in Seq(S) /\ rest \in Seq(S) /\ Len(p) \in Nat \ {0} /\ p[1] \in B
    <2>1. B \subseteq S /\ \A c \in S : <<c>> \in Seq(S)
      BY <1>2
    <2>2. p \in Seq(S)
      BY <2>1, SeqMonotonic
    <2>3. Len(p) \in Nat \ {0}
      BY EmptySeq
    <2>4. p[1] \in B
      <3>1. 1 \in 1 .. Len(p)
        BY <2>3
      <3> QED
        BY <3>1, ElementOfSeq
    <2>5. rest \in Seq(S)
      BY <1>2, <2>1, EmptySeq DEF SignText
    <2> QED
      BY <2>2, <2>3, <2>4, <2>5
  <1>4. PICK w \in Seq(S) :
          /\ w = rest \o p /\ Len(w) = Len(rest) + Len(p)
          /\ \A i \in 1 .. Len(rest) + Len(p) : w[i] = IF i <= Len(rest) THEN rest[i] ELSE p[i - Len(rest)]
    <2>1. rest \o p \in Seq(S)
      BY <1>3, ConcatProperties
    <2>2. /\ Len(rest \o p) = Len(rest) + Len(p)
          /\ \A i \in 1 .. Len(rest) + Len(p) :
               (rest \o p)[i] = IF i <= Len(rest) THEN rest[i] ELSE p[i - Len(rest)]
      BY <1>3, ConcatProperties
    <2> QED
      BY <2>1, <2>2, Zenon
  <1>5. Minus # Plus
    BY Signs
  <1>6. CASE rest = <<>>
    <2>1. w = p
      BY <1>4, <1>6, ConcatEmptySeq
    <2>2. w[1] # Minus /\ w[1] # Plus
      BY <1>3, <2>1
    <2>3. F!Unsigned(w) = p
      BY <1>1, <2>1, <2>2
    <2>4. rest # <<Minus>>
      BY <1>6
    <2> QED
      BY <1>2, <1>4, <2>1, <2>2, <2>3, <2>4
  <1>7. ASSUME NEW c \in {Minus, Plus}, rest = <<c>>
        PROVE  F!Unsigned(w) = p /\ w # <<>> /\ w[1] = c
    <2>1. Len(rest) = 1 /\ rest[1] = c
      BY <1>7
    <2>2. Len(w) = 1 + Len(p) /\ w[1] = c /\ w # <<>>
      BY <1>3, <1>4, <2>1
    <2>3. /\ Tail(w) \in Seq(S) /\ Len(Tail(w)) = Len(w) - 1
          /\ \A i \in 1 .. Len(Tail(w)) : Tail(w)[i] = w[i + 1]
      BY <2>2, HeadTailProperties
    <2>4. ASSUME NEW i \in 1 .. Len(p) PROVE Tail(w)[i] = p[i]
      <3>1. i + 1 \in 1 .. Len(rest) + Len(p) /\ ~(i + 1 <= Len(rest)) /\ (i + 1) - Len(rest) = i
        BY <1>3, <2>1
      <3>2. w[i + 1] = p[i]
        BY <1>4, <3>1
      <3> QED
        BY <1>3, <2>2, <2>3, <3>2
    <2>5. Len(Tail(w)) = Len(p)
      BY <1>3, <2>2, <2>3
    <2>6. Tail(w) = p
      BY <1>3, <2>3, <2>4, <2>5, SeqEqual
    <2> QED
      BY <1>1, <2>2, <2>6
  <1>8. CASE rest # <<>>
    <2>1. PICK c \in {Minus, Plus} : rest = <<c>>
      BY <1>8 DEF SignText
    <2>2. F!Unsigned(w) = p /\ w # <<>> /\ w[1] = c
      BY <1>7, <2>1
    <2>3. w[1] = Minus <=> rest = <<Minus>>
      BY <2>1, <2>2
    <2> QED
      BY <1>2, <1>4, <2>2, <2>3
  <1> QED
    BY <1>6, <1>8

\* Sign and prefix of a number
LEMMA SignIs ==
    ASSUME NEW d \in F!Conversions, d.conv = "d"
    PROVE  /\ F!Sign(d) \in {<<>>, <<Minus>>, <<Plus>>, <<Blank>>}
           /\ F!Sign(d) = <<Minus>> <=> d.num < 0
           /\ F!Sign(d) = <<Blank>> => "space" \in d.flags
  <1>1. d.num < 0 => "signed" \in d.flags
    BY DEF F!Conversions
  <1>2. F!Sign(d) = IF "signed" \in d.flags /\ d.num < 0 THEN <<Minus>>
                    ELSE IF "plus" \in d.flags THEN <<Plus>>
                    ELSE IF "space" \in d.flags THEN <<Blank>> ELSE <<>>
    BY Zenon DEF F!Sign, F!PositiveSign, Minus, Plus, Blank
  <1>3. <<Blank>> # <<Minus>> /\ <<Blank>> # <<Plus>> /\ <<Minus>> # <<Plus>>
        /\ <<>> # <<Minus>> /\ <<>> # <<Blank>>
    <2>1. Blank # Minus /\ Blank # Plus /\ Minus # Plus
      BY Signs
    <2> QED
      BY <2>1
  <1> QED
    BY <1>1, <1>2, <1>3

LEMMA SpecialIs ==
    ASSUME NEW d \in F!Conversions, d.conv = "d"
    PROVE  F!Special(d) \in Seq(NumeralOrX)
  <1>1. F!Special(d) \in {<<>>, <<"0">>, <<"0", "x">>, <<"0", "b">>}
    BY ConversionIs DEF F!Special
  <1>2. "0" \in Numeral /\ "b" \in Numeral
    BY DEF Numeral, F!Digit
  <1>3. \A S : <<>> \in Seq(S) /\ \A c, e \in S : <<c>> \in Seq(S) /\ <<c, e>> \in Seq(S)
    OBVIOUS
  <1>4. "0" \in NumeralOrX /\ "b" \in NumeralOrX /\ "x" \in NumeralOrX
    BY <1>2 DEF NumeralOrX
  <1> QED
    BY <1>1, <1>3, <1>4, Zenon

\* Prefix, zeros and digits: what Read makes a number of
Prefixed(q, z, val, base) ==
    LET p == q \o (F!Times("0", z) \o F!DigitsOf(val, base))
    IN  /\ p \in Seq(NumeralOrX) /\ p # <<>>
        /\ Len(p) = Len(q) + (z + Len(F!DigitsOf(val, base)))
        /\ F!Value(SubSeq(p, Len(q) + 1, Len(p)), base) = val

LEMMA DigitsBehindPrefix ==
    ASSUME NEW val \in Nat, NEW base \in Base, NEW z \in Nat, NEW q \in Seq(NumeralOrX)
    PROVE  Prefixed(q, z, val, base)
  <1>1. PICK g : /\ g = F!DigitsOf(val, base)
                 /\ F!Value(g, base) = val /\ g \in Seq(Numeral) /\ g # <<>>
    BY DigitsReadBack DEF Base
  <1>2. PICK p : p = q \o (F!Times("0", z) \o F!DigitsOf(val, base))
    OBVIOUS
  <1>3. PICK lq \in Nat, lg \in Nat : lq = Len(q) /\ lg = Len(g)
    BY <1>1, LenProperties
  <1>4. PICK S : S = NumeralOrX
    OBVIOUS
  <1>5. Numeral \subseteq S /\ "0" \in S
    BY <1>4, Numerals, Zenon DEF NumeralOrX
  <1>6. g \in Seq(S) /\ q \in Seq(S) /\ lg # 0
    <2>1. Len(g) \in Nat \ {0}
      BY <1>1, EmptySeq
    <2> QED
      BY <1>1, <1>3, <1>4, <1>5, <2>1, SeqMonotonic
  <1>7. PICK t : t = F!Times("0", z)
    OBVIOUS
  <1>8. t \in Seq(S) /\ Len(t) = z
    <2>1. t \in Seq({"0"}) /\ Len(t) = z
      BY <1>7, TimesIs
    <2>2. {"0"} \subseteq S
      BY <1>5
    <2> QED
      BY <2>1, <2>2, SeqMonotonic
  <1>9. PICK y \in Seq(S) : y = t \o g /\ Len(y) = z + lg
    BY <1>3, <1>6, <1>8, ConcatProperties
  <1>10. p = q \o y \o <<>> /\ Len(<<>>) = 0 /\ <<>> \in Seq(S) /\ p \in Seq(S) /\ Len(p) = lq + (z + lg)
    <2>1. q \o y \in Seq(S) /\ Len(q \o y) = Len(q) + Len(y)
      BY <1>6, ConcatProperties
    <2>2. p = q \o y
      BY <1>1, <1>2, <1>7, <1>9
    <2>3. (q \o y) \o <<>> = q \o y /\ Len(<<>>) = 0 /\ <<>> \in Seq(S)
      BY <2>1, ConcatEmptySeq
    <2>4. Len(q \o y) = lq + (z + lg)
      BY <1>3, <1>9, <2>1
    <2> QED
      BY <2>1, <2>2, <2>3, <2>4
  <1>11. SubSeq(p, lq + 1, lq + (z + lg)) = y
    <2>1. PICK e \in Seq(S) : e = <<>> /\ p = q \o y \o e
      BY <1>10
    <2>2. SubSeq(q \o y \o e, Len(q) + 1, Len(q) + Len(y)) = y
      <3>1. q \in Seq(S)
        BY <1>6
      <3>2. Between(q, y, e)
        BY <3>1, InBetween
      <3> QED
        BY <3>2 DEF Between
    <2> QED
      BY <1>3, <1>9, <2>1, <2>2
  <1>12. F!Value(y, base) = val
    <2>1. g \in Text
      <3>1. Numeral \subseteq Character
        BY Numerals, Zenon
      <3> QED
        BY <1>1, <3>1, SeqMonotonic DEF Text
    <2> QED
      <3>1. base \in Nat
        BY DEF Base
      <3>2. F!Value(F!Times("0", z) \o g, base) = F!Value(g, base)
        BY <2>1, <3>1, ValueZeros
      <3> QED
        BY <1>1, <1>7, <1>9, <3>2
  <1>13. p # <<>>
    <2>1. lq + (z + lg) # 0
      BY <1>6
    <2> QED
      BY <1>10, <2>1
  <1> QED
    <2>1. /\ p \in Seq(NumeralOrX) /\ p # <<>>
          /\ Len(p) = Len(q) + (z + Len(F!DigitsOf(val, base)))
          /\ F!Value(SubSeq(p, Len(q) + 1, Len(p)), base) = val
      BY <1>1, <1>3, <1>4, <1>10, <1>11, <1>12, <1>13
    <2> QED
      BY <1>2, <2>1, Zenon DEF Prefixed

\* A blank in front of a number that stands for its sign is one of the blanks.
LEMMA SignParts ==
    ASSUME NEW d \in F!Conversions, d.conv = "d"
    PROVE  \E lead, rest :
             /\ lead \in {<<>>, <<Blank>>} /\ rest \in SignText
             /\ F!Sign(d) = lead \o rest
             /\ rest = <<Minus>> <=> d.num < 0
             /\ lead = <<Blank>> => "space" \in d.flags
  <1>1. PICK s : s = F!Sign(d)
    OBVIOUS
  <1>2. <<>> # <<Minus>> /\ <<Blank>> # <<Minus>> /\ <<>> # <<Blank>>
    BY Signs
  <1>3. \A c : <<>> \o <<c>> = <<c>> /\ <<c>> \o <<>> = <<c>>
    <2>1. \A c : <<c>> \in Seq({c})
      OBVIOUS
    <2> QED
      BY <2>1, ConcatEmptySeq
  <1>4. <<>> \o <<>> = <<>>
    <2>1. <<>> \in Seq({})
      OBVIOUS
    <2> QED
      BY <2>1, ConcatEmptySeq
  <1>5. CASE s = <<Blank>>
    BY <1>1, <1>2, <1>3, <1>5, SignIs DEF SignText
  <1>6. CASE s # <<Blank>>
    <2>1. s \in {<<>>, <<Minus>>, <<Plus>>} /\ (s = <<Minus>> <=> d.num < 0)
      BY <1>1, <1>6, SignIs
    <2>2. <<>> \o s = s
      BY <1>3, <1>4, <2>1
    <2> QED
      BY <1>1, <1>2, <2>1, <2>2 DEF SignText
  <1> QED
    BY <1>5, <1>6

\* A number's field reads back as the number (vprintf_number).
LEMMA NumberReadsBack ==
    ASSUME NEW d \in F!Conversions, d.conv = "d"
    PROVE  F!ReadsBack(d, F!NumberField(d))
  <1>1. /\ d.width \in Int /\ d.precision \in Int /\ d.num \in Int /\ d.base \in {2, 8, 10, 16}
    BY ConversionIs
  <1>2. PICK k \in Nat, base \in Base :
          /\ k = IF d.num < 0 THEN -d.num ELSE d.num
          /\ base = d.base
    BY <1>1 DEF Base
  <1>3. PICK g : g = F!DigitsOf(k, base) /\ g = F!NumberDigits(d)
    BY <1>2, Zenon DEF F!NumberDigits
  <1>4. PICK q : q = F!Special(d)
    OBVIOUS
  <1>5. PICK lead, rest :
             /\ lead \in {<<>>, <<Blank>>} /\ rest \in SignText
             /\ F!Sign(d) = lead \o rest
             /\ rest = <<Minus>> <=> d.num < 0
             /\ lead = <<Blank>> => "space" \in d.flags
    BY SignParts
  <1>6. PICK S : S = Character
    OBVIOUS
  <1>7. PICK Q : Q = NumeralOrX
    OBVIOUS
  <1>8. Q \subseteq S /\ Minus \in S /\ Plus \in S /\ Blank \in S
        /\ Minus \notin Q /\ Plus \notin Q /\ Blank \notin Q
    BY <1>6, <1>7, Numerals, Characters, Signs, Zenon DEF NumeralOrX
  <1>9. /\ g \in Seq(S) /\ q \in Seq(Q) /\ q \in Seq(S) /\ lead \in Seq(S) /\ rest \in Seq(S)
        /\ lead \in Seq({Blank})
    <2>1. Numeral \subseteq S /\ g \in Seq(Numeral)
      <3>1. Numeral \subseteq S
        BY <1>7, <1>8 DEF NumeralOrX
      <3>2. F!DigitsOf(k, base) \in Seq(Numeral)
        <4>1. base \in {2, 8, 10, 16}
          BY DEF Base
        <4> QED
          BY <4>1, DigitsReadBack
      <3> QED
        BY <1>3, <3>1, <3>2, Zenon
    <2>2. \A T : \A c \in T : <<c>> \in Seq(T) /\ <<>> \in Seq(T)
      OBVIOUS
    <2>3. q \in Seq(Q)
      BY <1>4, <1>7, SpecialIs
    <2> QED
      BY <1>5, <1>8, <2>1, <2>2, <2>3, SeqMonotonic DEF SignText
  <1>10. PICK lq \in Nat, lg \in Nat, ll \in Nat, lr \in Nat :
           lq = Len(q) /\ lg = Len(g) /\ ll = Len(lead) /\ lr = Len(rest)
    BY <1>9, LenProperties
  <1>11. PICK head : head = (lead \o rest) \o q
    OBVIOUS
  <1>12. PICK lh \in Nat : head \in Seq(S) /\ lh = Len(head) /\ lh = ll + lr + lq
                           /\ Len(F!Sign(d)) = ll + lr
    <2>1. lead \o rest \in Seq(S) /\ Len(lead \o rest) = ll + lr
      BY <1>9, <1>10, ConcatProperties
    <2>2. head \in Seq(S) /\ Len(head) = (ll + lr) + lq
      BY <1>9, <1>10, <1>11, <2>1, ConcatProperties
    <2> QED
      BY <1>5, <2>1, <2>2
  <1>13. PICK a \in Nat, b \in Nat, z \in Nat :
           /\ F!LaidOut(d, head, g) =
                F!Times(Blank, a) \o (head \o F!Times("0", z) \o g) \o F!Times(Blank, b)
           /\ z + Len(g) >= d.precision
           /\ b > 0 => "left" \in d.flags /\ a = 0
           /\ a + (Len(head) + z + Len(g)) + b =
                F!Max({d.width, Len(head) + F!Max({Len(g), d.precision})})
    <2>1. head \in Text /\ g \in Text
      BY <1>6, <1>9, <1>12 DEF Text
    <2>2. d.width \in Int /\ d.precision \in Int
      BY <1>1
    <2> QED
      BY <2>1, <2>2, LaidOutAs
  <1>14. F!NumberField(d) = F!LaidOut(d, head, g)
    BY <1>3, <1>4, <1>5, <1>11, Zenon DEF F!NumberField
  <1>15. PICK t : t = F!Times("0", z)
    OBVIOUS
  <1>16. PICK p : p = q \o (t \o g)
    OBVIOUS
  <1>17. /\ p \in Seq(Q) /\ p # <<>> /\ Len(p) = lq + (z + lg)
         /\ F!Value(SubSeq(p, lq + 1, Len(p)), base) = k
    <2>1. q \in Seq(NumeralOrX)
      BY <1>7, <1>9
    <2>2. Prefixed(q, z, k, base)
      BY <2>1, DigitsBehindPrefix
    <2> QED
      BY <1>3, <1>7, <1>10, <1>15, <1>16, <2>2, Zenon DEF Prefixed
  <1>18. PICK m : m = rest \o p
    OBVIOUS
  <1>19. PICK B : B = Q \cup {Minus, Plus}
    OBVIOUS
  <1>20. /\ F!Unsigned(m) = p /\ m \in Seq(B) /\ m # <<>>
         /\ m[1] = Minus <=> rest = <<Minus>>
    <2>1. /\ F!Unsigned(rest \o p) = p
          /\ rest \o p \in Seq(Q \cup {Minus, Plus}) /\ rest \o p # <<>>
          /\ (rest \o p)[1] = Minus <=> rest = <<Minus>>
      <3>1. Minus \notin Q /\ Plus \notin Q /\ p \in Seq(Q) /\ p # <<>>
        BY <1>8, <1>17
      <3>2. rest \in SignText
        BY <1>5
      <3> QED
        BY <3>1, <3>2, Signless
    <2> QED
      BY <1>18, <1>19, <2>1
  <1>21. head \o t \o g = lead \o m
    <2>1. t \in Seq(S)
      <3>1. "0" \in S
        BY <1>6, Characters, Zenon
      <3>2. {"0"} \subseteq S /\ t \in Seq({"0"})
        BY <1>15, <3>1, TimesIs
      <3> QED
        BY <3>2, SeqMonotonic
    <2>2. t \o g \in Seq(S)
      BY <1>9, <2>1, ConcatProperties
    <2>3. head \o t \o g = head \o (t \o g)
      <3>1. head \in Seq(S) /\ t \in Seq(S) /\ g \in Seq(S)
        BY <1>9, <1>12, <2>1
      <3> QED
        BY <3>1, ConcatAssociative, SMTT(30)
    <2>4. lead \o rest \in Seq(S)
      BY <1>9, ConcatProperties
    <2>5. head \o (t \o g) = (lead \o rest) \o p
      <3>1. ((lead \o rest) \o q) \o (t \o g) = (lead \o rest) \o (q \o (t \o g))
        <4>1. PICK x, y : x = lead \o rest /\ y = t \o g
          OBVIOUS
        <4>2. x \in Seq(S) /\ q \in Seq(S) /\ y \in Seq(S)
          BY <1>9, <2>2, <2>4, <4>1
        <4>3. (x \o q) \o y = x \o (q \o y)
          BY <4>2, ConcatAssociative, SMTT(30)
        <4> QED
          BY <4>1, <4>3
      <3> QED
        BY <1>11, <1>16, <3>1
    <2>6. p \in Seq(S)
      BY <1>8, <1>17, SeqMonotonic
    <2>7. (lead \o rest) \o p = lead \o (rest \o p)
      BY <1>9, <2>6, ConcatAssociative, SMTT(30)
    <2> QED
      BY <1>18, <2>3, <2>5, <2>7
  <1>22. PICK ta, tb : ta = F!Times(Blank, a) /\ tb = F!Times(Blank, b)
    OBVIOUS
  <1>23. ta \in Seq({Blank}) /\ tb \in Seq({Blank}) /\ Len(ta) = a /\ Len(tb) = b
    BY <1>22, TimesIs
  <1>24. PICK f : f = ta \o lead
    OBVIOUS
  <1>25. f \in Seq({Blank}) /\ Len(f) = a + ll
    BY <1>9, <1>10, <1>23, <1>24, ConcatProperties
  <1>26. PICK out : out = F!NumberField(d)
    OBVIOUS
  <1>27. out = f \o m \o tb
    <2>1. out = ta \o (lead \o m) \o tb
      BY <1>13, <1>14, <1>15, <1>21, <1>22, <1>26
    <2>2. lead \in Seq(B \cup {Blank}) /\ m \in Seq(B \cup {Blank}) /\ ta \in Seq(B \cup {Blank})
      <3>1. B \subseteq B \cup {Blank} /\ {Blank} \subseteq B \cup {Blank}
        OBVIOUS
      <3> QED
        BY <1>9, <1>20, <1>23, <3>1, SeqMonotonic
    <2>3. (ta \o lead) \o m = ta \o (lead \o m)
      BY <2>2, ConcatAssociative, SMTT(30)
    <2> QED
      BY <1>24, <2>1, <2>3
  <1>28. \A c \in B : c \notin {Blank}
    BY <1>8, <1>19, Signs
  <1>29. /\ F!Framed(out, {Blank}, a + ll, b)
         /\ Len(out) = (a + ll) + Len(m) + b
         /\ a + ll \in 0 .. Len(out) /\ b \in 0 .. Len(out)
         /\ SubSeq(out, (a + ll) + 1, Len(out) - b) = m
    <2>1. /\ F!Framed(f \o m \o tb, {Blank}, Len(f), Len(tb))
          /\ Len(f \o m \o tb) = Len(f) + Len(m) + Len(tb)
          /\ Len(f) \in 0 .. Len(f \o m \o tb) /\ Len(tb) \in 0 .. Len(f \o m \o tb)
          /\ SubSeq(f \o m \o tb, Len(f) + 1, Len(f \o m \o tb) - Len(tb)) = m
      <3>1. f \in Seq({Blank}) /\ tb \in Seq({Blank}) /\ m \in Seq(B) /\ m # <<>>
        BY <1>20, <1>23, <1>25
      <3> QED
        BY <1>28, <3>1, FramedBy
    <2> QED
      BY <1>23, <1>25, <1>27, <2>1, Zenon
  <1>30. Len(m) = lr + (lq + (z + lg))
    <2>1. rest \in Seq(S) /\ p \in Seq(S)
      BY <1>8, <1>9, <1>17, SeqMonotonic
    <2>2. Len(rest \o p) = Len(rest) + Len(p)
      BY <2>1, ConcatProperties
    <2> QED
      BY <1>10, <1>17, <1>18, <2>2
  <1>31. Len(out) = F!Max({d.width, Len(F!Sign(d)) + Len(F!Special(d))
                                     + F!Max({Len(F!NumberDigits(d)), d.precision})})
    <2>1. Len(F!NumberDigits(d)) = lg
      BY <1>3, <1>10
    <2>2. Len(F!Sign(d)) + Len(F!Special(d)) = ll + lr + lq
      BY <1>4, <1>10, <1>12
    <2>3. Len(out) = a + (lh + z + lg) + b
      BY <1>12, <1>29, <1>30
    <2>4. lg = Len(g) /\ lh = Len(head) /\ Len(F!Sign(d)) + Len(F!Special(d)) = lh
      BY <1>10, <1>12, <2>2
    <2>5. Len(out) = F!Max({d.width, lh + F!Max({lg, d.precision})})
      BY <1>13, <2>3, <2>4
    <2> QED
      BY <2>1, <2>4, <2>5
  <1>32. F!Read(d, m) = d.num
    <2>1. F!Read(d, m) = (IF m[1] = "-" THEN -1 ELSE 1) * k
      BY <1>2, <1>4, <1>10, <1>17, <1>20, Zenon DEF F!Read
    <2>2. m[1] = "-" <=> d.num < 0
      <3>1. m[1] = Minus <=> d.num < 0
        BY <1>5, <1>20
      <3> QED
        BY <3>1, Zenon DEF Minus
    <2>3. PICK i : i = IF m[1] = "-" THEN -1 ELSE 1
      OBVIOUS
    <2>4. i = IF d.num < 0 THEN -1 ELSE 1
      BY <2>2, <2>3, Zenon
    <2>5. F!Read(d, m) = i * k
      BY <2>1, <2>3, Zenon
    <2>6. CASE d.num < 0
      BY <1>1, <1>2, <2>4, <2>5, <2>6
    <2>7. CASE ~(d.num < 0)
      BY <1>1, <1>2, <2>4, <2>5, <2>7
    <2> QED
      BY <2>6, <2>7
  <1>33. Len(F!Unsigned(m)) >= Len(F!Special(d)) + d.precision
    <2>1. Len(F!Unsigned(m)) = lq + (z + lg) /\ Len(F!Special(d)) = lq
      BY <1>4, <1>10, <1>17, <1>20
    <2> QED
      BY <1>1, <1>10, <1>13, <2>1
  <1>34. b > 0 => "left" \in d.flags /\ a + ll <= (IF "space" \in d.flags THEN 1 ELSE 0)
    <2>1. ll = 0 \/ (ll = 1 /\ "space" \in d.flags)
      BY <1>5, <1>10
    <2> QED
      BY <1>13, <2>1
  <1>35. F!Framed(out, {" "}, a + ll, b)
    BY <1>29, Zenon DEF Blank
  <1> QED
    BY <1>26, <1>29, <1>31, <1>32, <1>33, <1>34, <1>35, Zenon DEF F!ReadsBack

-----------------------------------------------------------------------------
(* Doubles are printed as nearest numbers. *)

\* Half a unit off only on the even side
LEMMA RoundsWhen ==
    ASSUME NEW k \in Int, NEW val \in Int, NEW unit \in Nat \ {0}, NEW off \in Int,
           off = 2 * (unit * k - val),
           off \in -unit .. unit, off \in {-unit, unit} => k % 2 = 0
    PROVE  F!Rounds(k, val, unit)
BY DEF F!Rounds

\* What float_decentralized makes of num hundredths is the nearest number of the
\* precision, of two the even one, and its fraction has one digit.
LEMMA DecentralizedIs ==
    ASSUME NEW val \in Nat, NEW prec \in {0, 1}, prec = 1 => val % 100 \notin {5, 95}
    PROVE  \E w, f \in Nat :
             /\ F!Decentralized(val, prec) = <<w, f>>
             /\ prec = 0 => F!Rounds(w, val, 100)
             /\ prec = 1 => f \in 0 .. 9 /\ F!Rounds(w * 10 + f, val, 10)
  <1>1. PICK i \in Nat, r \in 0 .. 99 : i = val \div 100 /\ r = val % 100 /\ val = 100 * i + r
    OBVIOUS
  <1>2. CASE prec = 0
    <2>1. PICK up : up = F!RoundedUp(i, 0, 1, r, 100)
      OBVIOUS
    <2>2. F!Decentralized(val, prec) =
            IF val - 100 * up[1] >= 50 /\ up[1] % 2 = 1 THEN <<up[1] + 1, up[2]>> ELSE up
      BY <1>1, <1>2, <2>1 DEF F!Decentralized
    <2>3. CASE r > 50
      <3>1. up = <<i + 1, 0>>
        BY <2>1, <2>3 DEF F!RoundedUp
      <3>2. ~(val - 100 * (i + 1) >= 50) /\ F!Rounds(i + 1, val, 100)
        <4>1. 2 * (100 * (i + 1) - val) \in -99 .. 99 /\ ~(val - 100 * (i + 1) >= 50)
          BY <1>1, <2>3
        <4> QED
          BY <4>1, RoundsWhen
      <3>3. F!Decentralized(val, prec) = <<i + 1, 0>>
        BY <2>2, <3>1, <3>2
      <3> QED
        BY <1>2, <3>2, <3>3
    <2>4. CASE r = 50
      <3>1. up = <<i, 1>>
        BY <2>1, <2>4 DEF F!RoundedUp
      <3>2. val - 100 * i >= 50 /\ 2 * (100 * i - val) = -100 /\ 2 * (100 * (i + 1) - val) = 100
        BY <1>1, <2>4
      <3>3. CASE i % 2 = 1
        <4>1. F!Decentralized(val, prec) = <<i + 1, 1>> /\ (i + 1) % 2 = 0
          BY <2>2, <3>1, <3>2, <3>3
        <4>2. F!Rounds(i + 1, val, 100)
          BY <3>2, <4>1, RoundsWhen
        <4> QED
          BY <1>2, <4>1, <4>2
      <3>4. CASE i % 2 = 0
        <4>1. F!Decentralized(val, prec) = <<i, 1>>
          BY <2>2, <3>1, <3>4
        <4>2. F!Rounds(i, val, 100)
          BY <3>2, <3>4, RoundsWhen
        <4> QED
          BY <1>2, <4>1, <4>2
      <3> QED
        BY <3>3, <3>4
    <2>5. CASE r < 50
      <3>1. up = <<i, 0>>
        BY <2>1, <2>5 DEF F!RoundedUp
      <3>2. ~(val - 100 * i >= 50) /\ F!Rounds(i, val, 100)
        <4>1. ~(val - 100 * i >= 50) /\ 2 * (100 * i - val) \in -99 .. 99
          BY <1>1, <2>5
        <4> QED
          BY <4>1, RoundsWhen
      <3>3. F!Decentralized(val, prec) = <<i, 0>>
        BY <2>2, <3>1, <3>2
      <3> QED
        BY <1>2, <3>2, <3>3
    <2> QED
      BY <2>3, <2>4, <2>5
  <1>3. CASE prec = 1
    <2>1. PICK f \in 0 .. 9, s \in 0 .. 9 : f = r \div 10 /\ s = r % 10 /\ r = 10 * f + s
      OBVIOUS
    <2>2. F!Decentralized(val, prec) = F!RoundedUp(i, f, 10, s, 10)
      BY <1>1, <1>3, <2>1 DEF F!Decentralized
    <2>3. CASE s > 5 /\ f = 9
      <3>1. F!RoundedUp(i, f, 10, s, 10) = <<i + 1, 0>>
        BY <2>3 DEF F!RoundedUp
      <3>2. F!Rounds((i + 1) * 10 + 0, val, 10)
        <4>1. 2 * (10 * ((i + 1) * 10 + 0) - val) \in -9 .. 9
          BY <1>1, <2>1, <2>3
        <4> QED
          BY <4>1, RoundsWhen
      <3> QED
        BY <1>3, <2>2, <3>1, <3>2
    <2>4. CASE s > 5 /\ f < 9
      <3>1. F!RoundedUp(i, f, 10, s, 10) = <<i, f + 1>>
        BY <2>4 DEF F!RoundedUp
      <3>2. F!Rounds(i * 10 + (f + 1), val, 10)
        <4>1. 2 * (10 * (i * 10 + (f + 1)) - val) \in -9 .. 9
          BY <1>1, <2>1, <2>4
        <4> QED
          BY <4>1, RoundsWhen
      <3>3. f + 1 \in 0 .. 9
        BY <2>4
      <3> QED
        BY <1>3, <2>2, <3>1, <3>2, <3>3
    <2>5. CASE s = 5 /\ f % 2 = 1
      <3>1. F!RoundedUp(i, f, 10, s, 10) = <<i, f + 1>>
        BY <2>5 DEF F!RoundedUp
      <3>2. f # 9
        BY <1>1, <1>3, <2>1, <2>5
      <3>3. F!Rounds(i * 10 + (f + 1), val, 10)
        <4>1. 2 * (10 * (i * 10 + (f + 1)) - val) = 10 /\ (i * 10 + (f + 1)) % 2 = 0
          BY <1>1, <2>1, <2>5
        <4> QED
          BY <4>1, RoundsWhen
      <3>4. f + 1 \in 0 .. 9
        BY <3>2
      <3> QED
        BY <1>3, <2>2, <3>1, <3>3, <3>4
    <2>6. CASE s = 5 /\ f % 2 = 0
      <3>1. f # 0
        BY <1>1, <1>3, <2>1, <2>6
      <3>2. F!RoundedUp(i, f, 10, s, 10) = <<i, f>>
        BY <2>6, <3>1 DEF F!RoundedUp
      <3>3. F!Rounds(i * 10 + f, val, 10)
        <4>1. 2 * (10 * (i * 10 + f) - val) = -10 /\ (i * 10 + f) % 2 = 0
          BY <1>1, <2>1, <2>6
        <4> QED
          BY <4>1, RoundsWhen
      <3> QED
        BY <1>3, <2>2, <3>2, <3>3
    <2>7. CASE s < 5
      <3>1. F!RoundedUp(i, f, 10, s, 10) = <<i, f>>
        BY <2>7 DEF F!RoundedUp
      <3>2. F!Rounds(i * 10 + f, val, 10)
        <4>1. 2 * (10 * (i * 10 + f) - val) \in -9 .. 9
          BY <1>1, <2>1, <2>7
        <4> QED
          BY <4>1, RoundsWhen
      <3> QED
        BY <1>3, <2>2, <3>1, <3>2
    <2> QED
      BY <2>3, <2>4, <2>5, <2>6, <2>7
  <1> QED
    BY <1>2, <1>3

Dot == "."
DotOf(s) == F!SelectInSeq(s, LAMBDA x : x = ".")

LEMMA DotNotNumeral == Dot \notin Numeral /\ Dot \in Character /\ Dot # Blank /\ Dot # Plus
  BY Numerals, Characters, Signs, Zenon DEF Dot

LEMMA DotOfIs ==
    ASSUME NEW s
    PROVE  DotOf(s) = LET I == {i \in 1 .. Len(s) : s[i] = Dot} IN IF I # {} THEN F!Min(I) ELSE 0
  BY Zenon DEF DotOf, Dot, F!SelectInSeq

\* The text of a double in its two parts
LEMMA DotFound ==
    ASSUME NEW w \in Seq(Numeral), NEW f \in Seq(Numeral)
    PROVE  /\ DotOf(w) = 0
           /\ DotOf(w \o <<Dot>> \o f) = Len(w) + 1
  <1>1. \A x \in Seq(Numeral) : \A i \in 1 .. Len(x) : x[i] # Dot
    BY DotNotNumeral, ElementOfSeq
  <1>2. DotOf(w) = 0
    <2> DEFINE I == {i \in 1 .. Len(w) : w[i] = Dot}
    <2>1. I = {}
      BY <1>1
    <2>2. DotOf(w) = IF I # {} THEN F!Min(I) ELSE 0
      BY DotOfIs
    <2> QED
      BY <2>1, <2>2
  <1>3. PICK S : S = Numeral \cup {Dot}
    OBVIOUS
  <1>4. PICK e : e = <<Dot>>
    OBVIOUS
  <1>5. w \in Seq(S) /\ f \in Seq(S) /\ e \in Seq(S) /\ Len(e) = 1 /\ e[1] = Dot
    <2>1. Numeral \subseteq S /\ \A c \in S : <<c>> \in Seq(S)
      BY <1>3
    <2> QED
      BY <1>3, <1>4, <2>1, SeqMonotonic
  <1>6. PICK lw \in Nat, lf \in Nat : lw = Len(w) /\ lf = Len(f)
    BY LenProperties
  <1>7. PICK s : s = w \o e \o f
    OBVIOUS
  <1>8. /\ Len(s) = lw + 1 + lf
        /\ \A i \in 1 .. lw + 1 + lf : s[i] =
             IF i <= lw THEN w[i] ELSE IF i <= lw + 1 THEN e[i - lw] ELSE f[i - (lw + 1)]
    <2>1. Between(w, e, f)
      BY <1>5, InBetween
    <2> QED
      BY <1>5, <1>6, <1>7, <2>1 DEF Between
  <1> DEFINE J == {i \in 1 .. Len(s) : s[i] = Dot}
  <1>9. J = {lw + 1}
    <2>1. ASSUME NEW i \in 1 .. lw + 1 + lf PROVE s[i] = Dot <=> i = lw + 1
      <3>1. CASE i <= lw
        <4>1. i \in 1 .. lw
          BY <3>1
        <4> QED
          BY <1>1, <1>6, <1>8, <3>1, <4>1
      <3>2. CASE i = lw + 1
        <4>1. ~(i <= lw) /\ i <= lw + 1 /\ i - lw = 1
          BY <3>2
        <4> QED
          BY <1>5, <1>8, <3>2, <4>1
      <3>3. CASE i > lw + 1
        <4>1. i - (lw + 1) \in 1 .. lf /\ ~(i <= lw) /\ ~(i <= lw + 1)
          BY <3>3
        <4>2. s[i] = f[i - (lw + 1)]
          BY <1>8, <4>1
        <4> QED
          BY <1>1, <1>6, <3>3, <4>1, <4>2
      <3> QED
        BY <3>1, <3>2, <3>3
    <2>2. lw + 1 \in 1 .. lw + 1 + lf
      OBVIOUS
    <2> QED
      BY <1>8, <2>1, <2>2
  <1>10. DotOf(s) = lw + 1
    <2>1. DotOf(s) = IF J # {} THEN F!Min(J) ELSE 0
      BY DotOfIs
    <2>2. F!Min({lw + 1}) = lw + 1
      BY DEF F!Min
    <2> HIDE DEF J
    <2> QED
      BY <1>9, <2>1, <2>2
  <1> QED
    BY <1>2, <1>4, <1>6, <1>7, <1>10

\* Whole part and fraction are what is before and behind the dot.
LEMMA AroundDot ==
    ASSUME NEW w \in Seq(Numeral), NEW f \in Seq(Numeral)
    PROVE  /\ SubSeq(w \o <<Dot>> \o f, 1, Len(w)) = w
           /\ SubSeq(w \o <<Dot>> \o f, Len(w) + 1 + 1, Len(w \o <<Dot>> \o f)) = f
  <1>1. PICK S : S = Numeral \cup {Dot}
    OBVIOUS
  <1>2. PICK e : e = <<Dot>>
    OBVIOUS
  <1>3. w \in Seq(S) /\ f \in Seq(S) /\ e \in Seq(S) /\ Len(e) = 1
    <2>1. Numeral \subseteq S /\ \A c \in S : <<c>> \in Seq(S)
      BY <1>1
    <2> QED
      BY <1>1, <1>2, <2>1, SeqMonotonic
  <1>4. PICK lw \in Nat, lf \in Nat : lw = Len(w) /\ lf = Len(f)
    BY LenProperties
  <1>5. PICK none \in Seq(S) : none = <<>> /\ Len(none) = 0
    BY EmptySeq
  <1>6. PICK we \in Seq(S) : we = w \o e /\ Len(we) = lw + 1
    <2>1. w \o e \in Seq(S) /\ Len(w \o e) = Len(w) + Len(e)
      BY <1>3, ConcatProperties
    <2> QED
      BY <1>3, <1>4, <2>1
  <1>7. PICK ef \in Seq(S) : ef = e \o f
    BY <1>3, ConcatProperties
  <1>8. PICK s \in Seq(S) : s = we \o f /\ Len(s) = lw + 1 + lf
    <2>1. we \o f \in Seq(S) /\ Len(we \o f) = Len(we) + Len(f)
      BY <1>3, ConcatProperties
    <2> QED
      BY <1>4, <1>6, <2>1
  <1>9. s = w \o ef
    <2>1. w \in Seq(S) /\ e \in Seq(S) /\ f \in Seq(S)
      BY <1>3
    <2>2. (w \o e) \o f = w \o (e \o f)
      BY <2>1, ConcatAssociative, SMTT(30)
    <2> QED
      BY <1>6, <1>7, <1>8, <2>2
  <1>10. SubSeq(s, 1, lw) = w
    <2>1. Between(none, w, ef)
      BY <1>3, InBetween
    <2>2. none \o w = w
      BY <1>3, <1>5, ConcatEmptySeq
    <2>3. SubSeq(none \o w \o ef, Len(none) + 1, Len(none) + Len(w)) = w
      BY <2>1 DEF Between
    <2>4. Len(none) + 1 = 1 /\ Len(none) + Len(w) = lw
      BY <1>4, <1>5
    <2> QED
      BY <1>9, <2>2, <2>3, <2>4
  <1>11. SubSeq(s, lw + 1 + 1, Len(s)) = f
    <2>1. Between(we, f, none)
      BY <1>3, InBetween
    <2>2. s \o none = s
      BY <1>5, ConcatEmptySeq
    <2>3. SubSeq(we \o f \o none, Len(we) + 1, Len(we) + Len(f)) = f
      BY <2>1 DEF Between
    <2>4. Len(we) + 1 = lw + 1 + 1 /\ Len(we) + Len(f) = Len(s)
      BY <1>4, <1>6, <1>8
    <2> QED
      BY <1>8, <2>2, <2>3, <2>4
  <1>12. s = w \o <<Dot>> \o f
    BY <1>2, <1>6, <1>8
  <1> QED
    BY <1>4, <1>10, <1>11, <1>12

\* A whole part, a dot if there is a fraction, and a fraction
Decimal(w, dot, f) ==
    /\ w \in Seq(Numeral) /\ f \in Seq(Numeral)
    /\ dot = <<Dot>> \/ (dot = <<>> /\ f = <<>>)

LEMMA DecimalIsNearest ==
    ASSUME NEW w, NEW dot, NEW f, Decimal(w, dot, f), NEW val \in Int, NEW unit \in Int,
           F!Rounds(F!Value(w \o f, 10), val, unit)
    PROVE  F!IsNearest(val, Len(f), w \o dot \o f, unit)
  <1>1. PICK s : s = w \o dot \o f
    OBVIOUS
  <1>2. F!IsNearest(val, Len(f), s, unit) <=>
          LET whole == IF DotOf(s) = 0 THEN s ELSE SubSeq(s, 1, DotOf(s) - 1)
              fraction == IF DotOf(s) = 0 THEN <<>> ELSE SubSeq(s, DotOf(s) + 1, Len(s))
          IN  /\ Len(fraction) = Len(f)
              /\ F!Rounds(F!Value(whole \o fraction, 10), val, unit)
    BY Zenon DEF F!IsNearest, DotOf
  <1>3. w \in Seq(Numeral) /\ f \in Seq(Numeral)
    BY DEF Decimal
  <1>4. CASE dot = <<Dot>>
    <2>1. DotOf(s) = Len(w) + 1
      BY <1>1, <1>3, <1>4, DotFound
    <2>2. Len(w) \in Nat
      BY <1>3, LenProperties
    <2>3. DotOf(s) # 0 /\ DotOf(s) - 1 = Len(w)
      BY <2>1, <2>2
    <2>4. SubSeq(s, 1, Len(w)) = w /\ SubSeq(s, Len(w) + 1 + 1, Len(s)) = f
      BY <1>1, <1>3, <1>4, AroundDot
    <2>5. SubSeq(s, 1, DotOf(s) - 1) = w /\ SubSeq(s, DotOf(s) + 1, Len(s)) = f
      BY <2>1, <2>3, <2>4
    <2> QED
      BY <1>1, <1>2, <2>3, <2>5, Zenon
  <1>5. CASE dot = <<>> /\ f = <<>>
    <2>1. w \o <<>> = w
      BY <1>3, ConcatEmptySeq
    <2>2. s = w
      BY <1>1, <1>5, <2>1
    <2>3. DotOf(s) = 0
      BY <1>3, <2>2, DotFound
    <2> QED
      BY <1>1, <1>2, <1>5, <2>2, <2>3, Zenon
  <1> QED
    BY <1>4, <1>5 DEF Decimal

\* What out puts around text: blanks, and zeros behind the sign
Framing(out, sign, text) ==
    \E a, b, z \in Nat :
      out = F!Times(Blank, a) \o (sign \o F!Times("0", z) \o text) \o F!Times(Blank, b)

LEMMA LaidOutDoubleAs ==
    ASSUME NEW d, d.width \in Int, NEW sign \in Text, NEW text \in Text
    PROVE  Framing(F!LaidOutDouble(d, sign, text), sign, text)
  <1>1. Len(sign) \in Nat /\ Len(text) \in Nat
    BY DEF Text
  <1>2. "0" \in Character
    BY Characters, Zenon
  <1>3. sign \in Seq(Character) /\ text \in Seq(Character)
    BY DEF Text
  <1>4. CASE "zero" \in d.flags
    <2>1. PICK z \in Nat : z = F!AtLeast0(d.width - (Len(sign) + Len(text)))
      <3>1. d.width - (Len(sign) + Len(text)) \in Int
        BY <1>1
      <3> QED
        BY <3>1, MaxOfTwo
    <2>2. PICK t \in Text : t = sign \o F!Times("0", z) \o text
      <3>1. F!Times("0", z) \in Text
        BY <1>2, TimesIsText
      <3> QED
        BY <3>1, TextParts
    <2>3. F!LaidOutDouble(d, sign, text) = t
      BY <1>4, <2>1, <2>2, Zenon DEF F!LaidOutDouble
    <2>4. F!Times(Blank, 0) \o t \o F!Times(Blank, 0) = t
      BY TimesIs, ConcatEmptySeq DEF Text
    <2>5. 0 \in Nat
      OBVIOUS
    <2> QED
      BY <2>2, <2>3, <2>4, <2>5 DEF Framing
  <1>5. CASE "zero" \notin d.flags
    <2>1. PICK t \in Text : t = sign \o text
      BY TextParts
    <2>2. PICK len \in Int : len = Len(sign) + Len(text)
      BY <1>1
    <2>3. F!LaidOutDouble(d, sign, text) = F!Padded(d, t, len)
      BY <1>5, <2>1, <2>2, Zenon DEF F!LaidOutDouble
    <2>4. PICK a \in Nat, b \in Nat :
             /\ F!Padded(d, t, len) = F!Times(Blank, a) \o t \o F!Times(Blank, b)
             /\ a + b = IF d.width <= len THEN 0 ELSE d.width - len
             /\ b > 0 => "left" \in d.flags /\ a = 0
      BY PaddedAs
    <2>5. F!Times("0", 0) = <<>> /\ sign \o <<>> = sign /\ 0 \in Nat
      BY <1>3, TimesIs, ConcatEmptySeq
    <2>6. t = sign \o F!Times("0", 0) \o text
      BY <2>1, <2>5
    <2> QED
      BY <2>3, <2>4, <2>5, <2>6 DEF Framing
  <1> QED
    BY <1>4, <1>5

\* What is read of a double in units of its precision
UnitOf(prec) == IF prec = 0 THEN 100 ELSE 10

\* Zeros in front do not count.
ZerosInFront(w, dot, f, zeros) ==
    /\ Decimal(zeros \o w, dot, f)
    /\ F!Value((zeros \o w) \o f, 10) = F!Value(w \o f, 10)
    /\ zeros \o (w \o dot \o f) = (zeros \o w) \o dot \o f

LEMMA DecimalZeros ==
    ASSUME NEW w, NEW dot, NEW f, Decimal(w, dot, f), NEW z \in Nat
    PROVE  ZerosInFront(w, dot, f, F!Times("0", z))
  <1>1. w \in Seq(Numeral) /\ f \in Seq(Numeral)
    BY DEF Decimal
  <1>2. PICK t : t = F!Times("0", z)
    OBVIOUS
  <1>3. t \in Seq(Numeral)
    <2>1. {"0"} \subseteq Numeral
      BY Numerals, Zenon
    <2>2. t \in Seq({"0"})
      BY <1>2, TimesIs
    <2> QED
      BY <2>1, <2>2, SeqMonotonic
  <1>4. t \o w \in Seq(Numeral)
    BY <1>1, <1>3, ConcatProperties
  <1>5. (t \o w) \o f = t \o (w \o f)
    BY <1>1, <1>3, ConcatAssociative, SMTT(30)
  <1>6. F!Value(F!Times("0", z) \o (w \o f), 10) = F!Value(w \o f, 10)
    <2>1. w \o f \in Seq(Numeral)
      BY <1>1, ConcatProperties
    <2>2. w \o f \in Text
      BY <2>1, Numerals, SeqMonotonic DEF Text
    <2> QED
      BY <2>2, ValueZeros
  <1>7. t \o (w \o dot \o f) = (t \o w) \o dot \o f
    <2>1. PICK S : S = Numeral \cup {Dot}
      OBVIOUS
    <2>2. /\ t \in Seq(S) /\ w \in Seq(S) /\ f \in Seq(S) /\ dot \in Seq(S)
      <3>1. Numeral \subseteq S /\ <<Dot>> \in Seq(S) /\ <<>> \in Seq(S)
        BY <2>1
      <3> QED
        BY <1>1, <1>3, <3>1, SeqMonotonic DEF Decimal
    <2>3. w \o dot \in Seq(S)
      BY <2>2, ConcatProperties
    <2>4. (t \o w) \o dot = t \o (w \o dot)
      BY <2>2, ConcatAssociative, SMTT(30)
    <2>5. PICK v \in Seq(S) : v = w \o dot
      BY <2>3
    <2>6. (t \o v) \o f = t \o (v \o f)
      BY <2>2, ConcatAssociative, SMTT(30)
    <2> QED
      BY <2>4, <2>5, <2>6
  <1>8. Decimal(t \o w, dot, f)
    BY <1>4 DEF Decimal
  <1> QED
    BY <1>2, <1>5, <1>6, <1>7, <1>8 DEF ZerosInFront

\* The text of a double is this decimal one.
IsDecimal(d, w, dot, f) ==
    /\ Decimal(w, dot, f) /\ w # <<>> /\ Len(f) = d.precision
    /\ F!DoubleText(d, F!Decentralized(d.hundredths, d.precision)) = w \o dot \o f
    /\ F!Rounds(F!Value(w \o f, 10), d.hundredths, UnitOf(d.precision))

\* The text of a double is decimal, and near.
LEMMA DoubleTextIs ==
    ASSUME NEW d \in F!Conversions, d.conv = "f", d.precision = 1 => d.hundredths % 100 \notin {5, 95}
    PROVE  \E w, dot, f : IsDecimal(d, w, dot, f)
  <1>1. PICK val \in Nat, prec \in {0, 1} :
          val = d.hundredths /\ prec = d.precision /\ (prec = 1 => val % 100 \notin {5, 95})
    BY ConversionIs
  <1>2. PICK whole \in Nat, part10 \in Nat :
          /\ F!Decentralized(val, prec) = <<whole, part10>>
          /\ prec = 0 => F!Rounds(whole, val, 100)
          /\ prec = 1 => part10 \in 0 .. 9 /\ F!Rounds(whole * 10 + part10, val, 10)
    <2>1. prec = 1 => val % 100 \notin {5, 95}
      BY <1>1
    <2>2. \E x, y \in Nat :
             /\ F!Decentralized(val, prec) = <<x, y>>
             /\ prec = 0 => F!Rounds(x, val, 100)
             /\ prec = 1 => y \in 0 .. 9 /\ F!Rounds(x * 10 + y, val, 10)
      BY <2>1, DecentralizedIs
    <2> QED
      BY <2>2
  <1>3. PICK w : w = F!DigitsOf(whole, 10)
    OBVIOUS
  <1>4. F!Value(w, 10) = whole /\ w \in Seq(Numeral) /\ w # <<>>
    BY <1>3, DigitsReadBack
  <1>5. PICK parts : parts = <<whole, part10>> /\ parts[1] = whole /\ parts[2] = part10
    <2>1. <<whole, part10>>[1] = whole /\ <<whole, part10>>[2] = part10
      OBVIOUS
    <2> QED
      BY <2>1, Zenon
  <1>6. F!DoubleText(d, parts) =
          LET dot == IF prec > 0 \/ "special" \in d.flags THEN <<Dot>> ELSE <<>>
              fraction == IF prec > 0 THEN F!DigitsOf(part10, 10) ELSE <<>>
          IN  w \o dot \o F!Times("0", F!AtLeast0(prec - Len(fraction))) \o fraction
    BY <1>1, <1>3, <1>5, Zenon DEF F!DoubleText, Dot
  <1>7. F!Times("0", F!AtLeast0(0)) = <<>>
    <2>1. F!AtLeast0(0) = 0
      BY AtLeast0Is
    <2> QED
      BY <2>1, TimesIs
  <1>8. \A S : \A u \in Seq(S) : u \o <<>> = u
    BY ConcatEmptySeq
  <1>9. CASE prec = 0
    <2>1. PICK dot : dot = IF "special" \in d.flags THEN <<Dot>> ELSE <<>>
      OBVIOUS
    <2>2. Len(<<>>) = 0 /\ 0 - 0 = 0 /\ ~(0 > 0)
      OBVIOUS
    <2>3. F!DoubleText(d, parts) = w \o dot \o <<>> \o <<>>
      BY <1>6, <1>7, <1>9, <2>1, <2>2, Zenon
    <2>4. w \o dot \in Seq(Numeral \cup {Dot})
      <3>1. Numeral \subseteq Numeral \cup {Dot}
        OBVIOUS
      <3>2. w \in Seq(Numeral \cup {Dot})
        BY <1>4, <3>1, SeqMonotonic
      <3>3. <<Dot>> \in Seq(Numeral \cup {Dot}) /\ <<>> \in Seq(Numeral \cup {Dot})
        OBVIOUS
      <3>4. dot \in Seq(Numeral \cup {Dot})
        BY <2>1, <3>3, Zenon
      <3> QED
        BY <3>2, <3>4, ConcatProperties
    <2>5. F!DoubleText(d, parts) = w \o dot \o <<>>
      BY <1>8, <2>3, <2>4
    <2>6. dot = <<Dot>> \/ dot = <<>>
      BY <2>1
    <2>7. Decimal(w, dot, <<>>)
      <3>1. <<>> \in Seq(Numeral)
        OBVIOUS
      <3> QED
        BY <1>4, <2>6, <3>1 DEF Decimal
    <2>8. F!Value(w \o <<>>, 10) = whole
      BY <1>4, <1>8
    <2>9. UnitOf(prec) = 100
      BY <1>9 DEF UnitOf
    <2>10. F!Rounds(F!Value(w \o <<>>, 10), val, UnitOf(prec))
      BY <1>2, <1>9, <2>8, <2>9
    <2>11. Len(<<>>) = prec
      BY <1>9, <2>2
    <2>12. IsDecimal(d, w, dot, <<>>)
      BY <1>1, <1>2, <1>4, <1>5, <2>5, <2>7, <2>10, <2>11, Zenon DEF IsDecimal
    <2> QED
      BY <2>12, Zenon
  <1>10. CASE prec = 1
    <2>1. part10 \in 0 .. 9
      BY <1>2, <1>10
    <2>2. PICK c : c = F!Digit[part10 + 1]
      OBVIOUS
    <2>3. part10 + 1 \in 1 .. 16
      BY <2>1
    <2>4. c \in Numeral /\ Rank(c) = part10 + 1
      BY <2>2, <2>3, RankOf DEF Numeral
    <2>5. F!DigitsOf(part10, 10) = <<c>>
      BY <2>1, <2>2, OneDigit
    <2>6. Len(<<c>>) = 1 /\ 1 - 1 = 0 /\ 1 > 0 /\ <<c>> \in Seq(Numeral)
      BY <2>4
    <2>7. F!DoubleText(d, parts) = w \o <<Dot>> \o <<>> \o <<c>>
      BY <1>6, <1>7, <1>10, <2>5, <2>6, Zenon
    <2>8. PICK e : e = <<Dot>>
      OBVIOUS
    <2>9. w \o e \in Seq(Numeral \cup {Dot})
      <3>1. Numeral \subseteq Numeral \cup {Dot}
        OBVIOUS
      <3>2. w \in Seq(Numeral \cup {Dot})
        BY <1>4, <3>1, SeqMonotonic
      <3>3. e \in Seq(Numeral \cup {Dot})
        BY <2>8
      <3> QED
        BY <3>2, <3>3, ConcatProperties
    <2>10. (w \o e) \o <<>> = w \o e
      BY <1>8, <2>9
    <2>11. F!DoubleText(d, parts) = w \o e \o <<c>>
      BY <2>7, <2>8, <2>10
    <2>12. Decimal(w, e, <<c>>)
      BY <1>4, <2>6, <2>8 DEF Decimal
    <2>13. F!Value(w \o <<c>>, 10) = F!Value(w, 10) * 10 + Rank(c) - 1
      <3>1. w \in Text /\ c \in Character
        BY <1>4, <2>4, Numerals, SeqMonotonic DEF Text
      <3> QED
        BY <3>1, ValueAppend
    <2>14. F!Value(w \o <<c>>, 10) = whole * 10 + part10
      BY <1>4, <2>4, <2>13
    <2>15. UnitOf(prec) = 10
      BY <1>10 DEF UnitOf
    <2>16. F!Rounds(F!Value(w \o <<c>>, 10), val, UnitOf(prec))
      BY <1>2, <1>10, <2>14, <2>15
    <2>17. Len(<<c>>) = prec
      BY <1>10, <2>6
    <2>18. IsDecimal(d, w, e, <<c>>)
      BY <1>1, <1>2, <1>4, <1>5, <2>11, <2>12, <2>16, <2>17, Zenon DEF IsDecimal
    <2> QED
      BY <2>18, Zenon
  <1> QED
    BY <1>9, <1>10

LEMMA PositiveSignIs ==
    ASSUME NEW d
    PROVE  F!PositiveSign(d) \in Seq({Blank, Plus}) /\ F!PositiveSign(d) \in Text
  <1>1. F!PositiveSign(d) \in {<<>>, <<Plus>>, <<Blank>>}
    BY Zenon DEF F!PositiveSign, Plus, Blank
  <1>2. <<>> \in Seq({Blank, Plus}) /\ <<Plus>> \in Seq({Blank, Plus}) /\ <<Blank>> \in Seq({Blank, Plus})
    OBVIOUS
  <1>3. F!PositiveSign(d) \in Seq({Blank, Plus})
    BY <1>1, <1>2
  <1>4. {Blank, Plus} \subseteq Character
    BY Signs
  <1> QED
    BY <1>3, <1>4, SeqMonotonic DEF Text

\* A double's field reads back as the number it is rounded to (float_decentralized).
LEMMA DoubleReadsBack ==
    ASSUME NEW d \in F!Conversions, d.conv = "f", d.precision = 1 => d.hundredths % 100 \notin {5, 95}
    PROVE  F!NearlyReadsBack(d, F!FloatField(d))
  <1>1. PICK w, dot, f :
             /\ Decimal(w, dot, f) /\ w # <<>> /\ Len(f) = d.precision
             /\ F!DoubleText(d, F!Decentralized(d.hundredths, d.precision)) = w \o dot \o f
             /\ F!Rounds(F!Value(w \o f, 10), d.hundredths, UnitOf(d.precision))
    BY DoubleTextIs, Zenon DEF IsDecimal
  <1>2. PICK blanks : blanks = {Blank, Plus}
    OBVIOUS
  <1>3. PICK B : B = Numeral \cup {Dot}
    OBVIOUS
  <1>4. \A c \in B : c \notin blanks /\ c \in Character
    <2>1. Numeral \subseteq Character
      BY Numerals, Zenon
    <2>2. Blank \notin Numeral /\ Plus \notin Numeral
      BY Signs, Zenon
    <2> QED
      BY <1>2, <1>3, <2>1, <2>2, DotNotNumeral
  <1>5. PICK sign : sign = F!PositiveSign(d) /\ sign \in Seq(blanks) /\ sign \in Text
    BY <1>2, PositiveSignIs
  <1>6. Numeral \subseteq B /\ <<Dot>> \in Seq(B) /\ <<>> \in Seq(B)
    BY <1>3
  <1>7. \A u : Decimal(u, dot, f) => u \o dot \o f \in Seq(B)
    <2> SUFFICES ASSUME NEW u, Decimal(u, dot, f) PROVE u \o dot \o f \in Seq(B)
      OBVIOUS
    <2>1. u \in Seq(B) /\ f \in Seq(B) /\ dot \in Seq(B)
      BY <1>6, SeqMonotonic DEF Decimal
    <2>2. u \o dot \in Seq(B)
      BY <2>1, ConcatProperties
    <2> QED
      BY <2>1, <2>2, ConcatProperties
  <1>8. PICK text : text = w \o dot \o f
    OBVIOUS
  <1>9. text \in Text
    <2>1. text \in Seq(B) /\ B \subseteq Character
      BY <1>1, <1>4, <1>7, <1>8
    <2> QED
      BY <2>1, SeqMonotonic DEF Text
  <1>10. PICK a \in Nat, b \in Nat, z \in Nat : F!LaidOutDouble(d, sign, text) =
             F!Times(Blank, a) \o (sign \o F!Times("0", z) \o text) \o F!Times(Blank, b)
    <2>1. d.width \in Int
      BY ConversionIs
    <2>2. sign \in Text /\ text \in Text
      BY <1>5, <1>9
    <2>3. Framing(F!LaidOutDouble(d, sign, text), sign, text)
      BY <2>1, <2>2, LaidOutDoubleAs
    <2> QED
      BY <2>3, Zenon DEF Framing
  <1>11. PICK out : out = F!FloatField(d) /\ out = F!LaidOutDouble(d, sign, text)
    BY <1>1, <1>5, <1>8, Zenon DEF F!FloatField
  <1>12. PICK ta, tb, tz : ta = F!Times(Blank, a) /\ tb = F!Times(Blank, b) /\ tz = F!Times("0", z)
    OBVIOUS
  <1>13. PICK v : v = tz \o w
    OBVIOUS
  <1>14. PICK m : m = v \o dot \o f
    OBVIOUS
  <1>15. /\ Decimal(v, dot, f)
         /\ F!Value(v \o f, 10) = F!Value(w \o f, 10)
         /\ tz \o text = m
    <2>1. Decimal(w, dot, f)
      BY <1>1
    <2>2. ZerosInFront(w, dot, f, F!Times("0", z))
      BY <2>1, DecimalZeros
    <2> QED
      BY <1>8, <1>12, <1>13, <1>14, <2>2 DEF ZerosInFront
  <1>16. ta \in Seq(blanks) /\ tb \in Seq(blanks)
    <2>1. {Blank} \subseteq blanks
      BY <1>2
    <2>2. ta \in Seq({Blank}) /\ tb \in Seq({Blank})
      BY <1>12, TimesIs
    <2> QED
      BY <2>1, <2>2, SeqMonotonic
  <1>17. m \in Seq(B)
    BY <1>7, <1>14, <1>15
  <1>18. m # <<>>
    <2>1. v \in Seq(B) /\ dot \in Seq(B) /\ f \in Seq(B) /\ w \in Seq(B) /\ tz \in Seq({"0"})
      <3>1. w \in Seq(Numeral) /\ v \in Seq(Numeral) /\ f \in Seq(Numeral) /\ dot \in {<<Dot>>, <<>>}
        BY <1>1, <1>15 DEF Decimal
      <3>2. v \in Seq(B) /\ f \in Seq(B) /\ w \in Seq(B)
        BY <1>6, <3>1, SeqMonotonic
      <3>3. tz \in Seq({"0"})
        BY <1>12, TimesIs
      <3> QED
        BY <1>6, <3>1, <3>2, <3>3
    <2>2. PICK S : S = B \cup {"0"}
      OBVIOUS
    <2>3. v \in Seq(S) /\ dot \in Seq(S) /\ f \in Seq(S) /\ w \in Seq(S) /\ tz \in Seq(S)
      <3>1. B \subseteq S /\ {"0"} \subseteq S
        BY <2>2
      <3> QED
        BY <2>1, <3>1, SeqMonotonic
    <2>4. Len(w) \in Nat /\ Len(w) # 0 /\ Len(tz) \in Nat /\ Len(dot) \in Nat /\ Len(f) \in Nat
      BY <1>1, <2>3, EmptySeq, LenProperties
    <2>5. Len(v) = Len(tz) + Len(w)
      BY <1>13, <2>3, ConcatProperties
    <2>6. v \o dot \in Seq(S) /\ Len(v \o dot) = Len(v) + Len(dot)
      BY <2>3, ConcatProperties
    <2>7. Len(m) = Len(v \o dot) + Len(f)
      BY <1>14, <2>3, <2>6, ConcatProperties
    <2>8. Len(m) # 0
      BY <2>4, <2>5, <2>6, <2>7
    <2>9. Len(<<>>) = 0
      OBVIOUS
    <2> QED
      BY <2>8, <2>9
  <1>19. PICK front : front = ta \o sign
    OBVIOUS
  <1>20. front \in Seq(blanks)
    BY <1>5, <1>16, <1>19, ConcatProperties
  <1>21. out = front \o m \o tb
    <2>1. PICK S : S = Character
      OBVIOUS
    <2>2. /\ ta \in Seq(S) /\ sign \in Seq(S) /\ tz \in Seq(S) /\ text \in Seq(S) /\ m \in Seq(S)
      <3>1. blanks \subseteq S /\ B \subseteq S
        <4>1. Blank \in S /\ Plus \in S
          BY <2>1, Signs, Zenon
        <4> QED
          BY <1>2, <1>4, <2>1, <4>1
      <3>2. {"0"} \subseteq S
        BY <2>1, Characters, Zenon
      <3>3. tz \in Seq({"0"})
        BY <1>12, TimesIs
      <3>4. sign \in Seq(S) /\ text \in Seq(S)
        BY <1>5, <1>9, <2>1 DEF Text
      <3> QED
        BY <1>16, <1>17, <3>1, <3>2, <3>3, <3>4, SeqMonotonic
    <2>3. (sign \o tz) \o text = sign \o (tz \o text)
      BY <2>2, ConcatAssociative, SMTT(30)
    <2>4. (ta \o sign) \o m = ta \o (sign \o m)
      BY <2>2, ConcatAssociative, SMTT(30)
    <2>5. out = ta \o (sign \o tz \o text) \o tb
      BY <1>10, <1>11, <1>12
    <2> QED
      BY <1>15, <1>19, <2>3, <2>4, <2>5
  <1>22. PICK x, y : x = Len(front) /\ y = Len(tb)
    OBVIOUS
  <1>23. /\ F!Framed(out, blanks, x, y)
         /\ x \in 0 .. Len(out) /\ y \in 0 .. Len(out)
         /\ SubSeq(out, x + 1, Len(out) - y) = m
    <2>1. \A c \in B : c \notin blanks
      BY <1>4
    <2>2. /\ F!Framed(front \o m \o tb, blanks, Len(front), Len(tb))
          /\ Len(front) \in 0 .. Len(front \o m \o tb) /\ Len(tb) \in 0 .. Len(front \o m \o tb)
          /\ SubSeq(front \o m \o tb, Len(front) + 1, Len(front \o m \o tb) - Len(tb)) = m
      BY <1>16, <1>17, <1>18, <1>20, <2>1, FramedBy
    <2> QED
      BY <1>21, <1>22, <2>2, Zenon
  <1>24. F!IsNearest(d.hundredths, d.precision, m, UnitOf(d.precision))
    <2>1. PICK val \in Int, unit \in Int : val = d.hundredths /\ unit = UnitOf(d.precision)
      BY ConversionIs DEF UnitOf
    <2>2. F!Rounds(F!Value(v \o f, 10), val, unit)
      BY <1>1, <1>15, <2>1
    <2>3. F!IsNearest(val, Len(f), v \o dot \o f, unit)
      BY <1>15, <2>2, DecimalIsNearest
    <2> QED
      BY <1>1, <1>14, <2>1, <2>3
  <1>25. F!Framed(out, {" ", "+"}, x, y)
    BY <1>2, <1>23, Zenon DEF Blank, Plus
  <1>26. F!IsNearest(d.hundredths, d.precision, SubSeq(out, x + 1, Len(out) - y),
                     IF d.precision = 0 THEN 100 ELSE 10)
    BY <1>23, <1>24, Zenon DEF UnitOf
  <1>27. F!NearlyReadsBack(d, out)
    BY <1>23, <1>25, <1>26, Zenon DEF F!NearlyReadsBack
  <1> QED
    BY <1>11, <1>27, Zenon

-----------------------------------------------------------------------------
(* What is still to be printed *)

\* 0.05 and 0.95 are not among the doubles printed with one digit.
Exact(directives) ==
    \A i \in DOMAIN directives :
      directives[i].conv = "f" /\ directives[i].precision = 1 =>
        directives[i].hundredths \notin {5, 95}

Roundable == \A program \in Programs : \A k \in DOMAIN program : Exact(program[k].items)

Ahead == Exact(items) /\ \A k \in DOMAIN todo : Exact(todo[k].items)

LEMMA AheadInit == ASSUME Roundable, F!PrintfInit PROVE Ahead
  <1>1. items = <<>> /\ todo \in Programs
    BY DEF F!PrintfInit
  <1>2. Exact(<<>>)
    BY DEF Exact
  <1> QED
    BY <1>1, <1>2 DEF Ahead, Roundable

\* A call and its directives come from what was ahead.
LEMMA AheadStep == EngineInv /\ Ahead /\ [F!PrintfNext]_(F!printfvars) => Ahead'
  <1> SUFFICES ASSUME EngineInv, Ahead, [F!PrintfNext]_(F!printfvars) PROVE Ahead'
    OBVIOUS
  <1>1. todo \in Seq(F!Calls) /\ items \in Seq(F!Conversions)
    BY DEF EngineInv, EngineTypes
  <1>2. CASE F!Begin
    <2>1. todo # <<>> /\ todo' = Tail(todo) /\ items' = Head(todo).items
      BY <1>2 DEF F!Begin
    <2>2. \A S : \A q \in Seq(S) : q # <<>> =>
            /\ 1 \in DOMAIN q /\ Head(q) = q[1]
            /\ \A k \in DOMAIN Tail(q) : k + 1 \in DOMAIN q /\ Tail(q)[k] = q[k + 1]
      OBVIOUS
    <2>3. /\ 1 \in DOMAIN todo /\ items' = todo[1].items
          /\ \A k \in DOMAIN todo' : k + 1 \in DOMAIN todo /\ todo'[k] = todo[k + 1]
      BY <1>1, <2>1, <2>2
    <2>4. Exact(items')
      BY <2>3 DEF Ahead
    <2>5. \A k \in DOMAIN todo' : Exact(todo'[k].items)
      BY <2>3 DEF Ahead
    <2> QED
      BY <2>4, <2>5 DEF Ahead, Exact
  <1>3. CASE F!Directive
    <2>1. items # <<>> /\ items' = SubSeq(items, 2, Len(items)) /\ todo' = todo
      BY <1>3 DEF F!Directive, F!Prints
    <2>2. \A S : \A q \in Seq(S) : q # <<>> =>
            \A k \in DOMAIN SubSeq(q, 2, Len(q)) :
              k + 1 \in DOMAIN q /\ SubSeq(q, 2, Len(q))[k] = q[k + 1]
      OBVIOUS
    <2>3. \A k \in DOMAIN items' : k + 1 \in DOMAIN items /\ items'[k] = items[k + 1]
      BY <1>1, <2>1, <2>2
    <2> QED
      BY <2>1, <2>3 DEF Ahead, Exact
  <1>4. CASE F!Finish \/ UNCHANGED F!printfvars
    <2>1. items' = items /\ todo' = todo
      BY <1>4 DEF F!Finish, F!printfvars
    <2> QED
      BY <2>1 DEF Ahead, Exact
  <1> QED
    BY <1>2, <1>3, <1>4 DEF F!PrintfNext

\* What a directive has printed
LEMMA OutIs ==
    ASSUME EngineInv, F!Directive
    PROVE  items # <<>> /\ items[1] \in F!Conversions /\ F!Out \in F!Outcomes(items[1])
  <1>1. PICK text \in F!Outcomes(items[1]) : items # <<>> /\ F!Prints(text)
    BY DEF F!Directive
  <1>2. items \in Seq(F!Conversions) /\ printed \in Text
    BY DEF EngineInv, EngineTypes
  <1>3. items[1] \in F!Conversions
    <2>1. \A S : \A q \in Seq(S) : q # <<>> => q[1] \in S
      OBVIOUS
    <2> QED
      BY <1>1, <1>2, <2>1
  <1>4. text \in Text
    BY <1>1, <1>3, OutcomeIsText
  <1>5. printed' = printed \o text
    BY <1>1, Zenon DEF F!Prints
  <1>6. PICK S : S = Character
    OBVIOUS
  <1>7. SubSeq(printed \o text, Len(printed) + 1, Len(printed \o text)) = text
    <2>1. printed \in Seq(S) /\ text \in Seq(S)
      BY <1>2, <1>4, <1>6 DEF Text
    <2> QED
      BY <2>1
  <1>8. F!Out = text
    BY <1>5, <1>7, Zenon DEF F!Out
  <1> QED
    BY <1>1, <1>3, <1>8

\* Whatever number a directive prints, in any base and with any width, precision and
\* flags, is what the text reads back as, unless the number has more digits than the
\* stack has room for: then the text may be empty.  A double printed with one digit or
\* none reads back as the nearest number of that many digits, and of two as the even
\* one, unless it is 0.05 or 0.95 with one digit (vprintf_number,
\* vprintf_float_decimalism_or_normalized, float_decentralized).
THEOREM FieldsRead ==
    ASSUME Roundable
    PROVE  DebugSpec => FieldsReadBack
  <1>1. F!PrintfInit => Ahead
    BY AheadInit
  <1> DEFINE Asked ==
        /\ items[1].conv = "d" =>
              F!ReadsBack(items[1], F!Out) \/ (F!NeedsMemory(items[1]) /\ F!Out = <<>>)
        /\ items[1].conv = "f" => F!NearlyReadsBack(items[1], F!Out)
  <1>2. ASSUME EngineInv, Ahead, F!Directive PROVE Asked
    <2>1. PICK d \in F!Conversions : d = items[1] /\ items # <<>> /\ F!Out \in F!Outcomes(d)
      BY <1>2, OutIs
    <2>2. F!Out = F!Field(d) \/ (F!NeedsMemory(d) /\ F!Out = <<>>)
      BY <2>1, Zenon DEF F!Outcomes
    <2>3. ASSUME d.conv = "d"
          PROVE  F!ReadsBack(d, F!Out) \/ (F!NeedsMemory(d) /\ F!Out = <<>>)
      <3>1. F!ReadsBack(d, F!NumberField(d))
        BY <2>3, NumberReadsBack
      <3>2. F!Field(d) = F!NumberField(d)
        BY <2>3 DEF F!Field
      <3> QED
        BY <2>2, <3>1, <3>2, Zenon
    <2>4. ASSUME d.conv = "f" PROVE F!NearlyReadsBack(d, F!Out)
      <3>1. F!Out = F!Field(d)
        BY <2>2, <2>4 DEF F!NeedsMemory
      <3>2. 1 \in DOMAIN items
        <4>1. items \in Seq(F!Conversions)
          BY <1>2 DEF EngineInv, EngineTypes
        <4> QED
          BY <2>1, <4>1
      <3>3. d.precision = 1 => d.hundredths % 100 \notin {5, 95}
        <4>1. d.hundredths \in 0 .. 99
          BY <2>4 DEF F!Conversions
        <4>2. d.precision = 1 => d.hundredths \notin {5, 95}
          BY <1>2, <2>1, <2>4, <3>2 DEF Ahead, Exact
        <4> QED
          BY <4>1, <4>2
      <3>4. F!NearlyReadsBack(d, F!FloatField(d))
        BY <2>4, <3>3, DoubleReadsBack
      <3>5. F!Field(d) = F!FloatField(d)
        BY <2>4 DEF F!Field
      <3> QED
        BY <3>1, <3>4, <3>5, Zenon
    <2> QED
      BY <2>1, <2>3, <2>4, Zenon
  <1>3. EngineInv /\ Ahead => [F!Directive => Asked]_(F!printfvars)
    BY <1>2
  <1>4. DebugSpec => [][F!Directive => Asked]_(F!printfvars)
    BY <1>1, <1>3, AheadStep, EngineInvariance, EnginePart, PTL
  <1> QED
    BY <1>4 DEF FieldsReadBack, F!FieldsReadBack
============================================================================
