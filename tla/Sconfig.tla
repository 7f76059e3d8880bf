------------------------------- MODULE Sconfig -------------------------------
(***************************************************************************)
(* The shared configuration: a table in memory, its file, and authors that *)
(* read and write it, each in a thread of its own.  A write is three       *)
(* critical sections: the change, the save and the notification of the     *)
(* others; between them the lock is free.                                  *)
(***************************************************************************)
EXTENDS Integers, Sequences, SequencesExt

CONSTANTS
    Author,
    MaxChanges, \* bound on the changes
    Torn,       \* what a file is that has been truncated and not yet written
    Reloads     \* whether parse_file is also called later: a set of BOOLEAN

\* Assumed where the constants get their values (Stores).
SconfigAssumption ==
    MaxChanges \in Nat /\ Torn \notin Nat /\ Reloads \subseteq BOOLEAN

VARIABLES
    reload,     \* one of Reloads, never changes
    table,      \* toml_config, told by the change that made it
    file,       \* what the file at config_file_path holds
    made,       \* the changes made so far
    authors,    \* the list of registered authors
    pc,         \* where each author's thread is
    rest,       \* the authors config_change has still to call
    known,      \* history: the table each author has last seen
    dead        \* an exception has left a destructor: the program has ended

vars == <<reload, table, file, made, authors, pc, rest, known, dead>>

\* One thread at most is inside a section of mtx.
Sections == {"writing", "reading", "saving", "syncing", "telling"}
Free == \A a \in Author : pc[a] \notin Sections

Go(a, from, to) == pc[a] = from /\ pc' = [pc EXCEPT ![a] = to]

\* Create and the first parse_file
Init ==
    /\ reload \in Reloads
    /\ table = 0 /\ file = 0 /\ made = 0
    /\ authors = <<>>
    /\ pc = [a \in Author |-> "none"]
    /\ rest = [a \in Author |-> <<>>]
    /\ known = [a \in Author |-> 0]
    /\ dead = FALSE

-----------------------------------------------------------------------------
(* Authors *)

\* Author::Author; it has no callback yet.
Construct(a) ==
    /\ Go(a, "none", "new")
    /\ Free
    /\ authors' = Append(authors, a)
    /\ known' = [known EXCEPT ![a] = table]
    /\ UNCHANGED <<reload, table, file, made, rest, dead>>

\* set_configChange_cb
SetCallback(a) ==
    /\ Go(a, "new", "idle")
    /\ UNCHANGED <<reload, table, file, made, authors, rest, known, dead>>

\* Author::~Author; std::list::remove finds it once.
Destroy(a) ==
    /\ Go(a, "idle", "none")
    /\ Free
    /\ authors' = RemoveAt(authors, CHOOSE i \in DOMAIN authors : authors[i] = a)
    /\ known' = [known EXCEPT ![a] = 0]
    /\ UNCHANGED <<reload, table, file, made, rest, dead>>

\* Read::Read and Read::~Read
ReadBegin(a) ==
    /\ Go(a, "idle", "reading")
    /\ Free
    /\ known' = [known EXCEPT ![a] = table]
    /\ UNCHANGED <<reload, table, file, made, authors, rest, dead>>

ReadEnd(a) ==
    /\ Go(a, "reading", "idle")
    /\ UNCHANGED <<reload, table, file, made, authors, rest, known, dead>>

-----------------------------------------------------------------------------
(* Writes *)

\* Write::Write
WriteBegin(a) ==
    /\ Go(a, "idle", "writing")
    /\ Free
    /\ UNCHANGED <<reload, table, file, made, authors, rest, known, dead>>

\* The owner of the Write object changes the table through it.
Change(a) ==
    /\ pc[a] = "writing" /\ made < MaxChanges
    /\ made' = made + 1 /\ table' = made'
    /\ known' = [known EXCEPT ![a] = table']
    /\ UNCHANGED <<reload, file, authors, pc, rest, dead>>

\* Write::~Write: unlock ...
WriteEnd(a) ==
    /\ Go(a, "writing", "unlocked")
    /\ UNCHANGED <<reload, table, file, made, authors, rest, known, dead>>

\* ... sync, which may also be called directly: the file is truncated ...
OpenFile(a) ==
    /\ Free
    /\ Go(a, "unlocked", "saving") \/ Go(a, "idle", "syncing")
    /\ file' = Torn
    /\ UNCHANGED <<reload, table, made, authors, rest, known, dead>>

\* ... or cannot be opened: the exception leaves a destructor.  (A direct caller
\* of sync catches it, and nothing has changed.)
OpenFails(a) ==
    /\ Free
    /\ pc[a] = "unlocked"
    /\ dead' = TRUE
    /\ UNCHANGED <<reload, table, file, made, authors, pc, rest, known>>

\* (mutant) what the author itself has last seen
SaveFileOwn(a) ==
    /\ Go(a, "saving", "saved") \/ Go(a, "syncing", "idle")
    /\ file' = known[a]
    /\ UNCHANGED <<reload, table, made, authors, rest, known, dead>>

SaveFile(a) ==
    /\ Go(a, "saving", "saved") \/ Go(a, "syncing", "idle")
    /\ file' = table
    /\ UNCHANGED <<reload, table, made, authors, rest, known, dead>>

\* ... and config_change
TellBegin(a) ==
    /\ Go(a, "saved", "telling")
    /\ Free
    /\ rest' = [rest EXCEPT ![a] = authors]
    /\ UNCHANGED <<reload, table, file, made, authors, known, dead>>

\* (mutant) the loop ends at the author who wrote
TellStops(a) ==
    /\ pc[a] = "telling" /\ rest[a] # <<>>
    /\ LET b == Head(rest[a])
       IN  /\ dead' = (b # a /\ pc[b] = "new")
           /\ known' = IF b = a THEN known ELSE [known EXCEPT ![b] = table]
           /\ rest' = [rest EXCEPT ![a] = IF b = a THEN <<>> ELSE Tail(@)]
    /\ UNCHANGED <<reload, table, file, made, authors, pc>>

\* The callback of another author reads the table, under the lock that this
\* thread holds already.  Calling one that is not yet set throws.
Tell(a) ==
    /\ pc[a] = "telling" /\ rest[a] # <<>>
    /\ LET b == Head(rest[a])
       IN  /\ dead' = (b # a /\ pc[b] = "new")
           /\ known' = IF b = a THEN known ELSE [known EXCEPT ![b] = table]
    /\ rest' = [rest EXCEPT ![a] = Tail(@)]
    /\ UNCHANGED <<reload, table, file, made, authors, pc>>

TellEnd(a) ==
    /\ Go(a, "telling", "idle")
    /\ rest[a] = <<>>
    /\ UNCHANGED <<reload, table, file, made, authors, rest, known, dead>>

-----------------------------------------------------------------------------
\* parse_file, by a program that takes over what was edited by hand or, as here,
\* what it has saved itself.
ParseFile(a) ==
    /\ reload
    /\ pc[a] = "idle" /\ Free
    /\ table' = file
    /\ UNCHANGED <<reload, file, made, authors, pc, rest, known, dead>>

Ended == dead /\ UNCHANGED vars

Step(a) ==
    \/ Construct(a) \/ SetCallback(a) \/ Destroy(a)
    \/ ReadBegin(a) \/ ReadEnd(a)
    \/ WriteBegin(a) \/ Change(a) \/ WriteEnd(a)
    \/ OpenFile(a) \/ OpenFails(a) \/ SaveFile(a)
    \/ TellBegin(a) \/ Tell(a) \/ TellEnd(a)
    \/ ParseFile(a)

Next == (~dead /\ \E a \in Author : Step(a)) \/ Ended

Spec == Init /\ [][Next]_vars

-----------------------------------------------------------------------------
(* Properties *)

TypeOK ==
    /\ reload \in Reloads
    /\ table \in 0 .. MaxChanges /\ file \in 0 .. MaxChanges \cup {Torn}
    /\ made \in 0 .. MaxChanges
    /\ \A a \in Author :
        /\ pc[a] \in Sections \cup {"none", "new", "idle", "unlocked", "saved"}
        /\ (pc[a] = "none" <=> a \notin ToSet(authors))
        /\ (rest[a] # <<>> => pc[a] = "telling")
    /\ IsInjective(authors)
    /\ known \in [Author -> 0 .. MaxChanges]
    /\ dead \in BOOLEAN

Somebody(places) == \E a \in Author : pc[a] \in places

\* As soon as no author is between its change and the end of its save, the file
\* holds the table: no save is overtaken by that of an older table, however the
\* writers' sections mix, and whenever the file is read again.
FileIsCurrent ==
    ~dead /\ ~Somebody({"writing", "unlocked", "saving", "syncing"}) => file = table

\* As soon as no write is in progress, every author has seen the table as it is,
\* by its own write or read or by its callback: none is left with an older one
\* because two writers notified each other, or because it was constructed
\* between a change and its notification.
EveryoneKnows ==
    ~dead /\ ~reload /\ ~Somebody({"writing", "unlocked", "saving", "saved", "telling"})
        => \A a \in ToSet(authors) : known[a] = table

\* config_change never calls an author that is destroyed.
AuthorsAreAlive == \A a \in Author : ToSet(rest[a]) \subseteq ToSet(authors)
=============================================================================
