-------------------------------- MODULE Stores --------------------------------
(***************************************************************************)
(* The data that several actors share: the hash table (HashKv), its values *)
(* in memory (HashData), the linked lists its buckets are, here pointer by *)
(* pointer (Ulist), and the shared configuration (Sconfig).  HashKv has    *)
(* its lists as sequences, which Ulist implements, and no values, so that  *)
(* a behaviour is one of a single part.                                    *)
(***************************************************************************)
EXTENDS HashKv

CONSTANTS
    Name, Block, Byte, MaxLen, Header, Unallocated, NoItem,    \* of HashData
    List, Entry, Null,                      \* of Ulist
    Author, MaxChanges, Torn, Reloads       \* of Sconfig

VARIABLES
    part,   \* which of them this behaviour is about, never changes
    item, heap, held, last,
    next, prev, stale, done, loop,
    reload, table, file, made, authors, pc, rest, known, dead

D == INSTANCE HashData
U == INSTANCE Ulist
S == INSTANCE Sconfig

ASSUME StoresAssumption ==
    S!SconfigAssumption /\ D!DataAssumption /\ U!ListAssumption

datavars == <<item, heap, held, last>>
listvars == <<next, prev, stale, done, loop>>
confvars == <<reload, table, file, made, authors, pc, rest, known, dead>>

\* A part this behaviour is not about stays in one of its initial states.
StoresInit ==
    /\ part \in {"hash", "values", "list", "config"}
    /\ Init /\ (part # "hash" => mode = CHOOSE m \in Modes : TRUE)
    /\ D!DataInit
    /\ U!ListInit
    /\ S!Init /\ (part # "config" => reload = CHOOSE r \in Reloads : TRUE)

\* A program that has followed a NULL pointer is over.
Over == part = "hash" /\ crashed /\ UNCHANGED <<part, vars, datavars, listvars, confvars>>

StoresNext ==
    \/ part = "hash" /\ Next /\ UNCHANGED <<part, datavars, listvars, confvars>>
    \/ Over
    \/ part = "values" /\ D!DataNext /\ UNCHANGED <<part, vars, listvars, confvars>>
    \/ part = "list" /\ U!ListNext /\ UNCHANGED <<part, vars, datavars, confvars>>
    \/ part = "config" /\ S!Next /\ UNCHANGED <<part, vars, datavars, listvars>>

StoresSpec == StoresInit /\ [][StoresNext]_<<part, vars, datavars, listvars, confvars>>

-----------------------------------------------------------------------------
(* Properties, besides ReferencesHold and VisitsAll of HashKv *)

\* A key is in the hash table once, the lists lead back the way they lead forth,
\* and no author that is destroyed is ever called.
StoresTypeOK ==
    CASE part = "hash" -> TypeOK /\ UniqueKeys
      [] part = "values" -> TRUE
      [] part = "list" -> U!ListsAreRings
      [] part = "config" -> S!TypeOK /\ S!AuthorsAreAlive

\* Each key keeps the value it was given last, and no memory is lost, wherever
\* an allocation fails.
ValuesAreKept == part = "values" => D!ValuesAreKept

\* Every operation on the pointers is the one on sequences that its name says:
\* ListsAreSequences of Ulist, for the behaviours that are about lists.
ListsAreSequences ==
    U!Queues!Init /\ [][part = "list" => U!Queues!Next]_<<U!Contents, done>>

\* A loop over a list visits what it set out to, though its body removes or
\* moves the entry it is at.
LoopVisitsAll == part = "list" => U!LoopVisitsAll

\* The configuration file ends up as the table, however writers overtake one
\* another.
FileIsCurrent == part = "config" => S!FileIsCurrent

\* So does what each author knows of it.
EveryoneKnows == part = "config" => S!EveryoneKnows
=============================================================================
