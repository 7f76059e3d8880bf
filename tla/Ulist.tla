-------------------------------- MODULE Ulist --------------------------------
(***************************************************************************)
(* The doubly linked lists of ulist.h, pointer by pointer: heads and       *)
(* entries are nodes of rings, next and prev the memory.  A loop over a    *)
(* list may remove or move the entry it is at.                             *)
(***************************************************************************)
EXTENDS Integers, Sequences, FiniteSets, SequencesExt, FiniteSetsExt

CONSTANTS
    List,       \* the heads
    Entry,
    Null

Node == List \cup Entry

\* Assumed where the constants get their values (Stores).
ListAssumption ==
    /\ Null \notin Node /\ Null \notin Seq(Entry)
    /\ List \cap Entry = {} /\ IsFiniteSet(Entry)

VARIABLES
    next, prev, \* the pointers of every node
    stale,      \* heads whose entries list_splice has taken away
    done,       \* history: the last operation
    loop        \* list_for_each_entry_safe, or its mirror image: the head, the
                \* field it follows, pos, n, and as history what it was to
                \* visit and what it has visited

links == <<next, prev>>
listvars == <<next, prev, stale, done, loop>>

NoLoop == [head |-> Null, visit |-> <<>>, visited |-> <<>>]

ListInit ==
    /\ next = [x \in Node |-> IF x \in List THEN x ELSE Null]
    /\ prev = next
    /\ stale = {} /\ done = <<"none">>
    /\ loop = NoLoop

\* The entries from h on along one of the two fields, Null if they do not lead
\* back to h.
Walk(link, h) ==
    LET after[k \in 0..(Cardinality(Entry) + 1)] ==
          IF k = 0 THEN h ELSE IF after[k - 1] = Null THEN Null ELSE link[after[k - 1]]
        back == {k \in DOMAIN after : k > 0 /\ after[k] = h}
    IN  IF back = {} THEN Null ELSE [i \in 1..(Min(back) - 1) |-> after[i]]

Linked(x) == x \in List \ stale \/ (x \in Entry /\ next[x] \notin {x, Null})
Free(e) == next[e] \in {e, Null}

-----------------------------------------------------------------------------
(* The stores of the operations, on the pair m of the two fields *)

\* (mutant) prev->next is stored first, and next is read through it
LinkReread(m, new, p, n) ==
    LET nx == [m[1] EXCEPT ![p] = new]
    IN  <<[nx EXCEPT ![new] = nx[p]], [m[2] EXCEPT ![n] = new, ![new] = p]>>

\* __list_add
Link(m, new, p, n) ==
    <<[m[1] EXCEPT ![new] = n, ![p] = new], [m[2] EXCEPT ![n] = new, ![new] = p]>>

\* __list_del
Unlink(m, p, n) == <<[m[1] EXCEPT ![p] = n], [m[2] EXCEPT ![n] = p]>>

\* list_add and list_add_tail
LinkAfter(m, new, p) == Link(m, new, p, m[1][p])
LinkBefore(m, new, p) == Link(m, new, m[2][p], p)

UnlinkEntry(m, e) == Unlink(m, m[2][e], m[1][e])

\* Both fields of x
Point(m, x, to) == <<[m[1] EXCEPT ![x] = to], [m[2] EXCEPT ![x] = to]>>

\* __list_splice
SpliceAt(m, l, h) ==
    LET first == m[1][l]
        last == m[2][l]
        at == m[1][h]
    IN  <<[m[1] EXCEPT ![h] = first, ![last] = at],
          [m[2] EXCEPT ![first] = h, ![at] = last]>>

Store(m) == next' = m[1] /\ prev' = m[2]

-----------------------------------------------------------------------------
(* The operations; e, p and heads as the caller must choose them *)

Idle == loop.head = Null

Add(e, p) ==
    /\ Idle /\ Free(e) /\ Linked(p)
    /\ \/ Store(LinkAfter(links, e, p)) /\ done' = <<"add", e, p>>
       \/ Store(LinkBefore(links, e, p)) /\ done' = <<"add_tail", e, p>>
    /\ UNCHANGED <<stale, loop>>

\* The body of a loop may do so to the entry it is at.
MayTouch(e) == Linked(e) /\ (~Idle => e = loop.pos)

Del(e) ==
    /\ MayTouch(e)
    /\ \/ Store(Point(UnlinkEntry(links, e), e, Null)) /\ done' = <<"del", e>>
       \/ Store(Point(UnlinkEntry(links, e), e, e)) /\ done' = <<"del_init", e>>
    /\ UNCHANGED <<stale, loop>>

\* The loop may move its entry to another list.
Move(e, p) ==
    /\ MayTouch(e) /\ Linked(p) /\ p # e
    /\ ~Idle => p \in List \ {loop.head}
    /\ \/ Store(LinkAfter(UnlinkEntry(links, e), e, p)) /\ done' = <<"move", e, p>>
       \/ Store(LinkBefore(UnlinkEntry(links, e), e, p)) /\ done' = <<"move_tail", e, p>>
    /\ UNCHANGED <<stale, loop>>

Empty(h) == next[h] = h

\* list_splice: l is left as it is, and not a list until it is initialised.
Splice(l, h) ==
    /\ Idle /\ Linked(l) /\ Linked(h) /\ l # h
    /\ IF Empty(l) THEN UNCHANGED <<next, prev, stale>>
       ELSE Store(SpliceAt(links, l, h)) /\ stale' = stale \cup {l}
    /\ done' = <<"splice", l, h>>
    /\ UNCHANGED loop

SpliceInit(l, h) ==
    /\ Idle /\ Linked(l) /\ Linked(h) /\ l # h
    /\ IF Empty(l) THEN UNCHANGED <<next, prev>>
       ELSE Store(Point(SpliceAt(links, l, h), l, l))
    /\ done' = <<"splice_init", l, h>>
    /\ UNCHANGED <<stale, loop>>

\* INIT_LIST_HEAD, of such a head
InitHead(h) ==
    /\ Idle /\ h \in stale
    /\ Store(Point(links, h, h))
    /\ stale' = stale \ {h}
    /\ UNCHANGED <<done, loop>>

-----------------------------------------------------------------------------
(* list_for_each_entry_safe and list_for_each_prev_entry_safe *)

Field(back) == IF back THEN prev ELSE next

LoopBegin(h, back) ==
    /\ Idle /\ Linked(h)
    /\ loop' = [head |-> h, back |-> back, pos |-> Field(back)[h],
                n |-> Field(back)[Field(back)[h]],
                visit |-> Walk(Field(back), h), visited |-> <<>>]
    /\ UNCHANGED <<next, prev, stale, done>>

\* (mutant) the plain loop: the next entry is found through pos after the body
LoopStepUnsafe ==
    /\ ~Idle /\ loop.pos # loop.head /\ Field(loop.back)[loop.pos] # Null
    /\ loop' = [loop EXCEPT !.pos = Field(loop.back)[loop.pos],
                            !.n = loop.head,
                            !.visited = Append(@, loop.pos)]
    /\ UNCHANGED <<next, prev, stale, done>>

\* The body is over: on to n.
LoopStep ==
    /\ ~Idle /\ loop.pos # loop.head
    /\ loop' = [loop EXCEPT !.pos = loop.n, !.n = Field(loop.back)[loop.n],
                            !.visited = Append(@, loop.pos)]
    /\ UNCHANGED <<next, prev, stale, done>>

LoopEnd ==
    /\ ~Idle /\ loop.pos = loop.head
    /\ loop' = NoLoop
    /\ UNCHANGED <<next, prev, stale, done>>

ListNext ==
    \/ \E e \in Entry, p \in Node : Add(e, p) \/ Move(e, p)
    \/ \E e \in Entry : Del(e)
    \/ \E l, h \in List : Splice(l, h) \/ SpliceInit(l, h)
    \/ \E h \in List : InitHead(h)
    \/ \E h \in List, back \in BOOLEAN : LoopBegin(h, back)
    \/ LoopStep \/ LoopEnd

ListSpec == ListInit /\ [][ListNext]_listvars

-----------------------------------------------------------------------------
(* Properties *)

\* The way back is the way forth reversed, in every list.
ListsAreRings ==
    \A h \in List \ stale :
        LET forth == Walk(next, h)
            back == Walk(prev, h)
        IN  forth # Null /\ back # Null /\ back = Reverse(forth)

\* Every operation is the one on sequences that its name says.
Contents == [h \in List |-> IF h \in stale THEN <<>> ELSE Walk(next, h)]
Queues == INSTANCE ListSeq WITH lists <- Contents
ListsAreSequences == Queues!Spec

\* A loop visits every entry the list had when it began, once and in order,
\* whatever its body does to the entry it is at.
LoopVisitsAll ==
    ~Idle => /\ IsPrefix(loop.visited, loop.visit)
             /\ loop.pos = loop.head => loop.visited = loop.visit
=============================================================================
