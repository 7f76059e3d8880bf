------------------------------- MODULE ListSeq -------------------------------
(***************************************************************************)
(* What ulist promises: lists are sequences, and an entry is in one place. *)
(* `done` names the operation and its arguments.                           *)
(***************************************************************************)
EXTENDS Integers, Sequences, SequencesExt

CONSTANTS List, Entry    \* the heads, and what is linked

VARIABLES lists, done

Elements(h) == {lists[h][i] : i \in DOMAIN lists[h]}
Loose == Entry \ UNION {Elements(h) : h \in List}

Init ==
    /\ lists = [h \in List |-> <<>>]
    /\ done = <<"none">>

PlaceOf(s, x) == CHOOSE i \in DOMAIN s : s[i] = x

Without(e) ==
    [h \in List |-> IF e \in Elements(h) THEN RemoveAt(lists[h], PlaceOf(lists[h], e))
                   ELSE lists[h]]

\* Where an entry comes that is put after, or before, the node p: a head is
\* before the first entry and after the last one.
After(s, p) == IF p \in List THEN 1 ELSE PlaceOf(s, p) + 1
Before(s, p) == IF p \in List THEN Len(s) + 1 ELSE PlaceOf(s, p)

Put(ls, e, p, Place(_, _)) ==
    LET h == CHOOSE h \in List : p = h \/ p \in {ls[h][i] : i \in DOMAIN ls[h]}
    IN  [ls EXCEPT ![h] = InsertAt(@, Place(@, p), e)]

Insert(e, p) ==
    /\ \/ done' = <<"add", e, p>> /\ lists' = Put(lists, e, p, After)
       \/ done' = <<"add_tail", e, p>> /\ lists' = Put(lists, e, p, Before)
    /\ e \in Loose /\ p \notin Loose

Take(e) ==
    /\ done' \in {<<"del", e>>, <<"del_init", e>>}
    /\ e \notin Loose
    /\ lists' = Without(e)

Move(e, p) ==
    /\ \/ done' = <<"move", e, p>> /\ lists' = Put(Without(e), e, p, After)
       \/ done' = <<"move_tail", e, p>> /\ lists' = Put(Without(e), e, p, Before)
    /\ e \notin Loose /\ p \notin Loose \cup {e}

Join(l, h) ==
    /\ l # h
    /\ done' \in {<<"splice", l, h>>, <<"splice_init", l, h>>}
    /\ lists' = [lists EXCEPT ![l] = <<>>, ![h] = lists[l] \o lists[h]]

Next ==
    \/ \E e \in Entry, p \in List \cup Entry : Insert(e, p) \/ Move(e, p)
    \/ \E e \in Entry : Take(e)
    \/ \E l, h \in List : Join(l, h)

Spec == Init /\ [][Next]_<<lists, done>>
=============================================================================
