-------------------------------- MODULE HashKv --------------------------------
(***************************************************************************)
(* The hash table: bucket lists of reference-counted items, used by        *)
(* several threads under the lock given to hash_SetLock.  An operation is  *)
(* one step, except hash_Iteration, which gives the lock away around every *)
(* call of its processor: then the other threads, and the processor itself *)
(* (the lock is recursive), change the lists it is walking along.          *)
(*                                                                         *)
(* Items are addresses: a freed one can be allocated again.  The values    *)
(* are left out, they are only touched under the lock.                     *)
(***************************************************************************)
EXTENDS Integers, Sequences, FiniteSets

CONSTANTS
    Thread, Key, Item,
    HashOf,     \* the bucket of a key: RSHash(k) % hash_tab_len
    TabLen,     \* hash_tab_len
    None,       \* NULL; as the next item of an iteration, the list head
    MaxCount,   \* bound on the reference counts
    Modes       \* sets of threads at work, and whether taking the lock can fail

ASSUME HashAssumption ==
    /\ TabLen \in Nat /\ TabLen >= 1 /\ MaxCount \in Nat
    /\ HashOf \in [Key -> 0 .. TabLen - 1]
    /\ None \notin Item \cup Key

VARIABLES
    mode,       \* one of Modes, never changes
    bucket,     \* hash_tab: the lists, first item first
    key,        \* the items' k, None of a free one
    count,      \* the items' count, 0 of a free one
    blob,       \* the item of each thread's HashBlob, None when released
    iter,       \* each thread's hash_Iteration
    crashed     \* a NULL pointer was followed

vars == <<mode, bucket, key, count, blob, iter, crashed>>

Buckets == 0 .. TabLen - 1
SetOf(s) == {s[n] : n \in DOMAIN s}
Live == UNION {SetOf(bucket[b]) : b \in Buckets}

\* on: in the processor; cur, nxt: data_item and work_item; held: the processor
\* has not released its blob; loaded: a count read without the lock; must,
\* seen, missed: history, the items present since the start, those visited, and
\* those of must that a complete iteration did not visit.
NotIterating == [on |-> FALSE, b |-> 0, cur |-> None, nxt |-> None, held |-> FALSE,
                 loaded |-> -1, must |-> {}, seen |-> {}, missed |-> {}]

\* hash_New
Init ==
    /\ mode \in Modes
    /\ bucket = [b \in Buckets |-> <<>>]
    /\ key = [i \in Item |-> None]
    /\ count = [i \in Item |-> 0]
    /\ blob = [t \in Thread |-> None]
    /\ iter = [t \in Thread |-> NotIterating]
    /\ crashed = FALSE

\* A thread may make a call: it is not in the middle of giving back a count.
Ready(t) == ~crashed /\ t \in mode.threads /\ iter[t].loaded = -1

\* _TabSearch in the bucket _HashSearch finds
Found(k) == {i \in SetOf(bucket[HashOf[k]]) : key[i] = k}

-----------------------------------------------------------------------------
(* Keys *)

\* (mutant) the key is not searched for under the lock
AddUnchecked(t, k) ==
    /\ Ready(t)
    /\ \E i \in Item \ Live :
        /\ bucket' = [bucket EXCEPT ![HashOf[k]] = <<i>> \o @]
        /\ key' = [key EXCEPT ![i] = k]
    /\ UNCHANGED <<count, blob, iter, crashed>>

\* hash_NewData and hash_SetData of a key that is not there: list_add puts the
\* new item first.  Otherwise they leave the lists alone.
Add(t, k) ==
    /\ Ready(t)
    /\ Found(k) = {}
    /\ \E i \in Item \ Live :
        /\ bucket' = [bucket EXCEPT ![HashOf[k]] = <<i>> \o @]
        /\ key' = [key EXCEPT ![i] = k]
    /\ UNCHANGED <<count, blob, iter, crashed>>

\* The list without its entry n: list_del
Unlinked(s, n) == [m \in 1 .. Len(s) - 1 |-> IF m < n THEN s[m] ELSE s[m + 1]]

\* Where an item is in its list
Place(i) == CHOOSE n \in DOMAIN bucket[HashOf[key[i]]] : bucket[HashOf[key[i]]][n] = i

\* _DelItemData; an item that is gone need not be visited any more.
Delete(i) ==
    /\ bucket' = [bucket EXCEPT ![HashOf[key[i]]] = Unlinked(@, Place(i))]
    /\ key' = [key EXCEPT ![i] = None]
    /\ count' = [count EXCEPT ![i] = 0]
    /\ iter' = [t \in Thread |-> [iter[t] EXCEPT !.must = @ \ {i}, !.seen = @ \ {i}]]

\* hash_DelKey: refused while the item is referenced.
DelKey(t, k) ==
    /\ Ready(t)
    /\ \E i \in Found(k) : count[i] = 0 /\ Delete(i)
    /\ UNCHANGED <<blob, crashed>>

\* hash_Del and a new table, when nobody uses the old one.
Renew ==
    /\ ~crashed
    /\ \A t \in Thread : blob[t] = None /\ ~iter[t].on
    /\ bucket' = [b \in Buckets |-> <<>>]
    /\ key' = [i \in Item |-> None]
    /\ count' = [i \in Item |-> 0]
    /\ UNCHANGED <<blob, iter, crashed>>

-----------------------------------------------------------------------------
(* Blobs *)

\* hash_AcquireBlob
AcquireBlob(t, k) ==
    /\ Ready(t)
    /\ blob[t] = None
    /\ \E i \in Found(k) :
        /\ count[i] < MaxCount
        /\ blob' = [blob EXCEPT ![t] = i]
        /\ count' = [count EXCEPT ![i] = @ + 1]
    /\ UNCHANGED <<bucket, key, iter, crashed>>

Less(n) == IF n > 0 THEN n - 1 ELSE 0

\* Give up the thread's own blob, or the one its processor was called with.
Unreference(t) ==
    \/ /\ blob[t] # None
       /\ count' = [count EXCEPT ![blob[t]] = Less(@)]
       /\ blob' = [blob EXCEPT ![t] = None]
       /\ UNCHANGED iter
    \/ /\ iter[t].on /\ iter[t].held
       /\ count' = [count EXCEPT ![iter[t].cur] = Less(@)]
       /\ iter' = [iter EXCEPT ![t].held = FALSE]
       /\ UNCHANGED blob

\* hash_ReleaseBlob
ReleaseBlob(t) == Ready(t) /\ Unreference(t) /\ UNCHANGED <<bucket, key, crashed>>

\* hash_DelKeyFormBlob sets hb->data_item to NULL and then reads its count.
DelKeyFormBlob(t) ==
    /\ Ready(t)
    /\ Unreference(t)
    /\ crashed' = TRUE
    /\ UNCHANGED <<bucket, key>>

-----------------------------------------------------------------------------
(* hash_Iteration *)

\* (mutant) the last bucket is left out
FirstFromShort(b) ==
    LET first == {c \in b .. TabLen - 2 :
                    bucket[c] # <<>> /\ \A d \in b .. c - 1 : bucket[d] = <<>>}
    IN  IF first = {} THEN None ELSE bucket[CHOOSE c \in first : TRUE][1]

\* The first item from bucket b on.
FirstFrom(b) ==
    LET first == {c \in b .. TabLen - 1 :
                    bucket[c] # <<>> /\ \A d \in b .. c - 1 : bucket[d] = <<>>}
    IN  IF first = {} THEN None ELSE bucket[CHOOSE c \in first : TRUE][1]

\* The item behind i in its list.
After(i) ==
    LET s == bucket[HashOf[key[i]]]
    IN  IF Place(i) = Len(s) THEN None ELSE s[Place(i) + 1]

\* (mutant) the next item is not referenced
VisitUnpinned(t, i, counts, must, seen) ==
    IF i = None
    THEN /\ iter' = [iter EXCEPT ![t] = [NotIterating EXCEPT !.missed = must \ seen]]
         /\ count' = counts
    ELSE /\ count' = [counts EXCEPT ![i] = @ + 1]
         /\ iter' = [iter EXCEPT ![t] =
                [on |-> TRUE, b |-> HashOf[key[i]], cur |-> i, nxt |-> After(i), held |-> TRUE,
                 loaded |-> -1, must |-> must, seen |-> seen \cup {i}, missed |-> {}]]

\* Reference the item and the next one, give the lock away, call the processor;
\* after the last item, return.
Visit(t, i, counts, must, seen) ==
    IF i = None
    THEN /\ iter' = [iter EXCEPT ![t] = [NotIterating EXCEPT !.missed = must \ seen]]
         /\ count' = counts
    ELSE /\ \A j \in {i, After(i)} \ {None} : counts[j] < MaxCount
         /\ count' = [j \in Item |-> counts[j] + (IF j \in {i, After(i)} THEN 1 ELSE 0)]
         /\ iter' = [iter EXCEPT ![t] =
                [on |-> TRUE, b |-> HashOf[key[i]], cur |-> i, nxt |-> After(i), held |-> TRUE,
                 loaded |-> -1, must |-> must, seen |-> seen \cup {i}, missed |-> {}]]

IterStart(t) ==
    /\ Ready(t)
    /\ ~iter[t].on
    /\ Visit(t, FirstFrom(0), count, Live, {})
    /\ UNCHANGED <<bucket, key, blob, crashed>>

\* The counts once the next item is no longer referenced.
Unpinned(t) == [j \in Item |-> IF j = iter[t].nxt THEN count[j] - 1 ELSE count[j]]

\* The processor says ITER_KEEP.
IterKeep(t) ==
    /\ Ready(t)
    /\ iter[t].on
    /\ LET next == IF iter[t].nxt # None THEN iter[t].nxt ELSE FirstFrom(iter[t].b + 1)
       IN  Visit(t, next, Unpinned(t), iter[t].must, iter[t].seen)
    /\ UNCHANGED <<bucket, key, blob, crashed>>

\* The processor says ITER_EXIT.
IterExit(t) ==
    /\ Ready(t)
    /\ iter[t].on
    /\ count' = Unpinned(t)
    /\ iter' = [iter EXCEPT ![t] = NotIterating]
    /\ UNCHANGED <<bucket, key, blob, crashed>>

\* The lock cannot be taken again: the count is decremented without it, which
\* is a load and a later store, and the iteration returns.
RelockFails(t) ==
    /\ Ready(t)
    /\ mode.lockFails
    /\ iter[t].on
    /\ iter' = [iter EXCEPT ![t] =
            IF iter[t].nxt = None THEN NotIterating ELSE [@ EXCEPT !.loaded = count[iter[t].nxt]]]
    /\ UNCHANGED <<bucket, key, count, blob, crashed>>

StoreUnlocked(t) ==
    /\ ~crashed
    /\ iter[t].loaded # -1
    /\ count' = [count EXCEPT ![iter[t].nxt] = iter[t].loaded - 1]
    /\ iter' = [iter EXCEPT ![t] = NotIterating]
    /\ UNCHANGED <<bucket, key, blob, crashed>>

-----------------------------------------------------------------------------
Step(t) ==
    \/ \E k \in Key : Add(t, k) \/ DelKey(t, k) \/ AcquireBlob(t, k)
    \/ ReleaseBlob(t) \/ DelKeyFormBlob(t)
    \/ IterStart(t) \/ IterKeep(t) \/ IterExit(t)
    \/ RelockFails(t) \/ StoreUnlocked(t)

Next == UNCHANGED mode /\ (Renew \/ \E t \in Thread : Step(t))

Spec == Init /\ [][Next]_vars

-----------------------------------------------------------------------------
(* Properties *)

TypeOK ==
    /\ mode \in Modes
    /\ \A b \in Buckets : \A n \in DOMAIN bucket[b] : HashOf[key[bucket[b][n]]] = b
    /\ key \in [Item -> Key \cup {None}]
    /\ count \in [Item -> 0 .. MaxCount]
    /\ blob \in [Thread -> Item \cup {None}]
    /\ \A t \in Thread : iter[t].cur \in Item \cup {None} /\ iter[t].nxt \in Item \cup {None}
    /\ crashed \in BOOLEAN

\* A key is in the table once, although it may be added by two threads that
\* both found it missing before.
UniqueKeys == \A i, j \in Live : key[i] = key[j] => i = j

\* A blob that has not been released is good for hash_BlobSetData and
\* hash_BlobGetKey: its item is not freed, and it is the item that everyone
\* else finds under the same key.
BlobsAreValid ==
    /\ \A t \in Thread : blob[t] # None => blob[t] \in Live
    /\ \A t \in Thread : iter[t].on /\ iter[t].held => iter[t].cur \in Live

\* The references to an item: blobs, and what iterations hold.
References(i) ==
    Cardinality({t \in Thread : blob[t] = i})
    + Cardinality({t \in Thread : iter[t].on /\ iter[t].held /\ iter[t].cur = i})
    + Cardinality({t \in Thread : iter[t].on /\ iter[t].nxt = i})

\* "count: how often it is referenced": never less than the references there are.
CountCovers == \A i \in Live : count[i] >= References(i)

\* "Reference the next one in advance, so that it is not deleted by mistake":
\* when the processor returns, the item to go on with is still in the list that
\* is being walked along.
CursorIsSafe == \A t \in Thread :
    iter[t].on /\ iter[t].nxt # None => iter[t].nxt \in SetOf(bucket[iter[t].b])

\* Whatever a blob or an iteration refers to is there, counted, and in the list
\* that is walked along, in every interleaving: the three above together.
ReferencesHold == BlobsAreValid /\ CountCovers /\ CursorIsSafe

\* An iteration that is not cut short visits every item that was in the table
\* from its start to its end, whatever was added, deleted or released meanwhile.
VisitsAll == \A t \in Thread : iter[t].missed = {}

\* "Deletes the pair through the blob, and really only at 0 references": the
\* call comes back.
NeverCrashes == ~crashed
=============================================================================
