------------------------------- MODULE HashData -------------------------------
(***************************************************************************)
(* The values of the hash table in memory: an item and its value are two   *)
(* blocks, and every allocation may fail.  Each call holds the lock from   *)
(* beginning to end, so that one caller is enough; the order of the items  *)
(* and the counts are those of HashKv.                                     *)
(***************************************************************************)
EXTENDS Integers, Sequences, FiniteSets

CONSTANTS
    Name,       \* the keys
    Block,      \* the memory
    Byte,
    MaxLen,     \* bound on data_len
    Header,            \* the contents of a block that is an item
    Unallocated,       \* the contents of one that is not allocated
    NoItem

VARIABLES
    item,       \* the item of each key, [node, v, v_len], or NoItem
    heap,       \* what is in each block
    held,       \* the key of the blob, or NoItem
    last        \* history: the value each key was given last

datavars == <<item, heap, held, last>>

DataInit ==
    /\ item = [k \in Name |-> NoItem]
    /\ heap = [b \in Block |-> Unallocated]
    /\ held = NoItem
    /\ last = [k \in Name |-> NoItem]

Datas == UNION {[1..n -> Byte] : n \in 1..MaxLen}
Zeros(n) == [i \in 1..n |-> 0]

\* What may be stored can be told apart from the rest.
Contents == Datas \cup {Zeros(n) : n \in 0..MaxLen}
Items == [node: Block, v: Block, v_len: {Len(bytes) : bytes \in Contents}]
DataAssumption ==
    /\ {Header, Unallocated} \cap Contents = {}
    /\ Header # Unallocated
    /\ NoItem \notin Items

Stored(h, b, bytes) == [h EXCEPT ![b] = bytes]
Freed(h, b) == [h EXCEPT ![b] = Unallocated]
Unused(h) == {b \in Block : h[b] = Unallocated}

-----------------------------------------------------------------------------
(* Writing *)

\* (mutant) the old value is freed before there is room for the new one
SetItemDataEager(k, bytes) ==
    LET i == item[k]
        less == Freed(heap, i.v)
    IN  \/ /\ i.v_len = Len(bytes)
           /\ heap' = Stored(heap, i.v, bytes)
           /\ last' = [last EXCEPT ![k] = bytes]
           /\ UNCHANGED item
        \/ /\ i.v_len # Len(bytes)
           /\ \E b \in Unused(less) :
                /\ heap' = Stored(less, b, bytes)
                /\ item' = [item EXCEPT ![k].v = b, ![k].v_len = Len(bytes)]
           /\ last' = [last EXCEPT ![k] = bytes]
        \/ /\ i.v_len # Len(bytes)
           /\ heap' = less
           /\ UNCHANGED <<item, last>>

\* _SetItemData: in place, or in a new block, or not at all
SetItemData(k, bytes) ==
    LET i == item[k]
    IN  \/ /\ i.v_len = Len(bytes)
           /\ heap' = Stored(heap, i.v, bytes)
           /\ last' = [last EXCEPT ![k] = bytes]
           /\ UNCHANGED item
        \/ /\ i.v_len # Len(bytes)
           /\ \E b \in Unused(heap) :
                /\ heap' = Freed(Stored(heap, b, bytes), i.v)
                /\ item' = [item EXCEPT ![k].v = b, ![k].v_len = Len(bytes)]
           /\ last' = [last EXCEPT ![k] = bytes]
        \/ /\ i.v_len # Len(bytes)
           /\ UNCHANGED <<item, heap, last>>

\* The item and its value are allocated; the item is freed again when there is
\* no room for the value.
NewItem(k, bytes) ==
    \/ \E b \in Unused(heap) :
        LET h == Stored(heap, b, Header)
        IN  \/ \E c \in Unused(h) :
                /\ heap' = Stored(h, c, bytes)
                /\ item' = [item EXCEPT ![k] = [node |-> b, v |-> c, v_len |-> Len(bytes)]]
                /\ last' = [last EXCEPT ![k] = bytes]
            \/ heap' = Freed(h, b) /\ UNCHANGED <<item, last>>
    \/ UNCHANGED <<item, heap, last>>

\* hash_NewData
NewData(k, n) ==
    /\ item[k] = NoItem
    /\ NewItem(k, Zeros(n))
    /\ UNCHANGED held

\* hash_SetData
SetData(k, bytes) ==
    /\ IF item[k] # NoItem THEN SetItemData(k, bytes) ELSE NewItem(k, bytes)
    /\ UNCHANGED held

\* hash_DelKey; a key with a blob is not deleted.
DelKey(k) ==
    /\ item[k] # NoItem /\ held # k
    /\ heap' = Freed(Freed(heap, item[k].v), item[k].node)
    /\ item' = [item EXCEPT ![k] = NoItem]
    /\ last' = [last EXCEPT ![k] = NoItem]
    /\ UNCHANGED held

\* hash_Del, and a new table
Renew ==
    /\ held = NoItem
    /\ heap' = [b \in Block |->
                  IF \E k \in Name : item[k] # NoItem /\ b \in {item[k].v, item[k].node}
                  THEN Unallocated ELSE heap[b]]
    /\ item' = [k \in Name |-> NoItem]
    /\ last' = item'
    /\ UNCHANGED held

-----------------------------------------------------------------------------
(* The blob.  What is read through it, or by hash_GetData, is not state. *)

AcquireBlob(k) ==
    /\ held = NoItem /\ item[k] # NoItem
    /\ held' = k
    /\ UNCHANGED <<item, heap, last>>

ReleaseBlob ==
    /\ held # NoItem /\ held' = NoItem
    /\ UNCHANGED <<item, heap, last>>

\* hash_BlobSetData
BlobSetData(bytes) ==
    /\ held # NoItem
    /\ SetItemData(held, bytes)
    /\ UNCHANGED held

DataNext ==
    \/ \E k \in Name, n \in 0..MaxLen : NewData(k, n)
    \/ \E k \in Name, bytes \in Datas : SetData(k, bytes)
    \/ \E k \in Name : DelKey(k) \/ AcquireBlob(k)
    \/ \E bytes \in Datas : BlobSetData(bytes)
    \/ Renew \/ ReleaseBlob

DataSpec == DataInit /\ [][DataNext]_datavars

-----------------------------------------------------------------------------
(* Properties *)

Blocks(k) == IF item[k] = NoItem THEN {} ELSE {item[k].node, item[k].v}

\* Wherever an allocation fails, each key keeps the value it was given last in
\* a block of its own, whole and as long as v_len says, and no block is
\* allocated that no key leads to.
ValuesAreKept ==
    /\ \A k \in Name :
        IF item[k] = NoItem THEN last[k] = NoItem
        ELSE /\ heap[item[k].node] = Header
             /\ heap[item[k].v] = last[k] /\ item[k].v_len = Len(last[k])
    /\ \A j, k \in Name : j # k => Blocks(j) \cap Blocks(k) = {}
    /\ Unused(heap) = Block \ UNION {Blocks(k) : k \in Name}
=============================================================================
