----------------------------- MODULE StoresProofs -----------------------------
(***************************************************************************)
(* What the shared data keeps: the references and iterations of a hash     *)
(* table with any number of threads, keys and items, as long as the lock   *)
(* does not fail for a thread that is not alone; its values wherever an    *)
(* allocation fails; the shared configuration however its writers overtake *)
(* one another; and the linked lists, whose operations on the pointers are *)
(* those on the sequences that the pointers stand for (StandsFor).         *)
(***************************************************************************)
EXTENDS Stores, FiniteSetTheorems, SequenceTheorems, WellFoundedInduction, TLAPS

-----------------------------------------------------------------------------
(* References to the items of the hash table *)

Iteration == [on : BOOLEAN, b : Buckets, cur : Item \cup {None}, nxt : Item \cup {None},
              held : BOOLEAN, loaded : Int,
              must : SUBSET Item, seen : SUBSET Item, missed : SUBSET Item]

Types ==
    /\ mode \in Modes
    /\ bucket \in [Buckets -> Seq(Item)]
    /\ key \in [Item -> Key \cup {None}]
    /\ count \in [Item -> Nat]
    /\ blob \in [Thread -> Item \cup {None}]
    /\ iter \in [Thread -> Iteration]

\* An item is in the list of its key, and once.
Lists ==
    /\ \A b \in Buckets : \A n \in DOMAIN bucket[b] :
          key[bucket[b][n]] \in Key /\ HashOf[key[bucket[b][n]]] = b
    /\ \A b \in Buckets : \A m, n \in DOMAIN bucket[b] : bucket[b][m] = bucket[b][n] => m = n

\* What is referred to is there.
Referred == \A t \in Thread :
    /\ blob[t] # None => blob[t] \in Live
    /\ iter[t].held => iter[t].on /\ iter[t].cur \in Live
    /\ iter[t].nxt # None => iter[t].on /\ iter[t].nxt \in SetOf(bucket[iter[t].b])

Counted == \A i \in Item : References(i) <= count[i]

\* A count that was read without the lock is still the count.
Unlocked == \A t \in Thread : iter[t].loaded # -1 =>
    /\ mode.lockFails /\ t \in mode.threads
    /\ iter[t].on /\ iter[t].nxt # None /\ iter[t].loaded = count[iter[t].nxt]

Inv == Types /\ Lists /\ Referred /\ Counted /\ Unlocked

\* The assumptions: finitely many threads, and one of them where the lock fails.
Threads ==
    /\ IsFiniteSet(Thread)
    /\ \A m \in Modes : m.lockFails => \A t, u \in m.threads : t = u

-----------------------------------------------------------------------------
(* Lists *)

LEMMA BucketOfKey == \A k \in Key : HashOf[k] \in Buckets /\ k # None
  BY HashAssumption DEF Buckets

\* An item of a list is in the list of its key.
LEMMA LiveItem ==
    ASSUME Types, Lists, NEW i \in Live
    PROVE  /\ i \in Item /\ key[i] \in Key /\ HashOf[key[i]] \in Buckets
           /\ i \in SetOf(bucket[HashOf[key[i]]])
  <1>1. PICK b \in Buckets : i \in SetOf(bucket[b])
    BY DEF Live
  <1>2. PICK n \in DOMAIN bucket[b] : i = bucket[b][n]
    BY <1>1 DEF SetOf
  <1>3. bucket[b] \in Seq(Item)
    BY DEF Types
  <1> QED
    BY <1>1, <1>2, <1>3, ElementOfSeq, LenProperties DEF Lists

LEMMA SetOfLive == \A b \in Buckets : SetOf(bucket[b]) \subseteq Live
  BY DEF Live

LEMMA PlaceOf ==
    ASSUME Types, Lists, NEW i \in Live
    PROVE  LET s == bucket[HashOf[key[i]]]
           IN  s \in Seq(Item) /\ Place(i) \in 1 .. Len(s) /\ s[Place(i)] = i
  <1>1. \E n \in DOMAIN bucket[HashOf[key[i]]] : bucket[HashOf[key[i]]][n] = i
    BY LiveItem DEF SetOf
  <1>2. bucket[HashOf[key[i]]] \in Seq(Item)
    BY LiveItem DEF Types
  <1> QED
    BY <1>1, <1>2, LenProperties DEF Place

\* The next item is another one of the same list.
LEMMA AfterOf ==
    ASSUME Types, Lists, NEW i \in Live
    PROVE  /\ After(i) \in Item \cup {None} /\ After(i) # i
           /\ After(i) # None => After(i) \in SetOf(bucket[HashOf[key[i]]])
  <1> DEFINE s == bucket[HashOf[key[i]]]
  <1>1. s \in Seq(Item) /\ Place(i) \in 1 .. Len(s) /\ s[Place(i)] = i /\ i \in Item
    BY PlaceOf, LiveItem
  <1>2. CASE Place(i) = Len(s)
    <2>1. After(i) = None
      BY <1>2 DEF After
    <2> QED
      BY <2>1, <1>1, HashAssumption
  <1>3. CASE Place(i) # Len(s)
    <2>1. After(i) = s[Place(i) + 1] /\ Place(i) + 1 \in 1 .. Len(s)
      BY <1>1, <1>3, LenProperties DEF After
    <2>2. s[Place(i) + 1] # s[Place(i)]
      <3>1. DOMAIN s = 1 .. Len(s) /\ Place(i) + 1 # Place(i)
        BY <1>1, LenProperties
      <3> QED
        BY <3>1, <2>1, <1>1, LiveItem DEF Lists
    <2> QED
      BY <2>1, <2>2, <1>1, LenProperties, ElementOfSeq DEF SetOf
  <1> QED
    BY <1>2, <1>3

LEMMA FirstLive ==
    ASSUME Types, NEW b \in Nat
    PROVE  FirstFrom(b) \in Live \cup {None}
  <1> DEFINE first == {c \in b .. TabLen - 1 :
                         bucket[c] # <<>> /\ \A d \in b .. c - 1 : bucket[d] = <<>>}
  <1>1. CASE first = {}
    BY <1>1 DEF FirstFrom
  <1>2. CASE first # {}
    <2>1. PICK c \in first : FirstFrom(b) = bucket[c][1]
      BY <1>2 DEF FirstFrom
    <2>2. c \in Buckets /\ bucket[c] \in Seq(Item) /\ bucket[c] # <<>>
      BY <2>1, HashAssumption DEF Buckets, Types
    <2>3. 1 \in DOMAIN bucket[c]
      BY <2>2, EmptySeq, LenProperties
    <2> QED
      BY <2>1, <2>2, <2>3 DEF Live, SetOf
  <1> QED
    BY <1>1, <1>2

\* A new item in front of a list.
LEMMA ListsAdd ==
    ASSUME Types, Lists, NEW k \in Key, NEW i \in Item \ Live,
           bucket' = [bucket EXCEPT ![HashOf[k]] = <<i>> \o @],
           key' = [key EXCEPT ![i] = k]
    PROVE  /\ Lists' /\ bucket' \in [Buckets -> Seq(Item)] /\ key' \in [Item -> Key \cup {None}]
           /\ \A b \in Buckets : SetOf(bucket[b]) \subseteq SetOf(bucket'[b])
  <1> DEFINE h == HashOf[k]
             s == bucket[h]
             T == <<i>> \o s
  <1>1. h \in Buckets /\ s \in Seq(Item)
    BY BucketOfKey DEF Types
  <1>2. /\ T \in Seq(Item) /\ DOMAIN T = 1 .. Len(s) + 1 /\ DOMAIN s = 1 .. Len(s) /\ Len(s) \in Nat
        /\ T[1] = i /\ \A n \in 1 .. Len(s) + 1 : n # 1 => n - 1 \in DOMAIN s /\ T[n] = s[n - 1]
    BY <1>1
  <1>3. /\ bucket'[h] = T /\ \A b \in Buckets : b # h => bucket'[b] = bucket[b]
        /\ bucket' \in [Buckets -> Seq(Item)] /\ key' \in [Item -> Key \cup {None}]
    BY <1>1, <1>2 DEF Types
  <1>4. \A b \in Buckets : \A n \in DOMAIN bucket[b] : bucket[b][n] \in Live
    BY DEF Live, SetOf
  <1>5. key'[i] = k /\ \A j \in Live : key'[j] = key[j] /\ j # i
    BY LiveItem DEF Types
  <1>6. SetOf(s) \subseteq SetOf(T)
    <2> SUFFICES ASSUME NEW n \in DOMAIN s PROVE s[n] \in SetOf(T)
      BY DEF SetOf
    <2>1. n + 1 \in DOMAIN T /\ T[n + 1] = s[n]
      BY <1>2
    <2> QED
      BY <2>1 DEF SetOf
  <1>7. \A n \in DOMAIN T : key'[T[n]] \in Key /\ HashOf[key'[T[n]]] = h
    <2> SUFFICES ASSUME NEW n \in DOMAIN T PROVE key'[T[n]] \in Key /\ HashOf[key'[T[n]]] = h
      OBVIOUS
    <2>1. CASE n = 1
      BY <2>1, <1>2, <1>5
    <2>2. CASE n # 1
      <3>1. n - 1 \in DOMAIN s /\ T[n] = s[n - 1]
        BY <2>2, <1>2
      <3>2. key[s[n - 1]] \in Key /\ HashOf[key[s[n - 1]]] = h /\ s[n - 1] \in Live
        BY <3>1, <1>1, <1>4 DEF Lists
      <3>3. key'[s[n - 1]] = key[s[n - 1]]
        BY <3>2, <1>5
      <3> HIDE DEF T, s, h
      <3> QED
        BY <3>1, <3>2, <3>3
    <2> QED
      BY <2>1, <2>2
  <1>8. \A m, n \in DOMAIN T : T[m] = T[n] => m = n
    <2> SUFFICES ASSUME NEW m \in DOMAIN T, NEW n \in DOMAIN T, T[m] = T[n] PROVE m = n
      OBVIOUS
    <2>1. \A l \in DOMAIN T : l # 1 => T[l] # i
      BY <1>1, <1>2, <1>4
    <2>2. CASE m = 1 \/ n = 1
      BY <2>1, <2>2, <1>2
    <2>3. CASE m # 1 /\ n # 1
      <3>1. m - 1 \in DOMAIN s /\ n - 1 \in DOMAIN s /\ s[m - 1] = s[n - 1]
        BY <2>3, <1>2
      <3>2. m - 1 = n - 1
        BY <3>1, <1>1 DEF Lists
      <3> QED
        BY <3>2, <1>2
    <2> QED
      BY <2>2, <2>3
  <1>9. Lists'
    <2>1. \A b \in Buckets : \A n \in DOMAIN bucket'[b] :
             key'[bucket'[b][n]] \in Key /\ HashOf[key'[bucket'[b][n]]] = b
      <3> HIDE DEF T, s, h
      <3> SUFFICES ASSUME NEW b \in Buckets, b # h, NEW n \in DOMAIN bucket[b]
                   PROVE  key'[bucket[b][n]] \in Key /\ HashOf[key'[bucket[b][n]]] = b
        BY <1>3, <1>7
      <3>1. bucket[b][n] \in Live
        BY <1>4
      <3>2. key'[bucket[b][n]] = key[bucket[b][n]]
        BY <3>1, <1>5
      <3>3. key[bucket[b][n]] \in Key /\ HashOf[key[bucket[b][n]]] = b
        BY DEF Lists
      <3> QED
        BY <3>2, <3>3
    <2>2. \A b \in Buckets : \A m, n \in DOMAIN bucket'[b] : bucket'[b][m] = bucket'[b][n] => m = n
      BY <1>3, <1>8 DEF Lists
    <2> QED
      BY <2>1, <2>2 DEF Lists, Buckets
  <1> QED
    BY <1>3, <1>6, <1>9

\* An item leaves its list.
LEMMA ListsDelete ==
    ASSUME Types, Lists, NEW i \in Live, Delete(i)
    PROVE  /\ Lists' /\ bucket' \in [Buckets -> Seq(Item)] /\ key' \in [Item -> Key \cup {None}]
           /\ \A b \in Buckets : SetOf(bucket[b]) \ {i} \subseteq SetOf(bucket'[b])
  <1> DEFINE h == HashOf[key[i]]
             s == bucket[h]
             p == Place(i)
             T == Unlinked(s, p)
  <1>1. i \in Item /\ h \in Buckets /\ s \in Seq(Item) /\ p \in 1 .. Len(s) /\ s[p] = i
    BY PlaceOf, LiveItem
  <1>2. /\ DOMAIN s = 1 .. Len(s) /\ Len(s) \in Nat /\ DOMAIN T = 1 .. Len(s) - 1
        /\ \A n \in DOMAIN T : T[n] = IF n < p THEN s[n] ELSE s[n + 1]
    BY <1>1, LenProperties DEF Unlinked
  <1>3. T \in Seq(Item)
    <2>1. \A n \in 1 .. Len(s) - 1 : (IF n < p THEN s[n] ELSE s[n + 1]) \in Item
      <3> SUFFICES ASSUME NEW n \in 1 .. Len(s) - 1
                   PROVE  (IF n < p THEN s[n] ELSE s[n + 1]) \in Item
        OBVIOUS
      <3>1. n \in 1 .. Len(s) /\ n + 1 \in 1 .. Len(s)
        BY <1>2
      <3> QED
        BY <3>1, <1>1, ElementOfSeq
    <2>2. Len(s) - 1 \in Nat
      BY <1>1, <1>2
    <2> QED
      BY <2>1, <2>2, IsASeq DEF Unlinked
  <1>4. /\ bucket'[h] = T /\ \A b \in Buckets : b # h => bucket'[b] = bucket[b]
        /\ bucket' \in [Buckets -> Seq(Item)] /\ key' \in [Item -> Key \cup {None}]
    BY <1>1, <1>3 DEF Types, Delete
  <1>5. \A j \in Item : j # i => key'[j] = key[j]
    BY DEF Delete, Types
  <1>6. \A b \in Buckets : \A n \in DOMAIN bucket[b] : bucket[b][n] \in Item
    BY LenProperties, ElementOfSeq DEF Types
  <1>7. \A n \in DOMAIN T : \E m \in DOMAIN s : m # p /\ T[n] = s[m] /\ m = IF n < p THEN n ELSE n + 1
    BY <1>1, <1>2
  <1>8. \A m \in DOMAIN s : m # p => s[m] # i
    BY <1>1, <1>2 DEF Lists
  <1>9. \A n \in DOMAIN T : key'[T[n]] \in Key /\ HashOf[key'[T[n]]] = h
    <2> SUFFICES ASSUME NEW n \in DOMAIN T PROVE key'[T[n]] \in Key /\ HashOf[key'[T[n]]] = h
      OBVIOUS
    <2>1. PICK m \in DOMAIN s : m # p /\ T[n] = s[m]
      BY <1>7
    <2> QED
      BY <2>1, <1>1, <1>5, <1>6, <1>8 DEF Lists
  <1>10. \A m, n \in DOMAIN T : T[m] = T[n] => m = n
    <2> SUFFICES ASSUME NEW m \in DOMAIN T, NEW n \in DOMAIN T, T[m] = T[n] PROVE m = n
      OBVIOUS
    <2>1. PICK a \in DOMAIN s : T[m] = s[a] /\ a = IF m < p THEN m ELSE m + 1
      BY <1>7
    <2>2. PICK c \in DOMAIN s : T[n] = s[c] /\ c = IF n < p THEN n ELSE n + 1
      BY <1>7
    <2>3. a = c
      <3>1. s[a] = s[c]
        BY <2>1, <2>2
      <3> QED
        BY <3>1, <1>1 DEF Lists
    <2>4. m \in Int /\ n \in Int /\ p \in Int
      BY <1>1, <1>2
    <2> HIDE DEF T, s, h, p
    <2> QED
      BY <2>1, <2>2, <2>3, <2>4
  <1>11. SetOf(s) \ {i} \subseteq SetOf(T)
    <2> SUFFICES ASSUME NEW m \in DOMAIN s, s[m] # i PROVE s[m] \in SetOf(T)
      BY DEF SetOf
    <2>1. m # p
      BY <1>1
    <2>2. PICK n \in DOMAIN T : T[n] = s[m]
      <3>1. CASE m < p
        <4>1. m \in DOMAIN T /\ T[m] = s[m]
          BY <3>1, <1>1, <1>2
        <4> QED
          BY <4>1
      <3>2. CASE ~(m < p)
        <4>1. m - 1 \in DOMAIN T /\ T[m - 1] = s[m]
          BY <3>2, <2>1, <1>1, <1>2, SMTT(60)
        <4> QED
          BY <4>1
      <3> QED
        BY <3>1, <3>2
    <2> QED
      BY <2>2 DEF SetOf
  <1>12. Lists'
    <2>1. \A b \in Buckets : \A n \in DOMAIN bucket'[b] :
             key'[bucket'[b][n]] \in Key /\ HashOf[key'[bucket'[b][n]]] = b
      <3> SUFFICES ASSUME NEW b \in Buckets, b # h, NEW n \in DOMAIN bucket[b]
                   PROVE  key'[bucket[b][n]] \in Key /\ HashOf[key'[bucket[b][n]]] = b
        BY <1>4, <1>9
      <3>1. bucket[b][n] # i
        BY DEF Lists
      <3> QED
        BY <3>1, <1>5, <1>6 DEF Lists
    <2>2. \A b \in Buckets : \A m, n \in DOMAIN bucket'[b] : bucket'[b][m] = bucket'[b][n] => m = n
      BY <1>4, <1>10 DEF Lists
    <2> QED
      BY <2>1, <2>2 DEF Lists, Buckets
  <1> QED
    BY <1>4, <1>11, <1>12

-----------------------------------------------------------------------------
(* References *)

Bit(e) == IF e THEN 1 ELSE 0

\* The references of thread t to item i, and those of the other threads.
Own(B, I, t, i) ==
    Bit(B[t] = i) + Bit(I[t].on /\ I[t].held /\ I[t].cur = i) + Bit(I[t].on /\ I[t].nxt = i)
Others(B, I, t, i) ==
    Cardinality({u \in Thread \ {t} : B[u] = i})
    + Cardinality({u \in Thread \ {t} : I[u].on /\ I[u].held /\ I[u].cur = i})
    + Cardinality({u \in Thread \ {t} : I[u].on /\ I[u].nxt = i})
All(B, I, i) ==
    Cardinality({u \in Thread : B[u] = i})
    + Cardinality({u \in Thread : I[u].on /\ I[u].held /\ I[u].cur = i})
    + Cardinality({u \in Thread : I[u].on /\ I[u].nxt = i})

LEMMA CountOne ==
    ASSUME IsFiniteSet(Thread), NEW T \in SUBSET Thread, NEW t
    PROVE  /\ Cardinality(T \ {t}) \in Nat
           /\ Cardinality(T) = Cardinality(T \ {t}) + Bit(t \in T)
  <1>1. IsFiniteSet(T)
    BY FS_Subset
  <1>2. Cardinality(T) \in Nat /\ Cardinality(T \ {t}) \in Nat
    BY <1>1, FS_RemoveElement, FS_CardinalityType
  <1>3. Cardinality(T \ {t}) = IF t \in T THEN Cardinality(T) - 1 ELSE Cardinality(T)
    BY <1>1, FS_RemoveElement
  <1> QED
    BY <1>2, <1>3 DEF Bit

LEMMA Split ==
    ASSUME IsFiniteSet(Thread), NEW B, NEW I, NEW t \in Thread, NEW i
    PROVE  /\ Others(B, I, t, i) \in Nat /\ Own(B, I, t, i) \in Nat
           /\ All(B, I, i) = Others(B, I, t, i) + Own(B, I, t, i)
  <1> DEFINE X == {u \in Thread : B[u] = i}
             Y == {u \in Thread : I[u].on /\ I[u].held /\ I[u].cur = i}
             Z == {u \in Thread : I[u].on /\ I[u].nxt = i}
  <1>1. /\ X \ {t} = {u \in Thread \ {t} : B[u] = i}
        /\ Y \ {t} = {u \in Thread \ {t} : I[u].on /\ I[u].held /\ I[u].cur = i}
        /\ Z \ {t} = {u \in Thread \ {t} : I[u].on /\ I[u].nxt = i}
    OBVIOUS
  <1>2. /\ Bit(t \in X) = Bit(B[t] = i)
        /\ Bit(t \in Y) = Bit(I[t].on /\ I[t].held /\ I[t].cur = i)
        /\ Bit(t \in Z) = Bit(I[t].on /\ I[t].nxt = i)
    BY DEF Bit
  <1>3. \A e : Bit(e) \in Nat
    BY DEF Bit
  <1>4. /\ Others(B, I, t, i) = Cardinality(X \ {t}) + Cardinality(Y \ {t}) + Cardinality(Z \ {t})
        /\ Own(B, I, t, i) = Bit(t \in X) + Bit(t \in Y) + Bit(t \in Z)
        /\ All(B, I, i) = Cardinality(X) + Cardinality(Y) + Cardinality(Z)
    BY <1>1, <1>2 DEF Others, Own, All
  <1>5. /\ Cardinality(X \ {t}) \in Nat /\ Cardinality(X) = Cardinality(X \ {t}) + Bit(t \in X)
        /\ Cardinality(Y \ {t}) \in Nat /\ Cardinality(Y) = Cardinality(Y \ {t}) + Bit(t \in Y)
        /\ Cardinality(Z \ {t}) \in Nat /\ Cardinality(Z) = Cardinality(Z \ {t}) + Bit(t \in Z)
    BY CountOne
  <1> HIDE DEF X, Y, Z
  <1> QED
    BY <1>3, <1>4, <1>5

\* A thread's own references are counted.
LEMMA OwnCounted ==
    ASSUME IsFiniteSet(Thread), Types, Counted, NEW t \in Thread, NEW i \in Item
    PROVE  Own(blob, iter, t, i) <= count[i]
  <1>1. All(blob, iter, i) <= count[i] /\ count[i] \in Nat
    BY DEF Counted, References, All, Types
  <1> QED
    BY <1>1, Split

\* One thread moves, and each count follows the thread's references.
LEMMA CountedStep ==
    ASSUME IsFiniteSet(Thread), Types, Counted, NEW t \in Thread,
           \A u \in Thread \ {t} : blob'[u] = blob[u] /\ iter'[u] = iter[u],
           \A i \in Item : /\ count'[i] \in Nat
                           /\ count[i] - Own(blob, iter, t, i) <= count'[i] - Own(blob', iter', t, i)
    PROVE  Counted'
  <1> SUFFICES ASSUME NEW i \in Item PROVE All(blob', iter', i) <= count'[i]
    BY DEF Counted, References, All
  <1>1. Others(blob', iter', t, i) = Others(blob, iter, t, i)
    <2>1. /\ {u \in Thread \ {t} : blob'[u] = i} = {u \in Thread \ {t} : blob[u] = i}
          /\ {u \in Thread \ {t} : iter'[u].on /\ iter'[u].held /\ iter'[u].cur = i}
             = {u \in Thread \ {t} : iter[u].on /\ iter[u].held /\ iter[u].cur = i}
          /\ {u \in Thread \ {t} : iter'[u].on /\ iter'[u].nxt = i}
             = {u \in Thread \ {t} : iter[u].on /\ iter[u].nxt = i}
      OBVIOUS
    <2> QED
      BY <2>1 DEF Others
  <1>2. All(blob, iter, i) <= count[i] /\ count[i] \in Nat
    BY DEF Counted, References, All, Types
  <1>3. /\ Others(blob, iter, t, i) \in Nat /\ Own(blob, iter, t, i) \in Nat
        /\ All(blob, iter, i) = Others(blob, iter, t, i) + Own(blob, iter, t, i)
    BY Split
  <1>4. /\ Own(blob', iter', t, i) \in Nat
        /\ All(blob', iter', i) = Others(blob', iter', t, i) + Own(blob', iter', t, i)
    BY Split
  <1> QED
    BY <1>1, <1>2, <1>3, <1>4

\* Where no thread but one may work, a thread that is ready is not hindered.
LEMMA NoneLoaded ==
    ASSUME Threads, Types, Unlocked, NEW t \in Thread, Ready(t)
    PROVE  \A u \in Thread : iter[u].loaded = -1
  BY DEF Threads, Types, Unlocked, Ready

-----------------------------------------------------------------------------
(* The invariant is inductive. *)

LEMMA InvInit == ASSUME Threads, Init PROVE Inv
  <1>1. Types
    <2>1. 0 \in Buckets
      BY HashAssumption DEF Buckets
    <2>2. NotIterating \in Iteration
      BY <2>1 DEF NotIterating, Iteration
    <2>3. \A b \in Buckets : <<>> \in Seq(Item)
      OBVIOUS
    <2> QED
      BY <2>2, <2>3 DEF Types, Init
  <1>2. Lists
    BY DEF Init, Lists
  <1>3. Referred /\ Unlocked
    BY DEF Init, Referred, Unlocked, NotIterating
  <1>4. Counted
    <2> SUFFICES ASSUME NEW i \in Item PROVE References(i) <= count[i]
      BY DEF Counted
    <2>1. /\ {t \in Thread : blob[t] = i} = {}
          /\ {t \in Thread : iter[t].on /\ iter[t].held /\ iter[t].cur = i} = {}
          /\ {t \in Thread : iter[t].on /\ iter[t].nxt = i} = {}
      BY HashAssumption DEF Init, NotIterating
    <2>2. References(i) = Cardinality({}) + Cardinality({}) + Cardinality({})
      BY <2>1 DEF References
    <2>3. count[i] = 0
      BY DEF Init
    <2> QED
      BY <2>2, <2>3, FS_EmptySet
  <1> QED
    BY <1>1, <1>2, <1>3, <1>4 DEF Inv

\* What is referred to stays when the lists keep it.
LEMMA ReferredKept ==
    ASSUME Types, Referred, blob' = blob,
           \A t \in Thread : /\ iter'[t].on = iter[t].on /\ iter'[t].held = iter[t].held
                             /\ iter'[t].cur = iter[t].cur /\ iter'[t].nxt = iter[t].nxt
                             /\ iter'[t].b = iter[t].b,
           \A t \in Thread, b \in Buckets : \A i \in SetOf(bucket[b]) :
               \/ i \in SetOf(bucket'[b])
               \/ blob[t] # i /\ ~(iter[t].held /\ iter[t].cur = i) /\ iter[t].nxt # i
    PROVE  Referred'
  <1> SUFFICES ASSUME NEW t \in Thread
               PROVE  /\ blob[t] # None => blob[t] \in Live'
                      /\ iter[t].held => iter[t].on /\ iter[t].cur \in Live'
                      /\ iter[t].nxt # None => iter[t].on /\ iter[t].nxt \in SetOf(bucket'[iter[t].b])
    BY DEF Referred, SetOf
  <1>1. iter[t].b \in Buckets
    BY DEF Types, Iteration
  <1>2. \A b \in Buckets : SetOf(bucket'[b]) \subseteq Live'
    BY DEF Live, SetOf, Buckets
  <1>3. ASSUME NEW i, i \in Live, blob[t] = i \/ (iter[t].held /\ iter[t].cur = i)
        PROVE  i \in Live'
    <2>1. PICK b \in Buckets : i \in SetOf(bucket[b])
      BY <1>3 DEF Live
    <2>2. i \in SetOf(bucket'[b])
      BY <1>3, <2>1
    <2> QED
      BY <2>2, <1>2
  <1>4. blob[t] # None => blob[t] \in Live'
    BY <1>3 DEF Referred
  <1>5. iter[t].held => iter[t].on /\ iter[t].cur \in Live'
    BY <1>3 DEF Referred
  <1>6. iter[t].nxt # None => iter[t].on /\ iter[t].nxt \in SetOf(bucket'[iter[t].b])
    BY <1>1 DEF Referred
  <1> QED
    BY <1>4, <1>5, <1>6

LEMMA AddInv ==
    ASSUME Threads, Inv, UNCHANGED mode, NEW t \in Thread, NEW k \in Key, Add(t, k)
    PROVE  Inv'
  <1>1. PICK i \in Item \ Live : bucket' = [bucket EXCEPT ![HashOf[k]] = <<i>> \o @]
                                 /\ key' = [key EXCEPT ![i] = k]
    BY DEF Add
  <1>2. UNCHANGED <<mode, count, blob, iter>>
    BY DEF Add
  <1>3. Types /\ Lists /\ Referred /\ Counted /\ Unlocked
    BY DEF Inv
  <1>4. /\ Lists' /\ bucket' \in [Buckets -> Seq(Item)] /\ key' \in [Item -> Key \cup {None}]
        /\ \A b \in Buckets : SetOf(bucket[b]) \subseteq SetOf(bucket'[b])
    BY <1>1, <1>3, ListsAdd
  <1>5. Types'
    BY <1>2, <1>3, <1>4 DEF Types, Buckets, Iteration
  <1>6. Referred'
    BY <1>2, <1>3, <1>4, ReferredKept
  <1>7. Counted' /\ Unlocked'
    BY <1>2, <1>3 DEF Counted, References, Unlocked
  <1> QED
    BY <1>4, <1>5, <1>6, <1>7 DEF Inv

\* Nobody refers to an item whose count is 0.
LEMMA NotReferred ==
    ASSUME Threads, Inv, NEW i \in Item, count[i] = 0, NEW t \in Thread
    PROVE  blob[t] # i /\ ~(iter[t].held /\ iter[t].cur = i) /\ iter[t].nxt # i
  <1>1. Own(blob, iter, t, i) <= 0 /\ i # None
    BY OwnCounted, HashAssumption DEF Threads, Inv
  <1>2. iter[t].held => iter[t].on
    BY DEF Inv, Referred
  <1>3. iter[t].nxt = i => iter[t].on
    BY <1>1 DEF Inv, Referred
  <1>4. \A e : Bit(e) \in Nat /\ (e => Bit(e) = 1)
    BY DEF Bit
  <1>5. /\ Bit(blob[t] = i) = 0 /\ Bit(iter[t].on /\ iter[t].nxt = i) = 0
        /\ Bit(iter[t].on /\ iter[t].held /\ iter[t].cur = i) = 0
    BY <1>1, <1>4 DEF Own
  <1>6. blob[t] # i /\ ~(iter[t].on /\ iter[t].nxt = i)
        /\ ~(iter[t].on /\ iter[t].held /\ iter[t].cur = i)
    BY <1>5 DEF Bit
  <1> QED
    BY <1>2, <1>3, <1>6

LEMMA DelKeyInv ==
    ASSUME Threads, Inv, UNCHANGED mode, NEW t \in Thread, NEW k \in Key, DelKey(t, k)
    PROVE  Inv'
  <1>1. PICK i \in Found(k) : count[i] = 0 /\ Delete(i)
    BY DEF DelKey
  <1>2. UNCHANGED <<mode, blob>>
    BY DEF DelKey
  <1>3. Types /\ Lists /\ Referred /\ Counted /\ Unlocked
    BY DEF Inv
  <1>4. i \in Live /\ i \in Item
    BY <1>1, <1>3, BucketOfKey, SetOfLive, LiveItem DEF Found
  <1>5. /\ Lists' /\ bucket' \in [Buckets -> Seq(Item)] /\ key' \in [Item -> Key \cup {None}]
        /\ \A b \in Buckets : SetOf(bucket[b]) \ {i} \subseteq SetOf(bucket'[b])
    BY <1>1, <1>3, <1>4, ListsDelete
  <1>6. \A u \in Thread : blob[u] # i /\ ~(iter[u].held /\ iter[u].cur = i) /\ iter[u].nxt # i
    BY <1>1, <1>4, NotReferred
  <1>7. iter' \in [Thread -> Iteration]
        /\ \A u \in Thread : /\ iter'[u].on = iter[u].on /\ iter'[u].held = iter[u].held
                             /\ iter'[u].cur = iter[u].cur /\ iter'[u].nxt = iter[u].nxt
                             /\ iter'[u].b = iter[u].b /\ iter'[u].loaded = iter[u].loaded
    <2> DEFINE new(u) == [iter[u] EXCEPT !.must = @ \ {i}, !.seen = @ \ {i}]
    <2>1. iter' = [u \in Thread |-> new(u)]
      BY <1>1 DEF Delete
    <2>2. ASSUME NEW u \in Thread
          PROVE  /\ new(u) \in Iteration
                 /\ new(u).on = iter[u].on /\ new(u).held = iter[u].held
                 /\ new(u).cur = iter[u].cur /\ new(u).nxt = iter[u].nxt
                 /\ new(u).b = iter[u].b /\ new(u).loaded = iter[u].loaded
      <3>1. iter[u] \in Iteration
        BY <1>3 DEF Types
      <3> QED
        BY <3>1 DEF Iteration
    <2> HIDE DEF new
    <2> QED
      BY <2>1, <2>2
  <1>8. count' \in [Item -> Nat] /\ \A j \in Item : count'[j] = count[j]
    BY <1>1, <1>3 DEF Delete, Types
  <1>9. Types'
    BY <1>2, <1>3, <1>5, <1>7, <1>8 DEF Types, Buckets, Iteration
  <1>10. Referred'
    BY <1>2, <1>3, <1>5, <1>6, <1>7, ReferredKept
  <1>11. Counted'
    <2> SUFFICES ASSUME NEW j \in Item PROVE All(blob', iter', j) <= count'[j]
      BY DEF Counted, References, All
    <2>1. All(blob', iter', j) = All(blob, iter, j)
      BY <1>2, <1>7 DEF All
    <2> QED
      BY <2>1, <1>3, <1>8 DEF Counted, References, All
  <1>12. Unlocked'
    BY <1>2, <1>3, <1>7, <1>8 DEF Unlocked, Types, Iteration
  <1> QED
    BY <1>5, <1>9, <1>10, <1>11, <1>12 DEF Inv

LEMMA RenewInv == ASSUME Threads, Inv, UNCHANGED mode, Renew PROVE Inv'
  <1>1. Types /\ Referred /\ Unlocked
    BY DEF Inv
  <1>2. \A t \in Thread : blob[t] = None /\ ~iter[t].on /\ ~iter[t].held /\ iter[t].nxt = None
    BY <1>1 DEF Renew, Referred
  <1>3. Types'
    BY <1>1 DEF Renew, Types, Buckets, Iteration
  <1>4. Lists' /\ Referred' /\ Unlocked'
    BY <1>1, <1>2 DEF Renew, Lists, Referred, Unlocked
  <1>5. Counted'
    <2> SUFFICES ASSUME NEW i \in Item PROVE All(blob', iter', i) <= count'[i]
      BY DEF Counted, References, All
    <2>1. /\ {u \in Thread : blob[u] = i} = {}
          /\ {u \in Thread : iter[u].on /\ iter[u].held /\ iter[u].cur = i} = {}
          /\ {u \in Thread : iter[u].on /\ iter[u].nxt = i} = {}
      BY <1>2, HashAssumption
    <2>2. All(blob, iter, i) = Cardinality({}) + Cardinality({}) + Cardinality({})
      BY <2>1 DEF All
    <2>3. All(blob', iter', i) = All(blob, iter, i) /\ count'[i] = 0
      BY DEF All, Renew
    <2> QED
      BY <2>2, <2>3, FS_EmptySet
  <1> QED
    BY <1>3, <1>4, <1>5 DEF Inv

\* A step of one thread that leaves the lists alone.
LEMMA OneThread ==
    ASSUME Threads, Inv, NEW t \in Thread, UNCHANGED <<mode, bucket, key>>,
           count' \in [Item -> Nat], blob' \in [Thread -> Item \cup {None}],
           iter' \in [Thread -> Iteration],
           \A u \in Thread \ {t} : blob'[u] = blob[u] /\ iter'[u] = iter[u],
           blob'[t] # None => blob'[t] \in Live,
           iter'[t].held => iter'[t].on /\ iter'[t].cur \in Live,
           iter'[t].nxt # None => iter'[t].on /\ iter'[t].nxt \in SetOf(bucket[iter'[t].b]),
           \A i \in Item : count[i] - Own(blob, iter, t, i) <= count'[i] - Own(blob', iter', t, i),
           Unlocked'
    PROVE  Inv'
  <1>1. Types /\ Lists /\ Referred /\ Counted
    BY DEF Inv
  <1>2. Types' /\ Lists'
    BY <1>1 DEF Types, Lists, Buckets, Iteration
  <1>3. Referred'
    <2> SUFFICES ASSUME NEW u \in Thread
                 PROVE  /\ blob'[u] # None => blob'[u] \in Live
                        /\ iter'[u].held => iter'[u].on /\ iter'[u].cur \in Live
                        /\ iter'[u].nxt # None =>
                             iter'[u].on /\ iter'[u].nxt \in SetOf(bucket[iter'[u].b])
      BY DEF Referred, Live, SetOf, Buckets
    <2>1. CASE u = t
      BY <2>1
    <2>2. CASE u # t
      BY <2>2, <1>1 DEF Referred
    <2> QED
      BY <2>1, <2>2
  <1>4. Counted'
    <2>1. \A i \in Item : count'[i] \in Nat
      OBVIOUS
    <2> QED
      BY <2>1, <1>1, CountedStep DEF Threads
  <1> QED
    BY <1>2, <1>3, <1>4 DEF Inv

LEMMA FoundLive ==
    ASSUME Types, Lists, NEW k \in Key, NEW i \in Found(k)
    PROVE  i \in Live /\ i \in Item
  BY BucketOfKey, SetOfLive, LiveItem DEF Found

LEMMA AcquireInv ==
    ASSUME Threads, Inv, UNCHANGED mode, NEW t \in Thread, NEW k \in Key, AcquireBlob(t, k)
    PROVE  Inv'
  <1>1. PICK i \in Found(k) : /\ blob' = [blob EXCEPT ![t] = i]
                              /\ count' = [count EXCEPT ![i] = @ + 1]
    BY DEF AcquireBlob
  <1>2. Types /\ Lists /\ Referred /\ Counted /\ Unlocked
    BY DEF Inv
  <1>3. i \in Live /\ i \in Item /\ i # None
    BY <1>2, FoundLive, HashAssumption
  <1>4. UNCHANGED <<mode, bucket, key, iter>> /\ Ready(t) /\ blob[t] = None
    BY DEF AcquireBlob
  <1>5. /\ count' \in [Item -> Nat] /\ blob' \in [Thread -> Item \cup {None}]
        /\ blob'[t] = i /\ \A u \in Thread \ {t} : blob'[u] = blob[u]
        /\ \A j \in Item : count[j] \in Nat /\ count'[j] = IF j = i THEN count[j] + 1 ELSE count[j]
    BY <1>1, <1>2, <1>3 DEF Types
  <1>6. ASSUME NEW j \in Item
        PROVE  count[j] - Own(blob, iter, t, j) <= count'[j] - Own(blob', iter', t, j)
    <2>1. /\ Bit(blob[t] = j) = 0
          /\ Bit(blob'[t] = j) = IF j = i THEN 1 ELSE 0
      BY <1>3, <1>4, <1>5, HashAssumption DEF Bit
    <2>2. \A e : Bit(e) \in Nat
      BY DEF Bit
    <2>3. iter' = iter /\ count[j] \in Nat
          /\ count'[j] = IF j = i THEN count[j] + 1 ELSE count[j]
      BY <1>4, <1>5
    <2> QED
      BY <2>1, <2>2, <2>3 DEF Own
  <1>7. Unlocked'
    BY <1>2, <1>4, NoneLoaded DEF Unlocked
  <1> QED
    BY <1>2, <1>3, <1>4, <1>5, <1>6, <1>7, OneThread DEF Referred, Types

LEMMA UnreferenceInv ==
    ASSUME Threads, Inv, UNCHANGED <<mode, bucket, key>>, NEW t \in Thread, Ready(t), Unreference(t)
    PROVE  Inv'
  <1>1. Types /\ Lists /\ Referred /\ Counted /\ Unlocked /\ IsFiniteSet(Thread)
    BY DEF Inv, Threads
  <1>2. \A e : Bit(e) \in Nat
    BY DEF Bit
  <1>3. \A u \in Thread : iter[u].loaded = -1
    BY <1>1, NoneLoaded
  <1>4. CASE /\ blob[t] # None /\ iter' = iter
             /\ count' = [count EXCEPT ![blob[t]] = Less(@)]
             /\ blob' = [blob EXCEPT ![t] = None]
    <2>1. blob[t] \in Item
      BY <1>1, <1>4 DEF Types
    <2>2. Own(blob, iter, t, blob[t]) <= count[blob[t]] /\ Bit(blob[t] = blob[t]) = 1
      BY <1>1, <2>1, OwnCounted DEF Bit
    <2>3. count[blob[t]] \in Nat /\ count[blob[t]] >= 1
      BY <1>1, <1>2, <2>1, <2>2 DEF Own, Types
    <2>4. /\ count' \in [Item -> Nat] /\ blob' \in [Thread -> Item \cup {None}]
          /\ blob'[t] = None /\ \A u \in Thread \ {t} : blob'[u] = blob[u]
          /\ \A j \in Item : count[j] \in Nat
                             /\ count'[j] = IF j = blob[t] THEN count[j] - 1 ELSE count[j]
      BY <1>1, <1>4, <2>1, <2>3 DEF Types, Less
    <2>5. ASSUME NEW j \in Item
          PROVE  count[j] - Own(blob, iter, t, j) <= count'[j] - Own(blob', iter', t, j)
      <3>1. /\ Bit(blob'[t] = j) = 0
            /\ Bit(blob[t] = j) = IF j = blob[t] THEN 1 ELSE 0
        BY <2>4, HashAssumption DEF Bit
      <3> QED
        BY <3>1, <1>2, <1>4, <2>4 DEF Own
    <2>6. Unlocked'
      BY <1>3, <1>4 DEF Unlocked
    <2> QED
      BY <1>1, <1>4, <2>4, <2>5, <2>6, OneThread DEF Referred, Types
  <1>5. CASE /\ iter[t].on /\ iter[t].held /\ blob' = blob
             /\ count' = [count EXCEPT ![iter[t].cur] = Less(@)]
             /\ iter' = [iter EXCEPT ![t].held = FALSE]
    <2> DEFINE c == iter[t].cur
    <2>1. c \in Item
      BY <1>1, <1>5, LiveItem DEF Referred
    <2>2. Own(blob, iter, t, c) <= count[c] /\ Bit(iter[t].on /\ iter[t].held /\ iter[t].cur = c) = 1
      BY <1>1, <1>5, <2>1, OwnCounted DEF Bit
    <2>3. count[c] \in Nat /\ count[c] >= 1
      BY <1>1, <1>2, <2>1, <2>2 DEF Own, Types
    <2>4. /\ count' \in [Item -> Nat]
          /\ \A j \in Item : count[j] \in Nat
                             /\ count'[j] = IF j = c THEN count[j] - 1 ELSE count[j]
      BY <1>1, <1>5, <2>1, <2>3 DEF Types, Less
    <2>5. /\ iter' \in [Thread -> Iteration] /\ \A u \in Thread \ {t} : iter'[u] = iter[u]
          /\ iter'[t] = [iter[t] EXCEPT !.held = FALSE]
      <3>1. iter[t] \in Iteration
        BY <1>1 DEF Types
      <3>2. [iter[t] EXCEPT !.held = FALSE] \in Iteration
        BY <3>1 DEF Iteration
      <3> QED
        BY <1>1, <1>5, <3>2 DEF Types
    <2>6. /\ ~iter'[t].held /\ iter'[t].on = iter[t].on /\ iter'[t].nxt = iter[t].nxt
          /\ iter'[t].b = iter[t].b /\ iter'[t].loaded = iter[t].loaded
      <3>1. iter[t] \in Iteration
        BY <1>1 DEF Types
      <3> QED
        BY <2>5, <3>1 DEF Iteration
    <2>7. ASSUME NEW j \in Item
          PROVE  count[j] - Own(blob, iter, t, j) <= count'[j] - Own(blob', iter', t, j)
      <3>1. /\ Bit(iter'[t].on /\ iter'[t].held /\ iter'[t].cur = j) = 0
            /\ Bit(iter[t].on /\ iter[t].held /\ iter[t].cur = j) = IF j = c THEN 1 ELSE 0
            /\ Bit(iter'[t].on /\ iter'[t].nxt = j) = Bit(iter[t].on /\ iter[t].nxt = j)
        BY <1>5, <2>6 DEF Bit
      <3> HIDE DEF c
      <3> QED
        BY <3>1, <1>2, <1>5, <2>4 DEF Own
    <2>8. Unlocked'
      BY <1>3, <2>5, <2>6 DEF Unlocked
    <2> QED
      BY <1>1, <1>5, <2>4, <2>5, <2>6, <2>7, <2>8, OneThread DEF Referred, Types
  <1> QED
    BY <1>4, <1>5 DEF Unreference

\* Going on with item i, or ending without one: the counts C are those without
\* the references of t's iteration so far.
LEMMA VisitInv ==
    ASSUME Threads, Inv, NEW t \in Thread, Ready(t), UNCHANGED <<mode, bucket, key, blob>>,
           NEW i \in Live \cup {None}, NEW C \in [Item -> Nat],
           NEW must \in SUBSET Item, NEW seen \in SUBSET Item, Visit(t, i, C, must, seen),
           \A j \in Item : count[j] - Own(blob, iter, t, j) <= C[j] - Bit(blob[t] = j)
    PROVE  Inv'
  <1>1. Types /\ Lists /\ Referred /\ Counted /\ Unlocked /\ IsFiniteSet(Thread)
    BY DEF Inv, Threads
  <1>2. \A e : Bit(e) \in Nat
    BY DEF Bit
  <1>3. \A u \in Thread : iter[u].loaded = -1
    BY <1>1, NoneLoaded
  <1>4. CASE i = None
    <2> DEFINE new == [NotIterating EXCEPT !.missed = must \ seen]
    <2>1. count' = C /\ iter' = [iter EXCEPT ![t] = new]
      BY <1>4 DEF Visit
    <2>2. new \in Iteration /\ ~new.on /\ ~new.held /\ new.nxt = None /\ new.loaded = -1
      <3>1. /\ NotIterating \in Iteration /\ ~NotIterating.on /\ ~NotIterating.held
            /\ NotIterating.nxt = None /\ NotIterating.loaded = -1
        BY HashAssumption DEF NotIterating, Iteration, Buckets
      <3>2. must \ seen \in SUBSET Item
        OBVIOUS
      <3> HIDE DEF NotIterating
      <3> QED
        BY <3>1, <3>2 DEF Iteration
    <2> HIDE DEF new
    <2>3. /\ iter' \in [Thread -> Iteration] /\ iter'[t] = new
          /\ \A u \in Thread \ {t} : iter'[u] = iter[u]
      BY <1>1, <2>1, <2>2 DEF Types
    <2>4. ASSUME NEW j \in Item
          PROVE  count[j] - Own(blob, iter, t, j) <= count'[j] - Own(blob', iter', t, j)
      <3>1. Own(blob', iter', t, j) = Bit(blob[t] = j) + 0 + 0
        BY <2>2, <2>3 DEF Own, Bit
      <3> QED
        BY <3>1, <2>1, <1>2
    <2>5. Unlocked'
      BY <1>3, <2>2, <2>3 DEF Unlocked
    <2> QED
      BY <1>1, <2>1, <2>2, <2>3, <2>4, <2>5, OneThread DEF Referred, Types
  <1>5. CASE i # None
    <2> DEFINE a == After(i)
               new == [on |-> TRUE, b |-> HashOf[key[i]], cur |-> i, nxt |-> a, held |-> TRUE,
                       loaded |-> -1, must |-> must, seen |-> seen \cup {i}, missed |-> {}]
    <2>1. /\ iter' = [iter EXCEPT ![t] = new]
          /\ count' = [j \in Item |-> C[j] + (IF j \in {i, a} THEN 1 ELSE 0)]
      BY <1>5 DEF Visit
    <2>2. i \in Live /\ i \in Item /\ HashOf[key[i]] \in Buckets
      BY <1>1, <1>5, LiveItem
    <2>3. /\ a \in Item \cup {None} /\ a # i
          /\ a # None => a \in SetOf(bucket[HashOf[key[i]]])
      BY <1>1, <2>2, AfterOf
    <2> HIDE DEF a
    <2>4. /\ new \in Iteration /\ new.on /\ new.held /\ new.cur = i /\ new.nxt = a
          /\ new.b = HashOf[key[i]] /\ new.loaded = -1
      BY <2>2, <2>3 DEF Iteration
    <2> HIDE DEF new
    <2>5. /\ iter' \in [Thread -> Iteration] /\ iter'[t] = new
          /\ \A u \in Thread \ {t} : iter'[u] = iter[u]
      BY <1>1, <2>1, <2>4 DEF Types
    <2>6. count' \in [Item -> Nat]
      BY <2>1
    <2>7. ASSUME NEW j \in Item
          PROVE  count[j] - Own(blob, iter, t, j) <= count'[j] - Own(blob', iter', t, j)
      <3>1. Own(blob', iter', t, j) = Bit(blob[t] = j) + Bit(i = j) + Bit(a = j)
        BY <2>4, <2>5 DEF Own, Bit
      <3>2. Bit(i = j) + Bit(a = j) = IF j \in {i, a} THEN 1 ELSE 0
        BY <2>3 DEF Bit
      <3>3. count'[j] = C[j] + Bit(i = j) + Bit(a = j)
        <4>1. count'[j] = C[j] + (Bit(i = j) + Bit(a = j))
          BY <2>1, <3>2
        <4> QED
          BY <4>1, <1>2
      <3>4. /\ count[j] \in Nat /\ C[j] \in Nat /\ Own(blob, iter, t, j) \in Nat
            /\ count[j] - Own(blob, iter, t, j) <= C[j] - Bit(blob[t] = j)
        BY <1>1, Split DEF Types
      <3> QED
        BY <3>1, <3>3, <3>4, <1>2
    <2>8. Unlocked'
      BY <1>3, <2>4, <2>5 DEF Unlocked
    <2> QED
      BY <1>1, <2>2, <2>3, <2>4, <2>5, <2>6, <2>7, <2>8, OneThread DEF Referred, Types
  <1> QED
    BY <1>4, <1>5

LEMMA IterStartInv ==
    ASSUME Threads, Inv, UNCHANGED mode, NEW t \in Thread, IterStart(t)
    PROVE  Inv'
  <1>1. Types /\ Lists
    BY DEF Inv
  <1>2. FirstFrom(0) \in Live \cup {None}
    BY <1>1, FirstLive
  <1>3. Live \in SUBSET Item /\ {} \in SUBSET Item
    BY <1>1, LiveItem
  <1>4. Ready(t) /\ ~iter[t].on /\ UNCHANGED <<mode, bucket, key, blob>>
        /\ Visit(t, FirstFrom(0), count, Live, {})
    BY DEF IterStart
  <1>5. count \in [Item -> Nat]
    BY <1>1 DEF Types
  <1>6. ASSUME NEW j \in Item
        PROVE  count[j] - Own(blob, iter, t, j) <= count[j] - Bit(blob[t] = j)
    <2>1. Own(blob, iter, t, j) = Bit(blob[t] = j) + 0 + 0
      BY <1>4 DEF Own, Bit
    <2> QED
      BY <2>1, <1>5 DEF Bit
  <1> QED
    BY <1>2, <1>3, <1>4, <1>5, <1>6, VisitInv

\* The counts without the reference to the next item are counts.
LEMMA UnpinnedOf ==
    ASSUME Threads, Inv, NEW t \in Thread, iter[t].on
    PROVE  /\ Unpinned(t) \in [Item -> Nat]
           /\ \A j \in Item :
                count[j] - Own(blob, iter, t, j) <= Unpinned(t)[j] - Bit(blob[t] = j)
  <1>1. \A e : Bit(e) \in Nat
    BY DEF Bit
  <1>2. ASSUME NEW j \in Item
        PROVE  /\ Unpinned(t)[j] \in Nat
               /\ count[j] - Own(blob, iter, t, j) <= Unpinned(t)[j] - Bit(blob[t] = j)
    <2>1. count[j] \in Nat /\ Own(blob, iter, t, j) <= count[j]
      BY OwnCounted DEF Inv, Types, Threads
    <2>2. Unpinned(t)[j] = count[j] - Bit(iter[t].on /\ iter[t].nxt = j)
      BY <2>1 DEF Unpinned, Bit
    <2> QED
      BY <2>1, <2>2, <1>1 DEF Own
  <1> QED
    BY <1>2 DEF Unpinned

LEMMA IterKeepInv ==
    ASSUME Threads, Inv, UNCHANGED mode, NEW t \in Thread, IterKeep(t)
    PROVE  Inv'
  <1> DEFINE nextItem == IF iter[t].nxt # None THEN iter[t].nxt ELSE FirstFrom(iter[t].b + 1)
  <1>1. Types /\ Lists /\ Referred
    BY DEF Inv
  <1>2. Ready(t) /\ iter[t].on /\ UNCHANGED <<mode, bucket, key, blob>>
        /\ Visit(t, nextItem, Unpinned(t), iter[t].must, iter[t].seen)
    BY DEF IterKeep
  <1>3. iter[t] \in Iteration
    BY <1>1 DEF Types
  <1>4. iter[t].must \in SUBSET Item /\ iter[t].seen \in SUBSET Item /\ iter[t].b \in Buckets
    BY <1>3 DEF Iteration
  <1>5. nextItem \in Live \cup {None}
    <2>1. iter[t].b + 1 \in Nat
      BY <1>4, HashAssumption DEF Buckets
    <2>2. FirstFrom(iter[t].b + 1) \in Live \cup {None}
      BY <1>1, <2>1, FirstLive
    <2> QED
      BY <1>1, <1>4, <2>2, SetOfLive DEF Referred
  <1> HIDE DEF nextItem
  <1> QED
    BY <1>2, <1>4, <1>5, UnpinnedOf, VisitInv

\* The iteration of t ends with the counts it leaves.
LEMMA EndInv ==
    ASSUME Threads, Inv, NEW t \in Thread, UNCHANGED <<mode, bucket, key, blob>>,
           iter' = [iter EXCEPT ![t] = NotIterating], count' \in [Item -> Nat],
           \A u \in Thread \ {t} : iter[u].loaded = -1,
           \A j \in Item : count[j] - Own(blob, iter, t, j) <= count'[j] - Bit(blob[t] = j)
    PROVE  Inv'
  <1>1. Types /\ Referred
    BY DEF Inv
  <1>2. /\ NotIterating \in Iteration /\ ~NotIterating.on /\ ~NotIterating.held
        /\ NotIterating.nxt = None /\ NotIterating.loaded = -1
    BY HashAssumption DEF NotIterating, Iteration, Buckets
  <1>3. /\ iter' \in [Thread -> Iteration] /\ iter'[t] = NotIterating
        /\ \A u \in Thread \ {t} : iter'[u] = iter[u]
    BY <1>1, <1>2 DEF Types
  <1>4. ASSUME NEW j \in Item
        PROVE  count[j] - Own(blob, iter, t, j) <= count'[j] - Own(blob', iter', t, j)
    <2>1. Own(blob', iter', t, j) = Bit(blob[t] = j) + 0 + 0
      BY <1>2, <1>3 DEF Own, Bit
    <2> QED
      BY <2>1 DEF Bit
  <1>5. Unlocked'
    BY <1>2, <1>3 DEF Unlocked
  <1> QED
    BY <1>1, <1>2, <1>3, <1>4, <1>5, OneThread DEF Referred, Types

LEMMA IterExitInv ==
    ASSUME Threads, Inv, UNCHANGED mode, NEW t \in Thread, IterExit(t)
    PROVE  Inv'
  <1>1. iter[t].on /\ Ready(t) /\ count' = Unpinned(t)
    BY DEF IterExit
  <1>2. \A u \in Thread : iter[u].loaded = -1
    BY <1>1, NoneLoaded DEF Inv
  <1> QED
    BY <1>1, <1>2, UnpinnedOf, EndInv DEF IterExit

LEMMA RelockFailsInv ==
    ASSUME Threads, Inv, UNCHANGED mode, NEW t \in Thread, RelockFails(t)
    PROVE  Inv'
  <1>1. Types /\ Referred
    BY DEF Inv
  <1>2. iter[t].on /\ Ready(t) /\ mode.lockFails /\ t \in mode.threads
        /\ UNCHANGED <<mode, bucket, key, count, blob>>
    BY DEF RelockFails, Ready
  <1>3. \A u \in Thread : iter[u].loaded = -1
    BY <1>2, NoneLoaded DEF Inv
  <1>4. CASE iter[t].nxt = None
    <2>1. iter' = [iter EXCEPT ![t] = NotIterating]
      BY <1>4 DEF RelockFails
    <2>2. Unpinned(t) = count
      <3>1. \A j \in Item : j # iter[t].nxt
        BY <1>4, HashAssumption
      <3> QED
        BY <3>1, <1>1 DEF Unpinned, Types
    <2> QED
      BY <1>2, <1>3, <2>1, <2>2, UnpinnedOf, EndInv
  <1>5. CASE iter[t].nxt # None
    <2> DEFINE new == [iter[t] EXCEPT !.loaded = count[iter[t].nxt]]
    <2>1. iter' = [iter EXCEPT ![t] = new]
      BY <1>5 DEF RelockFails
    <2>2. iter[t] \in Iteration
      BY <1>1 DEF Types
    <2>3. count[iter[t].nxt] \in Nat
      BY <1>1, <1>5, <2>2 DEF Types, Iteration
    <2>4. /\ new \in Iteration /\ new.on = iter[t].on /\ new.held = iter[t].held
          /\ new.cur = iter[t].cur /\ new.nxt = iter[t].nxt /\ new.b = iter[t].b
          /\ new.loaded = count[iter[t].nxt]
      BY <2>2, <2>3 DEF Iteration
    <2> HIDE DEF new
    <2>5. /\ iter' \in [Thread -> Iteration] /\ iter'[t] = new
          /\ \A u \in Thread \ {t} : iter'[u] = iter[u]
      BY <1>1, <2>1, <2>4 DEF Types
    <2>6. ASSUME NEW j \in Item
          PROVE  count[j] - Own(blob, iter, t, j) <= count'[j] - Own(blob', iter', t, j)
      <3>1. Own(blob', iter', t, j) = Own(blob, iter, t, j)
        BY <1>2, <2>4, <2>5 DEF Own
      <3>2. count[j] \in Nat /\ Own(blob, iter, t, j) \in Nat
        BY <1>1, Split DEF Types, Threads
      <3> QED
        BY <3>1, <3>2, <1>2
    <2>7. Unlocked'
      <3>1. \A u \in Thread \ {t} : iter'[u].loaded = -1
        BY <1>3, <2>5
      <3>2. /\ mode'.lockFails /\ t \in mode'.threads /\ iter'[t].on
            /\ iter'[t].nxt # None /\ iter'[t].loaded = count'[iter'[t].nxt]
        BY <1>2, <1>5, <2>4, <2>5
      <3> QED
        BY <3>1, <3>2 DEF Unlocked
    <2> QED
      BY <1>1, <1>2, <2>4, <2>5, <2>6, <2>7, OneThread DEF Referred, Types
  <1> QED
    BY <1>4, <1>5

LEMMA StoreUnlockedInv ==
    ASSUME Threads, Inv, UNCHANGED mode, NEW t \in Thread, StoreUnlocked(t)
    PROVE  Inv'
  <1>1. Types /\ Unlocked
    BY DEF Inv
  <1>2. /\ mode.lockFails /\ t \in mode.threads
        /\ iter[t].on /\ iter[t].nxt # None /\ iter[t].loaded = count[iter[t].nxt]
    BY <1>1 DEF StoreUnlocked, Unlocked
  <1>3. iter[t].nxt \in Item
    BY <1>1, <1>2 DEF Types, Iteration
  <1>4. count' = Unpinned(t)
    <2>1. count' = [count EXCEPT ![iter[t].nxt] = count[iter[t].nxt] - 1]
      BY <1>2 DEF StoreUnlocked
    <2> QED
      BY <2>1, <1>1, <1>3 DEF Unpinned, Types
  <1>5. \A u \in Thread \ {t} : iter[u].loaded = -1
    BY <1>1, <1>2 DEF Unlocked, Threads, Types
  <1>6. UNCHANGED <<mode, bucket, key, blob>> /\ iter' = [iter EXCEPT ![t] = NotIterating]
    BY DEF StoreUnlocked
  <1>7. /\ count' \in [Item -> Nat]
        /\ \A j \in Item : count[j] - Own(blob, iter, t, j) <= count'[j] - Bit(blob[t] = j)
    BY <1>2, <1>4, UnpinnedOf
  <1> QED
    BY <1>5, <1>6, <1>7, EndInv

LEMMA InvNext == ASSUME Threads, Inv, [Next]_vars PROVE Inv'
  <1>1. CASE Renew /\ UNCHANGED mode
    BY <1>1, RenewInv
  <1>2. ASSUME NEW t \in Thread, Step(t), UNCHANGED mode PROVE Inv'
    <2>1. ASSUME NEW k \in Key, Add(t, k) \/ DelKey(t, k) \/ AcquireBlob(t, k) PROVE Inv'
      BY <1>2, <2>1, AddInv, DelKeyInv, AcquireInv
    <2>2. CASE ReleaseBlob(t)
      BY <1>2, <2>2, UnreferenceInv DEF ReleaseBlob
    <2>3. CASE DelKeyFormBlob(t)
      BY <1>2, <2>3, UnreferenceInv DEF DelKeyFormBlob
    <2>4. CASE IterStart(t) \/ IterKeep(t) \/ IterExit(t)
      BY <1>2, <2>4, IterStartInv, IterKeepInv, IterExitInv
    <2>5. CASE RelockFails(t) \/ StoreUnlocked(t)
      BY <1>2, <2>5, RelockFailsInv, StoreUnlockedInv
    <2> QED
      BY <1>2, <2>1, <2>2, <2>3, <2>4, <2>5 DEF Step
  <1>3. CASE UNCHANGED vars
    <2>1. UNCHANGED <<mode, bucket, key, count, blob, iter>>
      BY <1>3 DEF vars
    <2>2. Types'
      BY <2>1 DEF Inv, Types, Buckets, Iteration
    <2>3. Lists' /\ Referred'
      BY <2>1 DEF Inv, Lists, Referred, Live, SetOf, Buckets
    <2>4. Counted' /\ Unlocked'
      BY <2>1 DEF Inv, Counted, References, Unlocked
    <2> QED
      BY <2>2, <2>3, <2>4 DEF Inv
  <1> QED
    BY <1>1, <1>2, <1>3 DEF Next

LEMMA InvImplies == ASSUME Inv PROVE ReferencesHold
  <1>1. Types /\ Lists /\ Referred /\ Counted
    BY DEF Inv
  <1>2. BlobsAreValid /\ CursorIsSafe
    BY <1>1 DEF Referred, BlobsAreValid, CursorIsSafe
  <1>3. CountCovers
    <2> SUFFICES ASSUME NEW i \in Live PROVE count[i] >= References(i)
      BY DEF CountCovers
    <2>1. i \in Item
      BY <1>1, LiveItem
    <2>2. References(i) <= count[i]
      BY <1>1, <2>1 DEF Counted
    <2> QED
      BY <2>2
  <1> QED
    BY <1>2, <1>3 DEF ReferencesHold

\* Whatever a blob or an iteration refers to is in the table, counted, and in
\* the list that is walked along, for every number of threads, keys, items and
\* buckets, in every interleaving with other operations.
THEOREM ReferencesAreSafe == ASSUME Threads PROVE Spec => []ReferencesHold
  <1>1. Init => Inv
    BY InvInit
  <1>2. Inv /\ [Next]_vars => Inv'
    BY InvNext
  <1>3. Inv => ReferencesHold
    BY InvImplies
  <1> QED
    BY <1>1, <1>2, <1>3, PTL DEF Spec

-----------------------------------------------------------------------------
(* Iterations are complete *)

\* Item i is item j or behind it in the list s.
Behind(s, j, i) == \E n, m \in DOMAIN s : n <= m /\ s[n] = j /\ s[m] = i

\* The iteration x still comes to item i: it is in a later bucket, or what is
\* left of the bucket that is being walked along.
Awaits(B, K, x, i) ==
    \/ HashOf[K[i]] > x.b
    \/ x.nxt # None /\ Behind(B[x.b], x.nxt, i)

Complete == \A t \in Thread :
    /\ iter[t].missed = {}
    /\ iter[t].on => /\ iter[t].must \subseteq Live
                     /\ \A i \in iter[t].must \ iter[t].seen : Awaits(bucket, key, iter[t], i)

LEMMA BehindAdd ==
    ASSUME NEW s \in Seq(Item), NEW i \in Item, NEW j, NEW x, Behind(s, j, x)
    PROVE  Behind(<<i>> \o s, j, x)
  <1> DEFINE T == <<i>> \o s
  <1>1. PICK n \in DOMAIN s, m \in DOMAIN s : n <= m /\ s[n] = j /\ s[m] = x
    BY DEF Behind
  <1>2. /\ DOMAIN T = 1 .. Len(s) + 1 /\ DOMAIN s = 1 .. Len(s) /\ Len(s) \in Nat
        /\ \A l \in 1 .. Len(s) + 1 : l # 1 => T[l] = s[l - 1]
    OBVIOUS
  <1>3. n + 1 \in DOMAIN T /\ m + 1 \in DOMAIN T /\ n + 1 <= m + 1
        /\ T[n + 1] = s[n] /\ T[m + 1] = s[m]
    BY <1>1, <1>2
  <1> HIDE DEF T
  <1>4. Behind(T, j, x)
    BY <1>1, <1>3 DEF Behind
  <1> QED
    BY <1>4 DEF T

LEMMA BehindUnlinked ==
    ASSUME NEW s \in Seq(Item), NEW p \in 1 .. Len(s), NEW j, NEW x,
           Behind(s, j, x), s[p] # j, s[p] # x
    PROVE  Behind(Unlinked(s, p), j, x)
  <1> DEFINE T == Unlinked(s, p)
             To(l) == IF l < p THEN l ELSE l - 1
  <1>1. PICK n \in DOMAIN s, m \in DOMAIN s : n <= m /\ s[n] = j /\ s[m] = x
    BY DEF Behind
  <1>2. DOMAIN s = 1 .. Len(s) /\ Len(s) \in Nat /\ DOMAIN T = 1 .. Len(s) - 1
        /\ \A l \in DOMAIN T : T[l] = IF l < p THEN s[l] ELSE s[l + 1]
    BY LenProperties DEF Unlinked
  <1>3. ASSUME NEW l \in DOMAIN s, l # p
        PROVE  To(l) \in DOMAIN T /\ T[To(l)] = s[l]
    <2>1. CASE l < p
      BY <2>1, <1>2
    <2>2. CASE l > p
      <3>1. l - 1 \in DOMAIN T /\ ~(l - 1 < p) /\ (l - 1) + 1 = l
        BY <2>2, <1>2
      <3>2. T[l - 1] = s[(l - 1) + 1]
        BY <3>1, <1>2
      <3> HIDE DEF T
      <3> QED
        BY <3>1, <3>2, <2>2, <1>2
    <2> QED
      BY <2>1, <2>2, <1>2, <1>3
  <1>4. n # p /\ m # p
    BY <1>1
  <1>5. To(n) <= To(m)
    BY <1>1, <1>2, <1>4
  <1>6. /\ To(n) \in DOMAIN T /\ T[To(n)] = j
        /\ To(m) \in DOMAIN T /\ T[To(m)] = x
    BY <1>1, <1>3, <1>4
  <1> HIDE DEF T, To
  <1>7. Behind(T, j, x)
    BY <1>5, <1>6 DEF Behind
  <1> QED
    BY <1>7 DEF T

\* What is behind an item is that item, or behind the next one.
LEMMA BehindAfter ==
    ASSUME Types, Lists, NEW i \in Live, NEW x, x # i, Behind(bucket[HashOf[key[i]]], i, x)
    PROVE  After(i) # None /\ Behind(bucket[HashOf[key[i]]], After(i), x)
  <1> DEFINE s == bucket[HashOf[key[i]]]
             p == Place(i)
  <1>1. s \in Seq(Item) /\ p \in 1 .. Len(s) /\ s[p] = i /\ HashOf[key[i]] \in Buckets
    BY PlaceOf, LiveItem
  <1>2. PICK n \in DOMAIN s, m \in DOMAIN s : n <= m /\ s[n] = i /\ s[m] = x
    BY DEF Behind
  <1>3. DOMAIN s = 1 .. Len(s) /\ Len(s) \in Nat
    BY <1>1, LenProperties
  <1>4. n = p
    BY <1>1, <1>2, <1>3 DEF Lists
  <1>5. m # p
    BY <1>1, <1>2
  <1>6. p + 1 \in DOMAIN s /\ p + 1 <= m /\ p # Len(s)
    <2> HIDE DEF s, p
    <2> QED
      BY <1>1, <1>2, <1>3, <1>4, <1>5
  <1>7. After(i) = s[p + 1]
    BY <1>6 DEF After
  <1>8. s[p + 1] \in Item
    BY <1>1, <1>3, <1>6, ElementOfSeq
  <1>9. After(i) # None
    BY <1>7, <1>8, HashAssumption
  <1>10. Behind(s, s[p + 1], x)
    <2> HIDE DEF s, p
    <2> QED
      BY <1>2, <1>6 DEF Behind
  <1> QED
    BY <1>7, <1>9, <1>10

\* Every inhabited set of naturals has a least element.
LEMMA LeastOf ==
    ASSUME NEW T \in SUBSET Nat, NEW k \in T
    PROVE  \E c \in T : \A d \in T : c <= d
  <1> DEFINE R == {ss \in Nat \X Nat : ss[1] < ss[2]}
  <1>1. IsWellFoundedOn(R, Nat)
    BY NatLessThanWellFounded DEF OpToRel
  <1>2. T \subseteq Nat /\ T # {}
    OBVIOUS
  <1> HIDE DEF R
  <1>3. PICK c \in T : \A d \in T : ~(<<d, c>> \in R)
    BY <1>1, <1>2, WFMin
  <1>4. \A d \in T : ~(d < c)
    <2> SUFFICES ASSUME NEW d \in T, d < c PROVE <<d, c>> \in R
      BY <1>3
    <2>1. <<d, c>> \in Nat \X Nat
      BY <1>2
    <2> QED
      BY <2>1 DEF R
  <1> QED
    BY <1>2, <1>4

\* Everything from bucket b on is behind the first item found from there on, or
\* in a later bucket.
LEMMA FirstOf ==
    ASSUME Types, Lists, NEW b \in Nat, NEW x \in Live, HashOf[key[x]] >= b
    PROVE  LET f == FirstFrom(b)
           IN  /\ f # None /\ f \in Live
               /\ \/ HashOf[key[x]] > HashOf[key[f]]
                  \/ HashOf[key[x]] = HashOf[key[f]] /\ Behind(bucket[HashOf[key[f]]], f, x)
  <1> DEFINE first == {c \in b .. TabLen - 1 :
                         bucket[c] # <<>> /\ \A d \in b .. c - 1 : bucket[d] = <<>>}
             h == HashOf[key[x]]
             Full(c) == c \in b .. TabLen - 1 /\ bucket[c] # <<>>
  <1>1. /\ h \in Buckets /\ bucket[h] \in Seq(Item) /\ b \in Nat /\ TabLen \in Nat
        /\ x \in SetOf(bucket[h])
    BY LiveItem, HashAssumption DEF Types
  <1>2. PICK m \in DOMAIN bucket[h] : bucket[h][m] = x
    BY <1>1 DEF SetOf
  <1>3. Full(h)
    <2>1. bucket[h] # <<>>
      BY <1>1, <1>2, EmptySeq, LenProperties
    <2> QED
      BY <2>1, <1>1 DEF Buckets
  <1>4. \E c \in first : TRUE
    <2>1. PICK c \in {c \in 0 .. TabLen - 1 : Full(c)} :
             \A d \in {c1 \in 0 .. TabLen - 1 : Full(c1)} : c <= d
      <3> DEFINE T == {c \in 0 .. TabLen - 1 : Full(c)}
      <3>1. T \subseteq Nat /\ h \in T
        BY <1>1, <1>3 DEF Buckets
      <3> HIDE DEF T
      <3>2. \E c \in T : \A d \in T : c <= d
        BY <3>1, LeastOf
      <3> QED
        BY <3>2 DEF T
    <2>2. \A d \in b .. c - 1 : bucket[d] = <<>>
      BY <1>1, <2>1
    <2> QED
      BY <2>1, <2>2
  <1>5. PICK c \in first : FirstFrom(b) = bucket[c][1]
    BY <1>4 DEF FirstFrom
  <1>6. /\ c \in Buckets /\ bucket[c] \in Seq(Item) /\ bucket[c] # <<>>
        /\ \A d \in b .. c - 1 : bucket[d] = <<>>
    BY <1>1, <1>5 DEF Buckets, Types
  <1>7. 1 \in DOMAIN bucket[c] /\ bucket[c][1] \in Live
    <2>1. 1 \in DOMAIN bucket[c]
      BY <1>6, EmptySeq, LenProperties
    <2> QED
      BY <2>1, <1>6 DEF Live, SetOf
  <1>8. HashOf[key[bucket[c][1]]] = c
    BY <1>6, <1>7 DEF Lists
  <1>9. h >= c
    BY <1>1, <1>3, <1>6 DEF Buckets
  <1>10. h = c => Behind(bucket[c], bucket[c][1], x)
    <2> SUFFICES ASSUME h = c PROVE Behind(bucket[c], bucket[c][1], x)
      OBVIOUS
    <2>1. m \in DOMAIN bucket[c] /\ bucket[c][m] = x /\ 1 <= m
      BY <1>2, <1>6, LenProperties
    <2> QED
      BY <2>1, <1>7 DEF Behind
  <1>11. bucket[c][1] # None
    BY <1>7, LiveItem, HashAssumption
  <1> QED
    BY <1>1, <1>5, <1>6, <1>7, <1>8, <1>9, <1>10, <1>11 DEF Buckets

\* Nothing that iterations await moves.
LEMMA CompleteKept ==
    ASSUME Complete, UNCHANGED <<bucket, key>>,
           \A t \in Thread : /\ iter'[t].missed = {}
                             /\ iter'[t].on => /\ iter[t].on /\ iter'[t].must = iter[t].must
                                               /\ iter'[t].seen = iter[t].seen
                                               /\ iter'[t].b = iter[t].b /\ iter'[t].nxt = iter[t].nxt
    PROVE  Complete'
  <1> SUFFICES ASSUME NEW t \in Thread, iter'[t].on
               PROVE  /\ iter'[t].must \subseteq Live'
                      /\ \A i \in iter'[t].must \ iter'[t].seen : Awaits(bucket', key', iter'[t], i)
    BY DEF Complete
  <1>1. Live' = Live
    BY DEF Live, SetOf, Buckets
  <1>2. /\ iter[t].on /\ iter'[t].must = iter[t].must /\ iter'[t].seen = iter[t].seen
        /\ iter'[t].b = iter[t].b /\ iter'[t].nxt = iter[t].nxt
    OBVIOUS
  <1>3. iter[t].must \subseteq Live /\ \A i \in iter[t].must \ iter[t].seen : Awaits(bucket, key, iter[t], i)
    BY <1>2 DEF Complete
  <1>4. ASSUME NEW i \in iter[t].must \ iter[t].seen PROVE Awaits(bucket', key', iter'[t], i)
    <2>1. Awaits(bucket, key, iter[t], i)
      BY <1>3
    <2> QED
      BY <1>2, <2>1 DEF Awaits
  <1> QED
    BY <1>1, <1>2, <1>3, <1>4

LEMMA CompleteAdd ==
    ASSUME Inv, Complete, NEW t \in Thread, NEW k \in Key, Add(t, k)
    PROVE  Complete'
  <1>1. PICK i \in Item \ Live : bucket' = [bucket EXCEPT ![HashOf[k]] = <<i>> \o @]
                                 /\ key' = [key EXCEPT ![i] = k]
    BY DEF Add
  <1>2. iter' = iter
    BY DEF Add
  <1>3. Types /\ Lists
    BY DEF Inv
  <1>4. \A b \in Buckets : SetOf(bucket[b]) \subseteq SetOf(bucket'[b])
    BY <1>1, <1>3, ListsAdd
  <1>5. Live \subseteq Live'
    BY <1>4 DEF Live, Buckets
  <1>6. \A x \in Live : key'[x] = key[x]
    BY <1>1, <1>3, LiveItem DEF Types
  <1>7. ASSUME NEW b \in Buckets, NEW j, NEW x, Behind(bucket[b], j, x)
        PROVE  Behind(bucket'[b], j, x)
    <2>1. bucket[b] \in Seq(Item) /\ HashOf[k] \in Buckets
      BY <1>3, BucketOfKey DEF Types
    <2>2. CASE b = HashOf[k]
      <3>1. bucket'[b] = <<i>> \o bucket[b]
        BY <1>1, <1>3, <2>1, <2>2 DEF Types
      <3> QED
        BY <2>1, <3>1, <1>7, BehindAdd
    <2>3. CASE b # HashOf[k]
      <3>1. bucket'[b] = bucket[b]
        BY <1>1, <1>3, <2>1, <2>3 DEF Types
      <3> QED
        BY <3>1, <1>7
    <2> QED
      BY <2>2, <2>3
  <1> SUFFICES ASSUME NEW u \in Thread, iter[u].on
               PROVE  /\ iter[u].must \subseteq Live'
                      /\ \A x \in iter[u].must \ iter[u].seen : Awaits(bucket', key', iter'[u], x)
    BY <1>2 DEF Complete
  <1>8. iter[u].must \subseteq Live /\ \A x \in iter[u].must \ iter[u].seen : Awaits(bucket, key, iter[u], x)
    BY DEF Complete
  <1>9. iter[u].b \in Buckets
    BY <1>3 DEF Types, Iteration
  <1>10. ASSUME NEW x \in iter[u].must \ iter[u].seen PROVE Awaits(bucket', key', iter'[u], x)
    <2>1. Awaits(bucket, key, iter[u], x) /\ key'[x] = key[x]
      BY <1>6, <1>8
    <2> QED
      BY <2>1, <1>2, <1>7, <1>9 DEF Awaits
  <1> QED
    BY <1>5, <1>8, <1>10

LEMMA CompleteDelKey ==
    ASSUME Threads, Inv, Complete, NEW t \in Thread, NEW k \in Key, DelKey(t, k)
    PROVE  Complete'
  <1>1. PICK i \in Found(k) : count[i] = 0 /\ Delete(i)
    BY DEF DelKey
  <1>2. Types /\ Lists
    BY DEF Inv
  <1>3. i \in Live /\ i \in Item
    BY <1>1, <1>2, BucketOfKey, SetOfLive, LiveItem DEF Found
  <1>4. \A b \in Buckets : SetOf(bucket[b]) \ {i} \subseteq SetOf(bucket'[b])
    BY <1>1, <1>2, <1>3, ListsDelete
  <1>5. Live \ {i} \subseteq Live'
    BY <1>4 DEF Live, Buckets
  <1> DEFINE h == HashOf[key[i]]
             s == Unlinked(bucket[h], Place(i))
             new(u) == [iter[u] EXCEPT !.must = @ \ {i}, !.seen = @ \ {i}]
  <1>15. key' = [key EXCEPT ![i] = None]
    BY <1>1 DEF Delete
  <1>16. bucket' = [bucket EXCEPT ![h] = s]
    BY <1>1 DEF Delete
  <1>17. iter' = [u \in Thread |-> new(u)]
    BY <1>1 DEF Delete
  <1>6. \A x \in Live : x # i => key'[x] = key[x]
    BY <1>15, <1>2, LiveItem DEF Types
  <1>7. h \in Buckets /\ bucket[h] \in Seq(Item) /\ Place(i) \in 1 .. Len(bucket[h]) /\ bucket[h][Place(i)] = i
    BY <1>2, <1>3, LiveItem, PlaceOf
  <1>8. ASSUME NEW b \in Buckets, NEW j, NEW x, j # i, x # i, Behind(bucket[b], j, x)
        PROVE  Behind(bucket'[b], j, x)
    <2>1. CASE b = h
      <3>1. bucket'[b] = s
        BY <1>16, <1>2, <1>7, <2>1 DEF Types
      <3> HIDE DEF h
      <3> QED
        BY <1>7, <1>8, <2>1, <3>1, BehindUnlinked
    <2>2. CASE b # h
      <3> HIDE DEF s
      <3>1. bucket'[b] = bucket[b]
        BY <1>16, <1>2, <1>7, <2>2 DEF Types
      <3> QED
        BY <3>1, <1>8
    <2> QED
      BY <2>1, <2>2
  <1> HIDE DEF h, s
  <1>9. ASSUME NEW u \in Thread PROVE iter[u] \in Iteration /\ iter'[u] = new(u)
    BY <1>17, <1>2 DEF Types
  <1>10. ASSUME NEW u \in Thread
         PROVE  /\ iter'[u].must = iter[u].must \ {i} /\ iter'[u].seen = iter[u].seen \ {i}
                /\ iter'[u].missed = iter[u].missed /\ iter'[u].on = iter[u].on
                /\ iter'[u].b = iter[u].b /\ iter'[u].nxt = iter[u].nxt /\ iter[u].b \in Buckets
    BY <1>9 DEF Iteration
  <1> SUFFICES ASSUME NEW u \in Thread, iter[u].on
               PROVE  /\ iter'[u].must \subseteq Live'
                      /\ \A x \in iter'[u].must \ iter'[u].seen : Awaits(bucket', key', iter'[u], x)
    BY <1>10 DEF Complete
  <1>11. iter[u].must \subseteq Live /\ \A x \in iter[u].must \ iter[u].seen : Awaits(bucket, key, iter[u], x)
    BY DEF Complete
  <1>12. iter[u].nxt # i
    BY <1>1, <1>3, NotReferred
  <1>13. ASSUME NEW x \in iter'[u].must \ iter'[u].seen PROVE Awaits(bucket', key', iter'[u], x)
    <2>1. x # i /\ x \in iter[u].must \ iter[u].seen
      BY <1>10
    <2>2. Awaits(bucket, key, iter[u], x) /\ key'[x] = key[x]
      BY <1>6, <1>11, <2>1
    <2> QED
      BY <2>1, <2>2, <1>8, <1>10, <1>12 DEF Awaits
  <1> QED
    BY <1>5, <1>10, <1>11, <1>13

\* Going on with item i, when everything that is not visited is behind it.
LEMMA CompleteVisit ==
    ASSUME Types, Lists, Complete, NEW t \in Thread, NEW i \in Live \cup {None}, NEW C,
           NEW must \in SUBSET Live, NEW seen, Visit(t, i, C, must, seen), UNCHANGED <<bucket, key>>,
           \A x \in must \ seen : /\ i # None
                                  /\ \/ HashOf[key[x]] > HashOf[key[i]]
                                     \/ Behind(bucket[HashOf[key[i]]], i, x)
    PROVE  Complete'
  <1>1. \A u \in Thread \ {t} : iter'[u] = iter[u]
    BY DEF Visit, Types
  <1>2. Live' = Live
    BY DEF Live, SetOf, Buckets
  <1>3. ASSUME NEW u \in Thread \ {t}
        PROVE  /\ iter'[u].missed = {}
               /\ iter'[u].on => /\ iter'[u].must \subseteq Live'
                                 /\ \A x \in iter'[u].must \ iter'[u].seen :
                                       Awaits(bucket', key', iter'[u], x)
    <2>1. /\ iter[u].missed = {}
          /\ iter[u].on => /\ iter[u].must \subseteq Live
                           /\ \A x \in iter[u].must \ iter[u].seen : Awaits(bucket, key, iter[u], x)
      BY DEF Complete
    <2>2. \A x : Awaits(bucket, key, iter[u], x) => Awaits(bucket', key', iter'[u], x)
      BY <1>1 DEF Awaits
    <2> QED
      BY <1>1, <1>2, <2>1, <2>2
  <1>4. CASE i = None
    <2> DEFINE new == [NotIterating EXCEPT !.missed = must \ seen]
    <2>1. iter'[t] = new
      BY <1>4 DEF Visit, Types
    <2>2. must \ seen = {}
      BY <1>4
    <2>3. new.missed = {} /\ ~new.on
      BY <2>2 DEF NotIterating
    <2> HIDE DEF new
    <2> QED
      BY <1>3, <2>1, <2>3 DEF Complete
  <1>5. CASE i # None
    <2> DEFINE new == [on |-> TRUE, b |-> HashOf[key[i]], cur |-> i, nxt |-> After(i), held |-> TRUE,
                       loaded |-> -1, must |-> must, seen |-> seen \cup {i}, missed |-> {}]
    <2>1. iter'[t] = new
      BY <1>5 DEF Visit, Types
    <2>2. /\ new.missed = {} /\ new.must = must /\ new.seen = seen \cup {i}
          /\ new.b = HashOf[key[i]] /\ new.nxt = After(i)
      OBVIOUS
    <2> HIDE DEF new
    <2>3. ASSUME NEW x \in must \ (seen \cup {i}) PROVE Awaits(bucket', key', iter'[t], x)
      <3>1. CASE HashOf[key[x]] > HashOf[key[i]]
        BY <3>1, <2>1, <2>2 DEF Awaits
      <3>2. CASE Behind(bucket[HashOf[key[i]]], i, x)
        <4>1. After(i) # None /\ Behind(bucket[HashOf[key[i]]], After(i), x)
          BY <3>2, <1>5, BehindAfter
        <4> QED
          BY <4>1, <2>1, <2>2 DEF Awaits
      <3> QED
        BY <3>1, <3>2
    <2> QED
      BY <1>2, <1>3, <2>1, <2>2, <2>3 DEF Complete
  <1> QED
    BY <1>4, <1>5

LEMMA CompleteStart ==
    ASSUME Inv, Complete, NEW t \in Thread, IterStart(t)
    PROVE  Complete'
  <1>1. Types /\ Lists
    BY DEF Inv
  <1>2. FirstFrom(0) \in Live \cup {None} /\ Live \in SUBSET Live
    BY <1>1, FirstLive
  <1>3. ASSUME NEW x \in Live \ {}
        PROVE  /\ FirstFrom(0) # None
               /\ \/ HashOf[key[x]] > HashOf[key[FirstFrom(0)]]
                  \/ Behind(bucket[HashOf[key[FirstFrom(0)]]], FirstFrom(0), x)
    <2>1. HashOf[key[x]] >= 0
      BY <1>1, LiveItem, HashAssumption DEF Buckets
    <2> QED
      BY <2>1, <1>1, FirstOf
  <1>4. Visit(t, FirstFrom(0), count, Live, {}) /\ UNCHANGED <<bucket, key>>
    BY DEF IterStart
  <1> QED
    BY <1>1, <1>2, <1>3, <1>4, CompleteVisit

LEMMA CompleteKeep ==
    ASSUME Inv, Complete, NEW t \in Thread, IterKeep(t)
    PROVE  Complete'
  <1> DEFINE nxt == iter[t].nxt
             b == iter[t].b
             nextItem == IF nxt # None THEN nxt ELSE FirstFrom(b + 1)
  <1>1. Types /\ Lists /\ Referred
    BY DEF Inv
  <1>2. iter[t].on /\ UNCHANGED <<bucket, key>>
        /\ Visit(t, nextItem, Unpinned(t), iter[t].must, iter[t].seen)
    BY DEF IterKeep
  <1>3. b \in Buckets /\ b \in Nat /\ b + 1 \in Nat
    BY <1>1, HashAssumption DEF Types, Iteration, Buckets
  <1>4. /\ iter[t].must \in SUBSET Live
        /\ \A x \in iter[t].must \ iter[t].seen : Awaits(bucket, key, iter[t], x)
    BY <1>2 DEF Complete
  <1>5. CASE nxt # None
    <2>1. nxt \in SetOf(bucket[b]) /\ nxt \in Live
      BY <1>1, <1>3, <1>5, SetOfLive DEF Referred
    <2>2. HashOf[key[nxt]] = b
      BY <1>1, <1>3, <2>1 DEF Lists, SetOf
    <2>3. nextItem = nxt
      BY <1>5
    <2>4. \A x \in iter[t].must \ iter[t].seen :
             /\ nextItem # None
             /\ HashOf[key[x]] > HashOf[key[nextItem]] \/ Behind(bucket[HashOf[key[nextItem]]], nextItem, x)
      BY <1>4, <1>5, <2>2, <2>3 DEF Awaits
    <2>5. nextItem \in Live \cup {None}
      BY <2>1, <2>3
    <2> HIDE DEF nextItem, nxt, b
    <2> QED
      BY <1>1, <1>2, <1>4, <2>4, <2>5, CompleteVisit
  <1>6. CASE nxt = None
    <2>1. nextItem = FirstFrom(b + 1) /\ FirstFrom(b + 1) \in Live \cup {None}
      BY <1>1, <1>3, <1>6, FirstLive
    <2>2. ASSUME NEW x \in iter[t].must \ iter[t].seen
          PROVE  /\ nextItem # None
                 /\ HashOf[key[x]] > HashOf[key[nextItem]] \/ Behind(bucket[HashOf[key[nextItem]]], nextItem, x)
      <3>1. x \in Live /\ HashOf[key[x]] > b
        BY <1>4, <1>6 DEF Awaits
      <3>2. HashOf[key[x]] >= b + 1
        BY <3>1, <1>1, <1>3, LiveItem, HashAssumption DEF Buckets
      <3> HIDE DEF nextItem, nxt, b
      <3> QED
        BY <1>1, <1>3, <2>1, <3>1, <3>2, FirstOf
    <2> HIDE DEF nextItem, nxt, b
    <2> QED
      BY <1>1, <1>2, <1>4, <2>1, <2>2, CompleteVisit
  <1> QED
    BY <1>5, <1>6

LEMMA CompleteNext == ASSUME Threads, Inv, Complete, [Next]_vars PROVE Complete'
  <1>0. Types
    BY DEF Inv
  <1>1. \A t \in Thread : iter[t].missed = {}
    BY DEF Complete
  <1>2. ASSUME UNCHANGED <<bucket, key, iter>> PROVE Complete'
    BY <1>1, <1>2, CompleteKept
  <1>3. NotIterating.missed = {} /\ ~NotIterating.on
    BY DEF NotIterating
  <1>4. ASSUME NEW t \in Thread, UNCHANGED <<bucket, key>>, iter' = [iter EXCEPT ![t] = NotIterating]
        PROVE  Complete'
    <2>1. \A u \in Thread : iter'[u] = IF u = t THEN NotIterating ELSE iter[u]
      BY <1>0, <1>4 DEF Types
    <2>2. ASSUME NEW u \in Thread
          PROVE  /\ iter'[u].missed = {}
                 /\ iter'[u].on => /\ iter[u].on /\ iter'[u].must = iter[u].must
                                   /\ iter'[u].seen = iter[u].seen
                                   /\ iter'[u].b = iter[u].b /\ iter'[u].nxt = iter[u].nxt
      BY <1>1, <1>3, <2>1
    <2> QED
      BY <1>4, <2>2, CompleteKept
  <1>5. CASE Renew
    <2>1. iter' = iter /\ \A t \in Thread : ~iter[t].on
      BY <1>5 DEF Renew
    <2> QED
      BY <1>1, <2>1 DEF Complete
  <1>6. ASSUME NEW t \in Thread, Step(t) PROVE Complete'
    <2>1. ASSUME NEW k \in Key, Add(t, k) \/ DelKey(t, k) \/ AcquireBlob(t, k) PROVE Complete'
      <3>1. CASE AcquireBlob(t, k)
        BY <3>1, <1>2 DEF AcquireBlob
      <3> QED
        BY <2>1, <3>1, CompleteAdd, CompleteDelKey
    <2>2. CASE ReleaseBlob(t) \/ DelKeyFormBlob(t)
      <3>1. UNCHANGED <<bucket, key>> /\ Unreference(t)
        BY <2>2 DEF ReleaseBlob, DelKeyFormBlob
      <3>2. iter' = iter \/ iter' = [iter EXCEPT ![t].held = FALSE]
        BY <3>1 DEF Unreference
      <3>3. ASSUME NEW u \in Thread
            PROVE  /\ iter'[u].missed = iter[u].missed /\ iter'[u].on = iter[u].on
                   /\ iter'[u].must = iter[u].must /\ iter'[u].seen = iter[u].seen
                   /\ iter'[u].b = iter[u].b /\ iter'[u].nxt = iter[u].nxt
        <4>1. iter[u] \in Iteration
          BY <1>0 DEF Types
        <4>2. iter'[u] = iter[u] \/ iter'[u] = [iter[u] EXCEPT !.held = FALSE]
          BY <1>0, <3>2 DEF Types
        <4> QED
          BY <4>1, <4>2 DEF Iteration
      <3> QED
        BY <1>1, <3>1, <3>3, CompleteKept
    <2>3. CASE IterStart(t) \/ IterKeep(t)
      BY <2>3, CompleteStart, CompleteKeep
    <2>4. CASE IterExit(t) \/ StoreUnlocked(t)
      BY <2>4, <1>4 DEF IterExit, StoreUnlocked
    <2>5. CASE RelockFails(t)
      <3>1. UNCHANGED <<bucket, key>>
        BY <2>5 DEF RelockFails
      <3>2. CASE iter[t].nxt = None
        BY <3>1, <3>2, <2>5, <1>4 DEF RelockFails
      <3>3. CASE iter[t].nxt # None
        <4>1. iter' = [iter EXCEPT ![t] = [iter[t] EXCEPT !.loaded = count[iter[t].nxt]]]
          BY <3>3, <2>5 DEF RelockFails
        <4>2. ASSUME NEW u \in Thread
              PROVE  /\ iter'[u].missed = iter[u].missed /\ iter'[u].on = iter[u].on
                     /\ iter'[u].must = iter[u].must /\ iter'[u].seen = iter[u].seen
                     /\ iter'[u].b = iter[u].b /\ iter'[u].nxt = iter[u].nxt
          <5>1. iter[u] \in Iteration
            BY <1>0 DEF Types
          <5>2. iter'[u] = iter[u] \/ iter'[u] = [iter[u] EXCEPT !.loaded = count[iter[t].nxt]]
            BY <1>0, <4>1 DEF Types
          <5> QED
            BY <5>1, <5>2 DEF Iteration
        <4> QED
          BY <1>1, <3>1, <4>2, CompleteKept
      <3> QED
        BY <3>2, <3>3
    <2> QED
      BY <1>6, <2>1, <2>2, <2>3, <2>4, <2>5 DEF Step
  <1>7. CASE UNCHANGED vars
    BY <1>7, <1>2 DEF vars
  <1> QED
    BY <1>5, <1>6, <1>7 DEF Next

\* An iteration that is not cut short visits every item that was in the table
\* from its start to its end, whatever is added, deleted or released meanwhile,
\* by its own processor or by other threads.
THEOREM IterationsVisitAll == ASSUME Threads PROVE Spec => []VisitsAll
  <1>1. Init => Inv /\ Complete
    <2>1. Init => Complete
      BY DEF Init, Complete, NotIterating
    <2> QED
      BY <2>1, InvInit
  <1>2. Inv /\ Complete /\ [Next]_vars => Inv' /\ Complete'
    BY InvNext, CompleteNext
  <1>3. Complete => VisitsAll
    BY DEF Complete, VisitsAll
  <1> QED
    BY <1>1, <1>2, <1>3, PTL DEF Spec

-----------------------------------------------------------------------------
(* The values of the hash table *)

ValueTypes ==
    /\ heap \in [Block -> D!Contents \cup {Header, Unallocated}]
    /\ item \in [Name -> D!Items \cup {NoItem}]
    /\ last \in [Name -> D!Contents \cup {NoItem}]

\* A key with a blob is there.
Blob == held = NoItem \/ (held \in Name /\ item[held] # NoItem)

\* An item and its value are two blocks, which hold what they should.
Owns ==
    /\ \A k \in Name : item[k] = NoItem => last[k] = NoItem
    /\ \A k \in Name : item[k] # NoItem =>
        /\ item[k].node # item[k].v
        /\ heap[item[k].node] = Header
        /\ heap[item[k].v] = last[k]
        /\ last[k] \in D!Contents
        /\ item[k].v_len = Len(last[k])

\* No block belongs to two keys.
Apart ==
    \A j, k \in Name : j # k /\ item[j] # NoItem /\ item[k] # NoItem =>
        {item[j].node, item[j].v} \cap {item[k].node, item[k].v} = {}

\* No block is lost.
Tracked ==
    \A b \in Block : heap[b] # Unallocated =>
        \E k \in Name : item[k] # NoItem /\ b \in {item[k].node, item[k].v}

ValuesInv == ValueTypes /\ Blob /\ Owns /\ Apart /\ Tracked

-----------------------------------------------------------------------------
(* The steps.  Each leaves the blocks of the other keys alone, because a      *)
(* block that is not allocated is nobody's.                                   *)

LEMMA ValuesInvInit == D!DataInit => ValuesInv
  BY DEF D!DataInit, ValuesInv, ValueTypes, Blob, Owns, Apart, Tracked

\* A block that is not allocated belongs to no key.
LEMMA UnusedIsNobodys ==
    ASSUME D!DataAssumption, ValuesInv, NEW b \in D!Unused(heap), NEW k \in Name, item[k] # NoItem
    PROVE  b # item[k].node /\ b # item[k].v /\ b \in Block
  BY DEF D!DataAssumption, ValuesInv, Owns, D!Unused

\* What the types say of a key's item
LEMMA ItemShape ==
    ASSUME D!DataAssumption, ValuesInv, NEW k \in Name, item[k] # NoItem
    PROVE  item[k] \in D!Items /\ item[k].node \in Block /\ item[k].v \in Block
  BY DEF ValuesInv, ValueTypes, D!Items

\* In place: only the block of k's value changes.
LEMMA KeptInPlace ==
    ASSUME D!DataAssumption, ValuesInv, NEW k \in Name, item[k] # NoItem, NEW bytes \in D!Contents,
           item[k].v_len = Len(bytes), heap' = D!Stored(heap, item[k].v, bytes),
           last' = [last EXCEPT ![k] = bytes], UNCHANGED <<item, held>>
    PROVE  ValuesInv'
  <1>1. item[k].v \in Block /\ item[k].node \in Block
    BY ItemShape
  <1>2. ValueTypes'
    BY <1>1 DEF ValuesInv, ValueTypes, D!Stored
  <1>3. \A j \in Name : j # k /\ item[j] # NoItem =>
            heap'[item[j].node] = heap[item[j].node] /\ heap'[item[j].v] = heap[item[j].v]
    BY <1>1, ItemShape DEF ValuesInv, ValueTypes, Apart, D!Stored
  <1>4. heap'[item[k].node] = Header /\ heap'[item[k].v] = bytes
    BY <1>1 DEF ValuesInv, ValueTypes, Owns, D!Stored
  <1>5. Owns'
    BY <1>3, <1>4 DEF ValuesInv, ValueTypes, Owns
  <1>6. Apart'
    BY DEF ValuesInv, Apart
  <1>7. Tracked'
    BY <1>1 DEF ValuesInv, ValueTypes, Tracked, D!Stored
  <1>8. Blob'
    BY DEF ValuesInv, Blob
  <1> QED
    BY <1>2, <1>5, <1>6, <1>7, <1>8 DEF ValuesInv

\* In a new block: it was nobody's, and the old one is nobody's now.
LEMMA KeptInNewBlock ==
    ASSUME D!DataAssumption, ValuesInv, NEW k \in Name, item[k] # NoItem, NEW bytes \in D!Contents,
           NEW b \in D!Unused(heap), heap' = D!Freed(D!Stored(heap, b, bytes), item[k].v),
           item' = [item EXCEPT ![k].v = b, ![k].v_len = Len(bytes)],
           last' = [last EXCEPT ![k] = bytes], UNCHANGED held
    PROVE  ValuesInv'
  <1>1. /\ item[k] \in D!Items /\ item[k].v \in Block /\ item[k].node \in Block
        /\ b \in Block /\ b # item[k].node /\ b # item[k].v
        /\ item[k].node # item[k].v
    BY ItemShape, UnusedIsNobodys DEF ValuesInv, Owns
  <1>2. /\ item'[k] = [node |-> item[k].node, v |-> b, v_len |-> Len(bytes)]
        /\ item'[k].v = b /\ item'[k].node = item[k].node
        /\ item'[k] \in D!Items
        /\ \A j \in Name : j # k => item'[j] = item[j]
    BY <1>1 DEF ValuesInv, ValueTypes, D!Items
  <1>3. item' \in [Name -> D!Items \cup {NoItem}]
    BY <1>2 DEF ValuesInv, ValueTypes
  <1>4. /\ heap' \in [Block -> D!Contents \cup {Header, Unallocated}]
        /\ heap'[b] = bytes /\ heap'[item[k].v] = Unallocated
        /\ \A c \in Block : c # b /\ c # item[k].v => heap'[c] = heap[c]
    BY <1>1 DEF ValuesInv, ValueTypes, D!Stored, D!Freed
  <1>5. ValueTypes'
    BY <1>3, <1>4 DEF ValuesInv, ValueTypes
  <1>6. item'[k] # NoItem
    BY <1>2 DEF D!DataAssumption
  <1>7. \A j \in Name : j # k /\ item[j] # NoItem =>
            /\ item[j].node \in Block /\ item[j].v \in Block
            /\ b \notin {item[j].node, item[j].v}
            /\ {item[k].node, item[k].v} \cap {item[j].node, item[j].v} = {}
    BY ItemShape, UnusedIsNobodys DEF ValuesInv, Apart
  <1>8. Owns'
    <2> SUFFICES ASSUME NEW j \in Name
                 PROVE  /\ item'[j] = NoItem => last'[j] = NoItem
                        /\ item'[j] # NoItem =>
                            /\ item'[j].node # item'[j].v
                            /\ heap'[item'[j].node] = Header
                            /\ heap'[item'[j].v] = last'[j]
                            /\ last'[j] \in D!Contents
                            /\ item'[j].v_len = Len(last'[j])
      BY DEF Owns
    <2>1. CASE j = k
      <3>1. last'[k] = bytes
        BY DEF ValuesInv, ValueTypes
      <3>2. heap'[item[k].node] = Header
        BY <1>1, <1>4 DEF ValuesInv, Owns
      <3> QED
        BY <2>1, <1>1, <1>2, <1>4, <1>6, <3>1, <3>2
    <2>2. CASE j # k
      <3>1. item'[j] = item[j] /\ last'[j] = last[j]
        BY <2>2, <1>2 DEF ValuesInv, ValueTypes
      <3>2. item[j] # NoItem =>
                heap'[item[j].node] = heap[item[j].node] /\ heap'[item[j].v] = heap[item[j].v]
        BY <2>2, <1>4, <1>7
      <3> QED
        BY <3>1, <3>2 DEF ValuesInv, Owns
    <2> QED
      BY <2>1, <2>2
  <1>9. Apart'
    BY <1>2, <1>7 DEF ValuesInv, Apart
  <1>10. Tracked'
    <2> SUFFICES ASSUME NEW c \in Block, heap'[c] # Unallocated
                 PROVE  \E j \in Name : item'[j] # NoItem /\ c \in {item'[j].node, item'[j].v}
      BY DEF Tracked
    <2>1. CASE c = b
      <3>1. item'[k].v = c
        BY <2>1, <1>2
      <3> QED
        BY <3>1, <1>6
    <2>2. CASE c # b
      <3>1. c # item[k].v /\ heap[c] # Unallocated
        BY <2>2, <1>4
      <3>2. PICK j \in Name : item[j] # NoItem /\ c \in {item[j].node, item[j].v}
        BY <3>1 DEF ValuesInv, Tracked
      <3>3. CASE j = k
        <4>1. item'[k].node = c
          BY <3>1, <3>2, <3>3, <1>2
        <4> QED
          BY <4>1, <1>6
      <3>4. CASE j # k
        BY <3>2, <3>4, <1>2
      <3> QED
        BY <3>3, <3>4
    <2> QED
      BY <2>1, <2>2
  <1>11. Blob'
    BY <1>2, <1>6 DEF ValuesInv, Blob
  <1> QED
    BY <1>5, <1>8, <1>9, <1>10, <1>11 DEF ValuesInv

LEMMA KeptUnchanged == ValuesInv /\ UNCHANGED <<item, heap, last>> /\ Blob' => ValuesInv'
  BY DEF ValuesInv, ValueTypes, Blob, Owns, Apart, Tracked

LEMMA SetItemDataInv ==
    ASSUME D!DataAssumption, ValuesInv, NEW k \in Name, item[k] # NoItem, NEW bytes \in D!Contents,
           D!SetItemData(k, bytes), UNCHANGED held
    PROVE  ValuesInv'
  <1>1. CASE item[k].v_len = Len(bytes) /\ heap' = D!Stored(heap, item[k].v, bytes)
             /\ last' = [last EXCEPT ![k] = bytes] /\ UNCHANGED item
    BY <1>1, KeptInPlace
  <1>2. CASE /\ \E b \in D!Unused(heap) :
                   /\ heap' = D!Freed(D!Stored(heap, b, bytes), item[k].v)
                   /\ item' = [item EXCEPT ![k].v = b, ![k].v_len = Len(bytes)]
             /\ last' = [last EXCEPT ![k] = bytes]
    BY <1>2, KeptInNewBlock
  <1>3. CASE UNCHANGED <<item, heap, last>>
    BY <1>3, KeptUnchanged DEF ValuesInv, Blob
  <1> QED
    BY <1>1, <1>2, <1>3 DEF D!SetItemData

\* A new item, in two blocks that were nobody's
LEMMA KeptNewItem ==
    ASSUME D!DataAssumption, ValuesInv, NEW k \in Name, item[k] = NoItem, NEW bytes \in D!Contents,
           NEW b \in D!Unused(heap), NEW c \in D!Unused(D!Stored(heap, b, Header)),
           heap' = D!Stored(D!Stored(heap, b, Header), c, bytes),
           item' = [item EXCEPT ![k] = [node |-> b, v |-> c, v_len |-> Len(bytes)]],
           last' = [last EXCEPT ![k] = bytes], UNCHANGED held
    PROVE  ValuesInv'
  <1>1. b \in Block /\ c \in Block /\ b # c /\ c \in D!Unused(heap)
    BY DEF D!DataAssumption, ValuesInv, ValueTypes, D!Unused, D!Stored
  <1>2. /\ item'[k] = [node |-> b, v |-> c, v_len |-> Len(bytes)]
        /\ item'[k].node = b /\ item'[k].v = c /\ item'[k].v_len = Len(bytes)
        /\ item'[k] \in D!Items
        /\ \A j \in Name : j # k => item'[j] = item[j]
    BY <1>1 DEF ValuesInv, ValueTypes, D!Items
  <1>3. item'[k] # NoItem /\ item' \in [Name -> D!Items \cup {NoItem}]
    BY <1>2 DEF D!DataAssumption, ValuesInv, ValueTypes
  <1>4. /\ heap' \in [Block -> D!Contents \cup {Header, Unallocated}]
        /\ heap'[b] = Header /\ heap'[c] = bytes
        /\ \A d \in Block : d # b /\ d # c => heap'[d] = heap[d]
    BY <1>1 DEF ValuesInv, ValueTypes, D!Stored
  <1>5. ValueTypes' /\ Blob'
    BY <1>2, <1>3, <1>4 DEF ValuesInv, ValueTypes, Blob
  <1>6. \A j \in Name : item[j] # NoItem =>
            /\ item[j].node \in Block /\ item[j].v \in Block
            /\ {b, c} \cap {item[j].node, item[j].v} = {}
    BY <1>1, ItemShape, UnusedIsNobodys
  <1>7. Owns'
    <2> SUFFICES ASSUME NEW j \in Name
                 PROVE  /\ item'[j] = NoItem => last'[j] = NoItem
                        /\ item'[j] # NoItem =>
                            /\ item'[j].node # item'[j].v
                            /\ heap'[item'[j].node] = Header
                            /\ heap'[item'[j].v] = last'[j]
                            /\ last'[j] \in D!Contents
                            /\ item'[j].v_len = Len(last'[j])
      BY DEF Owns
    <2>1. CASE j = k
      <3>1. last'[k] = bytes
        BY DEF ValuesInv, ValueTypes
      <3> QED
        BY <2>1, <3>1, <1>1, <1>2, <1>3, <1>4
    <2>2. CASE j # k
      <3>1. item'[j] = item[j] /\ last'[j] = last[j]
        BY <2>2, <1>2 DEF ValuesInv, ValueTypes
      <3>2. item[j] # NoItem =>
                heap'[item[j].node] = heap[item[j].node] /\ heap'[item[j].v] = heap[item[j].v]
        BY <1>4, <1>6
      <3> QED
        BY <3>1, <3>2 DEF ValuesInv, Owns
    <2> QED
      BY <2>1, <2>2
  <1>8. Apart'
    BY <1>2, <1>6 DEF ValuesInv, Apart
  <1>9. Tracked'
    <2> SUFFICES ASSUME NEW d \in Block, heap'[d] # Unallocated
                 PROVE  \E j \in Name : item'[j] # NoItem /\ d \in {item'[j].node, item'[j].v}
      BY DEF Tracked
    <2>1. CASE d \in {b, c}
      <3>1. d \in {item'[k].node, item'[k].v}
        BY <2>1, <1>2
      <3> QED
        BY <3>1, <1>3
    <2>2. CASE d \notin {b, c}
      <3>1. heap[d] # Unallocated
        BY <2>2, <1>4
      <3>2. PICK j \in Name : item[j] # NoItem /\ d \in {item[j].node, item[j].v}
        BY <3>1 DEF ValuesInv, Tracked
      <3> QED
        BY <3>2, <1>2
    <2> QED
      BY <2>1, <2>2
  <1> QED
    BY <1>5, <1>7, <1>8, <1>9 DEF ValuesInv

LEMMA NewItemInv ==
    ASSUME D!DataAssumption, ValuesInv, NEW k \in Name, item[k] = NoItem, NEW bytes \in D!Contents,
           D!NewItem(k, bytes), UNCHANGED held
    PROVE  ValuesInv'
  <1>1. ASSUME NEW b \in D!Unused(heap),
               \E c \in D!Unused(D!Stored(heap, b, Header)) :
                   /\ heap' = D!Stored(D!Stored(heap, b, Header), c, bytes)
                   /\ item' = [item EXCEPT ![k] = [node |-> b, v |-> c, v_len |-> Len(bytes)]]
                   /\ last' = [last EXCEPT ![k] = bytes]
        PROVE  ValuesInv'
    BY <1>1, KeptNewItem
  <1>2. ASSUME NEW b \in D!Unused(heap),
               heap' = D!Freed(D!Stored(heap, b, Header), b), UNCHANGED <<item, last>>
        PROVE  ValuesInv'
    <2>1. heap' = heap
      BY <1>2 DEF ValuesInv, ValueTypes, D!Stored, D!Freed, D!Unused
    <2> QED
      BY <1>2, <2>1, KeptUnchanged DEF ValuesInv, Blob
  <1>3. CASE UNCHANGED <<item, heap, last>>
    BY <1>3, KeptUnchanged DEF ValuesInv, Blob
  <1> QED
    BY <1>1, <1>2, <1>3 DEF D!NewItem

LEMMA ValuesDelKeyInv ==
    ASSUME D!DataAssumption, ValuesInv, NEW k \in Name, D!DelKey(k)
    PROVE  ValuesInv'
  <1>1. /\ item[k] # NoItem /\ held # k /\ held' = held
        /\ heap' = D!Freed(D!Freed(heap, item[k].v), item[k].node)
        /\ item' = [item EXCEPT ![k] = NoItem]
        /\ last' = [last EXCEPT ![k] = NoItem]
    BY DEF D!DelKey
  <1>2. item[k].node \in Block /\ item[k].v \in Block
    BY <1>1, ItemShape
  <1>3. ValueTypes'
    BY <1>1, <1>2 DEF ValuesInv, ValueTypes, D!Freed
  <1>4. /\ item'[k] = NoItem /\ last'[k] = NoItem
        /\ \A j \in Name : j # k => item'[j] = item[j] /\ last'[j] = last[j]
    BY <1>1 DEF ValuesInv, ValueTypes
  <1>5. \A d \in Block : heap'[d] = IF d \in {item[k].node, item[k].v}
                                    THEN Unallocated ELSE heap[d]
    BY <1>1, <1>2 DEF ValuesInv, ValueTypes, D!Freed
  <1>6. \A j \in Name : j # k /\ item[j] # NoItem =>
            heap'[item[j].node] = heap[item[j].node] /\ heap'[item[j].v] = heap[item[j].v]
    BY <1>1, <1>5, ItemShape DEF ValuesInv, Apart
  <1>7. Owns'
    BY <1>4, <1>6 DEF ValuesInv, Owns
  <1>8. Apart' /\ Blob'
    BY <1>1, <1>4 DEF ValuesInv, Apart, Blob
  <1>9. Tracked'
    <2> SUFFICES ASSUME NEW d \in Block, heap'[d] # Unallocated
                 PROVE  \E j \in Name : item'[j] # NoItem /\ d \in {item'[j].node, item'[j].v}
      BY DEF Tracked
    <2>1. d \notin {item[k].node, item[k].v} /\ heap[d] # Unallocated
      BY <1>5
    <2>2. PICK j \in Name : item[j] # NoItem /\ d \in {item[j].node, item[j].v}
      BY <2>1 DEF ValuesInv, Tracked
    <2> QED
      BY <2>1, <2>2, <1>4
  <1> QED
    BY <1>3, <1>7, <1>8, <1>9 DEF ValuesInv

LEMMA ValuesRenewInv == ValuesInv /\ D!Renew => ValuesInv'
  <1> SUFFICES ASSUME ValuesInv, D!Renew PROVE ValuesInv'
    OBVIOUS
  <1>1. /\ held = NoItem /\ held' = held
        /\ item' = [k \in Name |-> NoItem] /\ last' = [k \in Name |-> NoItem]
        /\ heap' = [b \in Block |->
                       IF \E k \in Name : item[k] # NoItem /\ b \in {item[k].v, item[k].node}
                       THEN Unallocated ELSE heap[b]]
    BY DEF D!Renew
  <1>2. \A b \in Block : heap'[b] = Unallocated
    BY <1>1 DEF ValuesInv, Tracked
  <1>3. ValueTypes' /\ Blob'
    BY <1>1 DEF ValuesInv, ValueTypes, Blob
  <1> QED
    BY <1>1, <1>2, <1>3 DEF ValuesInv, Owns, Apart, Tracked

LEMMA ValuesInvNext == D!DataAssumption /\ ValuesInv /\ [D!DataNext]_(D!datavars) => ValuesInv'
  <1> SUFFICES ASSUME D!DataAssumption, ValuesInv, [D!DataNext]_(D!datavars) PROVE ValuesInv'
    OBVIOUS
  <1>1. ASSUME NEW k \in Name, NEW n \in 0..MaxLen, D!NewData(k, n) PROVE ValuesInv'
    <2>1. D!Zeros(n) \in D!Contents
      BY DEF D!Contents
    <2> QED
      BY <1>1, <2>1, NewItemInv DEF D!NewData
  <1>2. ASSUME NEW k \in Name, NEW bytes \in D!Datas, D!SetData(k, bytes) PROVE ValuesInv'
    <2>1. bytes \in D!Contents
      BY DEF D!Contents
    <2> QED
      BY <1>2, <2>1, SetItemDataInv, NewItemInv DEF D!SetData
  <1>3. ASSUME NEW k \in Name, D!DelKey(k) PROVE ValuesInv'
    BY <1>3, ValuesDelKeyInv
  <1>4. ASSUME NEW k \in Name, D!AcquireBlob(k) PROVE ValuesInv'
    BY <1>4, KeptUnchanged DEF D!AcquireBlob, Blob
  <1>5. ASSUME NEW bytes \in D!Datas, D!BlobSetData(bytes) PROVE ValuesInv'
    <2>1. bytes \in D!Contents /\ held \in Name /\ item[held] # NoItem /\ held' = held
      BY <1>5 DEF D!Contents, D!BlobSetData, ValuesInv, Blob
    <2> QED
      BY <1>5, <2>1, SetItemDataInv DEF D!BlobSetData
  <1>6. CASE D!Renew
    BY <1>6, ValuesRenewInv
  <1>7. CASE D!ReleaseBlob
    BY <1>7, KeptUnchanged DEF D!ReleaseBlob, Blob
  <1>8. CASE UNCHANGED D!datavars
    BY <1>8, KeptUnchanged DEF D!datavars, ValuesInv, Blob
  <1> QED
    BY <1>1, <1>2, <1>3, <1>4, <1>5, <1>6, <1>7, <1>8 DEF D!DataNext

-----------------------------------------------------------------------------

\* Wherever an allocation fails, every key keeps the value it was given last,
\* and no block is lost.
THEOREM ValuesSurvive == StoresSpec => []ValuesAreKept
  <1>1. ValuesInv => ValuesAreKept
    <2> SUFFICES ASSUME ValuesInv PROVE D!ValuesAreKept
      BY DEF ValuesAreKept
    <2> USE StoresAssumption
    <2>1. D!Unused(heap) = Block \ UNION {D!Blocks(k) : k \in Name}
      <3>1. \A b \in Block : heap[b] = Unallocated => \A k \in Name : b \notin D!Blocks(k)
        BY UnusedIsNobodys DEF D!Blocks, D!Unused
      <3>2. \A b \in Block : heap[b] # Unallocated => \E k \in Name : b \in D!Blocks(k)
        BY DEF D!Blocks, ValuesInv, Tracked
      <3> QED
        BY <3>1, <3>2 DEF D!Unused
    <2>2. \A j, k \in Name : j # k => D!Blocks(j) \cap D!Blocks(k) = {}
      BY DEF ValuesInv, Apart, D!Blocks
    <2> QED
      BY <2>1, <2>2 DEF D!ValuesAreKept, ValuesInv, Owns
  <1>2. StoresInit => ValuesInv
    BY ValuesInvInit DEF StoresInit
  <1>3. ValuesInv /\ [StoresNext]_<<part, vars, datavars, listvars, confvars>> => ValuesInv'
    <2> SUFFICES ASSUME ValuesInv, [StoresNext]_<<part, vars, datavars, listvars, confvars>>
                 PROVE  ValuesInv'
      OBVIOUS
    <2>1. D!DataNext \/ UNCHANGED D!datavars
      BY DEF StoresNext, Over, datavars, D!datavars
    <2> QED
      BY <2>1, StoresAssumption, ValuesInvNext
  <1> QED
    BY <1>1, <1>2, <1>3, PTL DEF StoresSpec

-----------------------------------------------------------------------------
(* The shared configuration *)

Places == S!Sections \cup {"none", "new", "idle", "unlocked", "saved"}

\* A truncated file is being written.
ConfigShape ==
    /\ table \in 0 .. MaxChanges /\ file \in 0 .. MaxChanges \cup {Torn} /\ made \in 0 .. MaxChanges
    /\ authors \in Seq(Author) /\ S!IsInjective(authors)
    /\ pc \in [Author -> Places]
    /\ rest \in [Author -> Seq(Author)]
    /\ known \in [Author -> 0 .. MaxChanges]
    /\ \A a \in Author : /\ pc[a] = "none" <=> a \notin S!ToSet(authors)
                         /\ rest[a] # <<>> => pc[a] = "telling"
    /\ file = Torn => \E a \in Author : pc[a] \in {"saving", "syncing"}

ConfigTypes == reload \in Reloads /\ dead \in BOOLEAN /\ ConfigShape

\* a has still to tell b what the table is.
WillTell(a, b) ==
    \/ pc[a] \in {"writing", "unlocked", "saving", "saved"}
    \/ pc[a] = "telling" /\ b \in S!ToSet(rest[a])

\* Whoever does not know the table will be told by somebody else.
Told == dead \/ reload \/ \A b \in S!ToSet(authors) :
    known[b] = table \/ \E a \in Author \ {b} : WillTell(a, b)

ConfigInv == ConfigTypes /\ S!AuthorsAreAlive /\ S!FileIsCurrent /\ Told

\* An author leaves the list it is on once.
LEMMA RemovedOf ==
    ASSUME NEW s \in Seq(Author), S!IsInjective(s), NEW e \in S!ToSet(s)
    PROVE  LET r == S!RemoveAt(s, CHOOSE i \in DOMAIN s : s[i] = e)
           IN  r \in Seq(Author) /\ S!IsInjective(r) /\ S!ToSet(r) = S!ToSet(s) \ {e}
  <1> DEFINE p == CHOOSE i \in DOMAIN s : s[i] = e
             r == S!RemoveAt(s, p)
             n == Len(s)
  <1>1. n \in Nat /\ DOMAIN s = 1 .. n /\ p \in 1 .. n /\ s[p] = e
    BY LenProperties DEF S!ToSet
  <1> HIDE DEF p
  <1> DEFINE x == SubSeq(s, 1, p - 1)
             y == SubSeq(s, p + 1, n)
  <1>2. /\ x \in Seq(Author) /\ Len(x) = p - 1
        /\ \A i \in 1 .. p - 1 : x[i] = s[i]
    <2>1. 1 \in 1 .. Len(s) + 1 /\ p - 1 \in 1 - 1 .. Len(s) /\ (p - 1) - 1 + 1 = p - 1
      BY <1>1
    <2>2. \A i \in 1 .. p - 1 : 1 + i - 1 = i
      BY <1>1
    <2> QED
      BY <2>1, <2>2, SubSeqProperties
  <1>3. /\ y \in Seq(Author) /\ Len(y) = n - p
        /\ \A i \in 1 .. n - p : y[i] = s[p + i]
    <2>1. p + 1 \in 1 .. Len(s) + 1 /\ n \in (p + 1) - 1 .. Len(s) /\ n - (p + 1) + 1 = n - p
      BY <1>1
    <2>2. \A i \in 1 .. n - p : (p + 1) + i - 1 = p + i
      BY <1>1
    <2> QED
      BY <2>1, <2>2, SubSeqProperties
  <1>4. /\ r \in Seq(Author) /\ Len(r) = n - 1
        /\ \A i \in 1 .. n - 1 : r[i] = IF i < p THEN s[i] ELSE s[i + 1]
    <2>1. r = x \o y
      BY DEF S!RemoveAt
    <2> HIDE DEF x, y, r, n
    <2>2. /\ r \in Seq(Author) /\ Len(r) = n - 1
          /\ \A i \in 1 .. n - 1 : r[i] = IF i <= p - 1 THEN x[i] ELSE y[i - (p - 1)]
      <3>1. (p - 1) + (n - p) = n - 1
        BY <1>1
      <3>2. /\ x \o y \in Seq(Author) /\ Len(x \o y) = Len(x) + Len(y)
            /\ \A i \in 1 .. Len(x) + Len(y) :
                  (x \o y)[i] = IF i <= Len(x) THEN x[i] ELSE y[i - Len(x)]
        BY <1>2, <1>3, ConcatProperties, Zenon
      <3> QED
        BY <3>1, <3>2, <2>1, <1>2, <1>3
    <2>3. ASSUME NEW i \in 1 .. n - 1 PROVE r[i] = IF i < p THEN s[i] ELSE s[i + 1]
      <3>1. CASE i < p
        BY <3>1, <2>2, <1>1, <1>2
      <3>2. CASE ~(i < p)
        <4>1. r[i] = y[i - (p - 1)] /\ i - (p - 1) \in 1 .. n - p /\ p + (i - (p - 1)) = i + 1
          BY <3>2, <2>2, <1>1
        <4>2. y[i - (p - 1)] = s[p + (i - (p - 1))]
          BY <4>1, <1>3
        <4> QED
          BY <3>2, <4>1, <4>2
      <3> QED
        BY <3>1, <3>2
    <2> QED
      BY <2>2, <2>3
  <1> HIDE DEF r
  <1>5. DOMAIN r = 1 .. n - 1
    BY <1>4, LenProperties
  <1>6. \A i, j \in 1 .. n : s[i] = s[j] => i = j
    BY <1>1 DEF S!IsInjective
  <1>7. S!IsInjective(r)
    <2> SUFFICES ASSUME NEW i \in 1 .. n - 1, NEW j \in 1 .. n - 1, r[i] = r[j] PROVE i = j
      BY <1>5 DEF S!IsInjective
    <2> DEFINE At(k) == IF k < p THEN k ELSE k + 1
    <2>1. At(i) \in 1 .. n /\ At(j) \in 1 .. n /\ r[i] = s[At(i)] /\ r[j] = s[At(j)]
      BY <1>1, <1>4
    <2>2. At(i) = At(j)
      BY <2>1, <1>6
    <2> QED
      BY <2>2, <1>1
  <1>8. S!ToSet(r) \subseteq S!ToSet(s) \ {e}
    <2> SUFFICES ASSUME NEW i \in 1 .. n - 1 PROVE r[i] \in S!ToSet(s) /\ r[i] # e
      BY <1>5 DEF S!ToSet
    <2> DEFINE k == IF i < p THEN i ELSE i + 1
    <2>1. k \in 1 .. n /\ k # p /\ r[i] = s[k]
      BY <1>1, <1>4
    <2> HIDE DEF k
    <2> QED
      BY <2>1, <1>1, <1>6 DEF S!ToSet
  <1>9. S!ToSet(s) \ {e} \subseteq S!ToSet(r)
    <2> SUFFICES ASSUME NEW k \in 1 .. n, s[k] # e PROVE s[k] \in S!ToSet(r)
      BY <1>1 DEF S!ToSet
    <2> DEFINE i == IF k < p THEN k ELSE k - 1
    <2>1. i \in 1 .. n - 1 /\ r[i] = s[k]
      <3>1. k # p
        BY <1>1
      <3>2. CASE k < p
        BY <3>2, <1>1, <1>4
      <3>3. CASE k > p
        <4>1. k - 1 \in 1 .. n - 1 /\ ~(k - 1 < p) /\ (k - 1) + 1 = k
          BY <3>3, <1>1
        <4>2. r[k - 1] = s[(k - 1) + 1]
          BY <4>1, <1>4
        <4> QED
          BY <3>3, <4>1, <4>2, <1>1
      <3> QED
        BY <3>1, <3>2, <3>3, <1>1
    <2> HIDE DEF i
    <2> QED
      BY <2>1, <1>5 DEF S!ToSet
  <1> QED
    BY <1>4, <1>7, <1>8, <1>9 DEF r, p

LEMMA AppendedOf ==
    ASSUME NEW s \in Seq(Author), S!IsInjective(s), NEW e \in Author, e \notin S!ToSet(s)
    PROVE  /\ Append(s, e) \in Seq(Author) /\ S!IsInjective(Append(s, e))
           /\ S!ToSet(Append(s, e)) = S!ToSet(s) \cup {e}
  <1> DEFINE r == Append(s, e)
             n == Len(s)
  <1>1. /\ n \in Nat /\ DOMAIN s = 1 .. n /\ DOMAIN r = 1 .. n + 1 /\ r \in Seq(Author)
        /\ r[n + 1] = e /\ \A i \in 1 .. n : r[i] = s[i]
    BY LenProperties, AppendProperties
  <1> HIDE DEF r, n
  <1>2. \A i \in 1 .. n : s[i] # e
    BY <1>1 DEF S!ToSet
  <1>3. S!IsInjective(r)
    <2> SUFFICES ASSUME NEW i \in 1 .. n + 1, NEW j \in 1 .. n + 1, r[i] = r[j] PROVE i = j
      BY <1>1 DEF S!IsInjective
    <2>1. CASE i = n + 1 \/ j = n + 1
      BY <2>1, <1>1, <1>2
    <2>2. CASE i # n + 1 /\ j # n + 1
      BY <2>2, <1>1 DEF S!IsInjective
    <2> QED
      BY <2>1, <2>2
  <1>4. S!ToSet(r) = S!ToSet(s) \cup {e}
    <2>1. S!ToSet(r) \subseteq S!ToSet(s) \cup {e}
      <3> SUFFICES ASSUME NEW i \in 1 .. n + 1 PROVE r[i] \in S!ToSet(s) \cup {e}
        BY <1>1 DEF S!ToSet
      <3> QED
        BY <1>1 DEF S!ToSet
    <2>2. e \in S!ToSet(r)
      <3>1. n + 1 \in DOMAIN r
        BY <1>1
      <3> QED
        BY <3>1, <1>1 DEF S!ToSet
    <2>3. S!ToSet(s) \subseteq S!ToSet(r)
      <3> SUFFICES ASSUME NEW i \in 1 .. n PROVE s[i] \in S!ToSet(r)
        BY <1>1 DEF S!ToSet
      <3>1. i \in DOMAIN r /\ r[i] = s[i]
        BY <1>1
      <3> QED
        BY <3>1 DEF S!ToSet
    <2> QED
      BY <2>1, <2>2, <2>3
  <1> QED
    BY <1>1, <1>3, <1>4 DEF r

LEMMA GoTo ==
    ASSUME pc \in [Author -> Places], NEW a \in Author, NEW from, NEW to \in Places,
           S!Go(a, from, to)
    PROVE  /\ pc' \in [Author -> Places] /\ pc[a] = from /\ pc'[a] = to
           /\ \A b \in Author \ {a} : pc'[b] = pc[b]
  BY DEF S!Go

LEMMA TailOf ==
    ASSUME NEW s \in Seq(Author), s # <<>>
    PROVE  /\ Head(s) \in S!ToSet(s) /\ Tail(s) \in Seq(Author)
           /\ S!ToSet(Tail(s)) \subseteq S!ToSet(s)
           /\ S!ToSet(s) = S!ToSet(Tail(s)) \cup {Head(s)}
  <1>1. /\ Head(s) = s[1] /\ Len(s) \in Nat /\ Len(s) >= 1 /\ DOMAIN s = 1 .. Len(s)
        /\ Tail(s) \in Seq(Author) /\ DOMAIN Tail(s) = 1 .. Len(s) - 1
        /\ \A i \in 1 .. Len(s) - 1 : Tail(s)[i] = s[i + 1]
    BY HeadTailProperties, LenProperties, EmptySeq
  <1>2. Head(s) \in S!ToSet(s)
    <2>1. 1 \in DOMAIN s
      BY <1>1
    <2> QED
      BY <2>1, <1>1 DEF S!ToSet
  <1>3. S!ToSet(Tail(s)) \subseteq S!ToSet(s)
    <2> SUFFICES ASSUME NEW i \in 1 .. Len(s) - 1 PROVE s[i + 1] \in S!ToSet(s)
      BY <1>1 DEF S!ToSet
    <2>1. i + 1 \in DOMAIN s
      BY <1>1
    <2> QED
      BY <2>1 DEF S!ToSet
  <1>4. S!ToSet(s) \subseteq S!ToSet(Tail(s)) \cup {Head(s)}
    <2> SUFFICES ASSUME NEW i \in 1 .. Len(s), i # 1 PROVE s[i] \in S!ToSet(Tail(s))
      BY <1>1 DEF S!ToSet
    <2>1. i - 1 \in 1 .. Len(s) - 1 /\ (i - 1) + 1 = i
      BY <1>1
    <2>2. Tail(s)[i - 1] = s[i] /\ i - 1 \in DOMAIN Tail(s)
      BY <2>1, <1>1
    <2> QED
      BY <2>2 DEF S!ToSet
  <1> QED
    BY <1>1, <1>2, <1>3, <1>4

LEMMA ConfigInvInit == S!Init => ConfigInv
  <1> SUFFICES ASSUME S!Init PROVE ConfigInv
    OBVIOUS
  <1>1. authors = <<>> /\ S!ToSet(authors) = {} /\ S!IsInjective(authors) /\ authors \in Seq(Author)
    BY DEF S!Init, S!ToSet, S!IsInjective
  <1>2. ConfigShape
    BY <1>1, StoresAssumption DEF S!Init, ConfigShape, Places, S!SconfigAssumption
  <1>3. ConfigTypes
    BY <1>2 DEF ConfigTypes, S!Init
  <1>4. S!AuthorsAreAlive
    BY <1>1 DEF S!AuthorsAreAlive, S!Init
  <1>5. S!FileIsCurrent
    BY DEF S!FileIsCurrent, S!Init
  <1>6. Told
    BY <1>1 DEF Told
  <1> QED
    BY <1>3, <1>4, <1>5, <1>6 DEF ConfigInv

\* A step that only goes on, and leaves the file and what is to be told alone.
LEMMA ShapeGo ==
    ASSUME ConfigShape, NEW a \in Author, NEW from, NEW to \in Places \ {"none"},
           from \notin {"none", "saving", "syncing", "telling"}, S!Go(a, from, to),
           UNCHANGED <<table, file, made, authors, rest>>, known' \in [Author -> 0 .. MaxChanges]
    PROVE  ConfigShape'
  <1>1. /\ pc' \in [Author -> Places] /\ pc[a] = from /\ pc'[a] = to
        /\ \A b \in Author \ {a} : pc'[b] = pc[b]
    BY GoTo DEF ConfigShape
  <1>2. file' = Torn => \E b \in Author : pc'[b] \in {"saving", "syncing"}
    BY <1>1 DEF ConfigShape
  <1>3. \A b \in Author : /\ pc'[b] = "none" <=> b \notin S!ToSet(authors')
                          /\ rest'[b] # <<>> => pc'[b] = "telling"
    BY <1>1 DEF ConfigShape
  <1> QED
    BY <1>1, <1>2, <1>3 DEF ConfigShape

LEMMA ShapeStep ==
    ASSUME ConfigShape, NEW a \in Author, S!Step(a)
    PROVE  ConfigShape'
  <1>1. /\ table \in 0 .. MaxChanges /\ file \in 0 .. MaxChanges \cup {Torn}
        /\ made \in 0 .. MaxChanges /\ MaxChanges \in Nat
        /\ authors \in Seq(Author) /\ S!IsInjective(authors)
        /\ pc \in [Author -> Places] /\ rest \in [Author -> Seq(Author)]
        /\ known \in [Author -> 0 .. MaxChanges]
        /\ file = Torn => \E b \in Author : pc[b] \in {"saving", "syncing"}
    BY StoresAssumption DEF ConfigShape, S!SconfigAssumption
  <1>2. \A b \in Author : /\ pc[b] = "none" <=> b \notin S!ToSet(authors)
                          /\ rest[b] # <<>> => pc[b] = "telling"
    BY DEF ConfigShape
  <1>3. S!Free => file # Torn
    BY <1>1 DEF S!Free, S!Sections
  <1>4. CASE S!SetCallback(a) \/ S!ReadBegin(a) \/ S!ReadEnd(a) \/ S!WriteBegin(a) \/ S!WriteEnd(a)
    <2>1. known' \in [Author -> 0 .. MaxChanges] /\ UNCHANGED <<table, file, made, authors, rest>>
      BY <1>1, <1>4 DEF S!SetCallback, S!ReadBegin, S!ReadEnd, S!WriteBegin, S!WriteEnd
    <2>2. \E from \in {"new", "idle", "reading", "writing"}, to \in {"idle", "reading", "writing", "unlocked"} :
             S!Go(a, from, to)
      BY <1>4 DEF S!SetCallback, S!ReadBegin, S!ReadEnd, S!WriteBegin, S!WriteEnd
    <2> QED
      BY <2>1, <2>2, ShapeGo DEF Places, S!Sections
  <1>5. CASE S!Construct(a)
    <2>1. /\ S!Go(a, "none", "new") /\ authors' = Append(authors, a)
          /\ known' \in [Author -> 0 .. MaxChanges] /\ UNCHANGED <<table, file, made, rest>>
      BY <1>1, <1>5 DEF S!Construct
    <2>2. /\ pc' \in [Author -> Places] /\ pc[a] = "none" /\ pc'[a] = "new"
          /\ \A b \in Author \ {a} : pc'[b] = pc[b]
      BY <1>1, <2>1, GoTo DEF Places
    <2>3. /\ authors' \in Seq(Author) /\ S!IsInjective(authors)'
          /\ S!ToSet(authors') = S!ToSet(authors) \cup {a}
      <3>1. S!IsInjective(authors') = S!IsInjective(authors)'
        BY DEF S!IsInjective
      <3> QED
        BY <1>1, <1>2, <2>1, <2>2, <3>1, AppendedOf
    <2>4. file' = Torn => \E b \in Author : pc'[b] \in {"saving", "syncing"}
      BY <1>1, <2>1, <2>2
    <2>5. \A b \in Author : /\ pc'[b] = "none" <=> b \notin S!ToSet(authors')
                            /\ rest'[b] # <<>> => pc'[b] = "telling"
      BY <1>2, <2>1, <2>2, <2>3
    <2> QED
      BY <1>1, <2>1, <2>2, <2>3, <2>4, <2>5 DEF ConfigShape
  <1>6. CASE S!Destroy(a)
    <2>1. /\ S!Go(a, "idle", "none")
          /\ authors' = S!RemoveAt(authors, CHOOSE i \in DOMAIN authors : authors[i] = a)
          /\ known' \in [Author -> 0 .. MaxChanges] /\ UNCHANGED <<table, file, made, rest>>
      BY <1>1, <1>6 DEF S!Destroy
    <2>2. /\ pc' \in [Author -> Places] /\ pc[a] = "idle" /\ pc'[a] = "none"
          /\ \A b \in Author \ {a} : pc'[b] = pc[b]
      BY <1>1, <2>1, GoTo DEF Places
    <2>3. /\ authors' \in Seq(Author) /\ S!IsInjective(authors)'
          /\ S!ToSet(authors') = S!ToSet(authors) \ {a}
      <3>1. S!IsInjective(authors') = S!IsInjective(authors)'
        BY DEF S!IsInjective
      <3> QED
        BY <1>1, <1>2, <2>1, <2>2, <3>1, RemovedOf
    <2>4. file' = Torn => \E b \in Author : pc'[b] \in {"saving", "syncing"}
      BY <1>1, <2>1, <2>2
    <2>5. \A b \in Author : /\ pc'[b] = "none" <=> b \notin S!ToSet(authors')
                            /\ rest'[b] # <<>> => pc'[b] = "telling"
      BY <1>2, <2>1, <2>2, <2>3
    <2> QED
      BY <1>1, <2>1, <2>2, <2>3, <2>4, <2>5 DEF ConfigShape
  <1>7. CASE S!Change(a)
    <2>1. made + 1 \in 0 .. MaxChanges
      BY <1>1, <1>7 DEF S!Change
    <2>2. /\ made' = made + 1 /\ table' = made' /\ known' = [known EXCEPT ![a] = table']
          /\ UNCHANGED <<file, authors, pc, rest>>
      BY <1>7 DEF S!Change
    <2> QED
      BY <1>1, <1>2, <2>1, <2>2 DEF ConfigShape
  <1>8. CASE S!OpenFile(a)
    <2>1. /\ S!Go(a, "unlocked", "saving") \/ S!Go(a, "idle", "syncing")
          /\ file' = Torn /\ UNCHANGED <<table, made, authors, rest, known>>
      BY <1>8 DEF S!OpenFile
    <2>2. /\ pc' \in [Author -> Places] /\ pc'[a] \in {"saving", "syncing"} /\ pc[a] \in {"unlocked", "idle"}
          /\ \A b \in Author \ {a} : pc'[b] = pc[b]
      BY <1>1, <2>1, GoTo DEF Places, S!Sections
    <2>3. \A b \in Author : /\ pc'[b] = "none" <=> b \notin S!ToSet(authors')
                            /\ rest'[b] # <<>> => pc'[b] = "telling"
      BY <1>2, <2>1, <2>2
    <2> QED
      BY <1>1, <2>1, <2>2, <2>3 DEF ConfigShape
  <1>9. CASE S!OpenFails(a)
    BY <1>9 DEF S!OpenFails, ConfigShape
  <1>10. CASE S!SaveFile(a)
    <2>1. /\ S!Go(a, "saving", "saved") \/ S!Go(a, "syncing", "idle")
          /\ file' = table /\ UNCHANGED <<table, made, authors, rest, known>>
      BY <1>10 DEF S!SaveFile
    <2>2. /\ pc' \in [Author -> Places] /\ pc'[a] \in {"saved", "idle"} /\ pc[a] \in {"saving", "syncing"}
          /\ \A b \in Author \ {a} : pc'[b] = pc[b]
      BY <1>1, <2>1, GoTo DEF Places
    <2>3. \A b \in Author : /\ pc'[b] = "none" <=> b \notin S!ToSet(authors')
                            /\ rest'[b] # <<>> => pc'[b] = "telling"
      BY <1>2, <2>1, <2>2
    <2>4. file' # Torn
      BY <1>1, <2>1, StoresAssumption DEF S!SconfigAssumption
    <2> QED
      BY <1>1, <2>1, <2>2, <2>3, <2>4 DEF ConfigShape
  <1>11. CASE S!TellBegin(a)
    <2>1. /\ S!Go(a, "saved", "telling") /\ rest' = [rest EXCEPT ![a] = authors]
          /\ UNCHANGED <<table, file, made, authors, known>>
      BY <1>11 DEF S!TellBegin
    <2>2. /\ pc' \in [Author -> Places] /\ pc'[a] = "telling" /\ pc[a] = "saved"
          /\ \A b \in Author \ {a} : pc'[b] = pc[b]
      BY <1>1, <2>1, GoTo DEF Places, S!Sections
    <2>3. file' = Torn => \E b \in Author : pc'[b] \in {"saving", "syncing"}
      BY <1>1, <2>1, <2>2
    <2>4. \A b \in Author : /\ pc'[b] = "none" <=> b \notin S!ToSet(authors')
                            /\ rest'[b] # <<>> => pc'[b] = "telling"
      BY <1>1, <1>2, <2>1, <2>2
    <2> QED
      BY <1>1, <2>1, <2>2, <2>3, <2>4 DEF ConfigShape
  <1>12. CASE S!Tell(a)
    <2>1. /\ pc[a] = "telling" /\ rest[a] # <<>> /\ rest' = [rest EXCEPT ![a] = Tail(@)]
          /\ UNCHANGED <<table, file, made, authors, pc>>
      BY <1>12 DEF S!Tell
    <2>2. rest' \in [Author -> Seq(Author)] /\ \A b \in Author \ {a} : rest'[b] = rest[b]
      BY <1>1, <2>1, TailOf
    <2>3. known' \in [Author -> 0 .. MaxChanges]
      BY <1>1, <1>12 DEF S!Tell
    <2>4. \A b \in Author : /\ pc'[b] = "none" <=> b \notin S!ToSet(authors')
                            /\ rest'[b] # <<>> => pc'[b] = "telling"
      BY <1>2, <2>1, <2>2
    <2> QED
      BY <1>1, <2>1, <2>2, <2>3, <2>4 DEF ConfigShape
  <1>13. CASE S!TellEnd(a)
    <2>1. /\ S!Go(a, "telling", "idle") /\ rest[a] = <<>>
          /\ UNCHANGED <<table, file, made, authors, rest, known>>
      BY <1>13 DEF S!TellEnd
    <2>2. /\ pc' \in [Author -> Places] /\ pc'[a] = "idle" /\ pc[a] = "telling"
          /\ \A b \in Author \ {a} : pc'[b] = pc[b]
      BY <1>1, <2>1, GoTo DEF Places
    <2>3. file' = Torn => \E b \in Author : pc'[b] \in {"saving", "syncing"}
      BY <1>1, <2>1, <2>2
    <2>4. \A b \in Author : /\ pc'[b] = "none" <=> b \notin S!ToSet(authors')
                            /\ rest'[b] # <<>> => pc'[b] = "telling"
      BY <1>2, <2>1, <2>2
    <2> QED
      BY <1>1, <2>1, <2>2, <2>3, <2>4 DEF ConfigShape
  <1>14. CASE S!ParseFile(a)
    <2>1. table' = file /\ file # Torn /\ UNCHANGED <<file, made, authors, pc, rest, known>>
      BY <1>3, <1>14 DEF S!ParseFile
    <2> QED
      BY <1>1, <1>2, <2>1 DEF ConfigShape
  <1> QED
    BY <1>4, <1>5, <1>6, <1>7, <1>8, <1>9, <1>10, <1>11, <1>12, <1>13, <1>14 DEF S!Step

LEMMA ConfigTypesStep ==
    ASSUME ConfigTypes, NEW a \in Author, S!Step(a)
    PROVE  ConfigTypes'
  <1>1. ConfigShape'
    BY ShapeStep DEF ConfigTypes
  <1>2. reload' = reload
    BY DEF S!Step, S!Construct, S!SetCallback, S!Destroy, S!ReadBegin, S!ReadEnd, S!WriteBegin,
           S!Change, S!WriteEnd, S!OpenFile, S!OpenFails, S!SaveFile, S!TellBegin, S!Tell,
           S!TellEnd, S!ParseFile
  <1>3. CASE S!Tell(a)
    <2>1. dead' \in BOOLEAN
      BY <1>3 DEF S!Tell
    <2> QED
      BY <1>1, <1>2, <2>1 DEF ConfigTypes
  <1>4. CASE ~S!Tell(a)
    <2>1. dead' = dead \/ dead' = TRUE
      BY <1>4 DEF S!Step, S!Construct, S!SetCallback, S!Destroy, S!ReadBegin, S!ReadEnd, S!WriteBegin,
             S!Change, S!WriteEnd, S!OpenFile, S!OpenFails, S!SaveFile, S!TellBegin,
             S!TellEnd, S!ParseFile
    <2> QED
      BY <1>1, <1>2, <2>1 DEF ConfigTypes
  <1> QED
    BY <1>3, <1>4

\* Nobody is destroyed while somebody is being told.
LEMMA AliveStep ==
    ASSUME ConfigTypes, S!AuthorsAreAlive, NEW a \in Author, S!Step(a)
    PROVE  S!AuthorsAreAlive'
  <1>1. /\ authors \in Seq(Author) /\ S!IsInjective(authors) /\ pc \in [Author -> Places]
        /\ rest \in [Author -> Seq(Author)]
        /\ \A b \in Author : /\ pc[b] = "none" <=> b \notin S!ToSet(authors)
                             /\ rest[b] # <<>> => pc[b] = "telling"
    BY DEF ConfigTypes, ConfigShape
  <1>2. \A b \in Author : S!ToSet(rest[b]) \subseteq S!ToSet(authors)
    BY DEF S!AuthorsAreAlive
  <1> SUFFICES ASSUME NEW b \in Author PROVE S!ToSet(rest'[b]) \subseteq S!ToSet(authors')
    BY DEF S!AuthorsAreAlive, S!ToSet
  <1>3. CASE S!Construct(a)
    <2>1. S!ToSet(authors') = S!ToSet(authors) \cup {a} /\ rest' = rest
      BY <1>1, <1>3, AppendedOf DEF S!Construct, S!Go
    <2> QED
      BY <1>2, <2>1
  <1>4. CASE S!Destroy(a)
    <2>1. S!Free /\ rest' = rest
      BY <1>4 DEF S!Destroy
    <2>2. rest[b] = <<>>
      BY <1>1, <2>1 DEF S!Free, S!Sections
    <2>3. S!ToSet(rest'[b]) = {}
      BY <2>1, <2>2 DEF S!ToSet
    <2> QED
      BY <2>3
  <1>5. CASE S!TellBegin(a)
    BY <1>1, <1>2, <1>5 DEF S!TellBegin
  <1>6. CASE S!Tell(a)
    <2>1. rest[a] # <<>> /\ rest' = [rest EXCEPT ![a] = Tail(@)] /\ authors' = authors
      BY <1>6 DEF S!Tell
    <2>2. rest[a] \in Seq(Author)
      BY <1>1
    <2>3. S!ToSet(Tail(rest[a])) \subseteq S!ToSet(rest[a])
      BY <2>1, <2>2, TailOf
    <2> QED
      BY <1>1, <1>2, <2>1, <2>3
  <1>7. CASE UNCHANGED <<authors, rest>>
    BY <1>2, <1>7
  <1> QED
    BY <1>3, <1>4, <1>5, <1>6, <1>7
       DEF S!Step, S!SetCallback, S!ReadBegin, S!ReadEnd, S!WriteBegin, S!Change, S!WriteEnd,
           S!OpenFile, S!OpenFails, S!SaveFile, S!TellEnd, S!ParseFile

\* Whoever changes the table or truncates the file is still to save.
LEMMA CurrentStep ==
    ASSUME ConfigTypes, S!FileIsCurrent, ~dead, NEW a \in Author, S!Step(a)
    PROVE  S!FileIsCurrent'
  <1> DEFINE unsaved == {"writing", "unlocked", "saving", "syncing"}
  <1>1. pc \in [Author -> Places]
    BY DEF ConfigTypes, ConfigShape
  <1>2. (\A b \in Author : pc[b] \notin unsaved) => file = table
    BY DEF S!FileIsCurrent, S!Somebody
  <1> SUFFICES ASSUME \A b \in Author : pc'[b] \notin unsaved PROVE file' = table'
    BY DEF S!FileIsCurrent, S!Somebody
  <1>3. CASE S!SaveFile(a)
    BY <1>3 DEF S!SaveFile
  <1>4. CASE S!ParseFile(a)
    BY <1>4 DEF S!ParseFile
  <1>5. CASE S!Change(a)
    BY <1>5 DEF S!Change
  <1>6. CASE S!OpenFile(a)
    BY <1>1, <1>6 DEF S!OpenFile, S!Go
  <1>7. CASE S!OpenFails(a)
    BY <1>7 DEF S!OpenFails
  <1>8. ASSUME NEW from \in Places \ unsaved, NEW to, S!Go(a, from, to),
               UNCHANGED <<table, file>>
        PROVE  file' = table'
    <2>1. pc[a] = from /\ \A b \in Author \ {a} : pc'[b] = pc[b]
      BY <1>1, <1>8 DEF S!Go
    <2>2. \A b \in Author : pc[b] \notin unsaved
      BY <1>8, <2>1
    <2> QED
      BY <1>2, <1>8, <2>2
  <1>9. CASE S!Tell(a)
    BY <1>2, <1>9 DEF S!Tell
  <1>10. CASE S!WriteEnd(a)
    BY <1>1, <1>10 DEF S!WriteEnd, S!Go
  <1>11. CASE \/ S!Construct(a) \/ S!SetCallback(a) \/ S!Destroy(a) \/ S!ReadBegin(a) \/ S!ReadEnd(a)
              \/ S!WriteBegin(a) \/ S!TellBegin(a) \/ S!TellEnd(a)
    <2>1. UNCHANGED <<table, file>>
      BY <1>11 DEF S!Construct, S!SetCallback, S!Destroy, S!ReadBegin, S!ReadEnd, S!WriteBegin,
                   S!TellBegin, S!TellEnd
    <2>2. \E from \in Places \ unsaved : \E to : S!Go(a, from, to)
      BY <1>11 DEF S!Construct, S!SetCallback, S!Destroy, S!ReadBegin, S!ReadEnd, S!WriteBegin,
                   S!TellBegin, S!TellEnd, Places, S!Sections
    <2> QED
      BY <2>1, <2>2, <1>8
  <1> QED
    BY <1>3, <1>4, <1>5, <1>6, <1>7, <1>9, <1>10, <1>11 DEF S!Step

\* A writer goes on until it has told everyone else.
LEMMA ToldStep ==
    ASSUME ConfigTypes, Told, ~dead, NEW a \in Author, S!Step(a)
    PROVE  Told'
  <1>1. /\ authors \in Seq(Author) /\ S!IsInjective(authors) /\ pc \in [Author -> Places]
        /\ rest \in [Author -> Seq(Author)] /\ known \in [Author -> 0 .. MaxChanges]
        /\ \A b \in Author : pc[b] = "none" <=> b \notin S!ToSet(authors)
    BY DEF ConfigTypes, ConfigShape
  <1>2. reload' = reload
    BY DEF S!Step, S!Construct, S!SetCallback, S!Destroy, S!ReadBegin, S!ReadEnd, S!WriteBegin,
           S!Change, S!WriteEnd, S!OpenFile, S!OpenFails, S!SaveFile, S!TellBegin, S!Tell,
           S!TellEnd, S!ParseFile
  <1> DEFINE Informed(b) == known[b] = table \/ \E w \in Author \ {b} : WillTell(w, b)
             Later(w, b) == \/ pc'[w] \in {"writing", "unlocked", "saving", "saved"}
                            \/ pc'[w] = "telling" /\ b \in S!ToSet(rest'[w])
             Goal(b) == known'[b] = table' \/ \E w \in Author \ {b} : Later(w, b)
  <1> SUFFICES ASSUME ~reload, ~dead', NEW b \in S!ToSet(authors') PROVE Goal(b)
    BY <1>2 DEF Told, WillTell, S!ToSet
  <1>3. \A c \in S!ToSet(authors) : Informed(c)
    BY DEF Told
  <1>4. ASSUME b \in S!ToSet(authors), UNCHANGED table, known'[b] \in {known[b], table},
               \A w \in Author \ {b} : WillTell(w, b) => Later(w, b)
        PROVE  Goal(b)
    <2>1. Informed(b)
      BY <1>3, <1>4
    <2> QED
      BY <1>4, <2>1
  <1>5. S!ToSet(authors) \subseteq Author
    BY <1>1, LenProperties, ElementOfSeq DEF S!ToSet
  <1>6. CASE S!Construct(a)
    <2>1. /\ S!ToSet(authors') = S!ToSet(authors) \cup {a} /\ UNCHANGED <<table, rest>>
          /\ pc[a] = "none" /\ \A w \in Author \ {a} : pc'[w] = pc[w]
          /\ known' = [known EXCEPT ![a] = table]
      BY <1>1, <1>6, AppendedOf DEF S!Construct, S!Go
    <2>2. CASE b = a
      BY <1>1, <2>1, <2>2
    <2>3. CASE b # a
      <3>1. b \in S!ToSet(authors) /\ known'[b] = known[b]
        BY <1>1, <1>5, <2>1, <2>3
      <3>2. \A w \in Author \ {b} : WillTell(w, b) => Later(w, b)
        BY <2>1 DEF WillTell
      <3> QED
        BY <1>4, <2>1, <3>1, <3>2
    <2> QED
      BY <2>2, <2>3
  <1>7. CASE S!Destroy(a)
    <2>1. /\ pc[a] = "idle" /\ \A w \in Author \ {a} : pc'[w] = pc[w]
          /\ UNCHANGED <<table, rest>> /\ known' = [known EXCEPT ![a] = 0]
          /\ authors' = S!RemoveAt(authors, CHOOSE i \in DOMAIN authors : authors[i] = a)
      BY <1>1, <1>7 DEF S!Destroy, S!Go
    <2>2. S!ToSet(authors') = S!ToSet(authors) \ {a}
      BY <1>1, <2>1, RemovedOf
    <2>3. b \in S!ToSet(authors) /\ known'[b] = known[b]
      BY <1>1, <1>5, <2>1, <2>2
    <2>4. \A w \in Author \ {b} : WillTell(w, b) => Later(w, b)
      BY <2>1 DEF WillTell
    <2> QED
      BY <1>4, <2>1, <2>3, <2>4
  <1>8. CASE S!SetCallback(a) \/ S!ReadBegin(a) \/ S!ReadEnd(a) \/ S!WriteBegin(a)
    <2>1. /\ pc[a] \in {"new", "idle", "reading"} /\ \A w \in Author \ {a} : pc'[w] = pc[w]
          /\ UNCHANGED <<table, rest, authors>> /\ (known' = known \/ known' = [known EXCEPT ![a] = table])
      BY <1>1, <1>8 DEF S!SetCallback, S!ReadBegin, S!ReadEnd, S!WriteBegin, S!Go
    <2>2. known'[b] \in {known[b], table}
      BY <1>1, <1>5, <2>1
    <2>3. \A w \in Author \ {b} : WillTell(w, b) => Later(w, b)
      BY <2>1 DEF WillTell
    <2> QED
      BY <1>4, <2>1, <2>2, <2>3
  <1>9. CASE S!Change(a)
    <2>1. pc'[a] = "writing" /\ known' = [known EXCEPT ![a] = table']
      BY <1>9 DEF S!Change
    <2>2. CASE b = a
      BY <1>1, <2>1, <2>2
    <2>3. CASE b # a
      <3>1. a \in Author \ {b} /\ Later(a, b)
        BY <2>1, <2>3
      <3> HIDE DEF Later
      <3> QED
        BY <3>1
    <2> QED
      BY <2>2, <2>3
  <1>10. CASE S!WriteEnd(a) \/ S!OpenFile(a) \/ S!SaveFile(a)
    <2>1. /\ \/ pc[a] \in {"idle", "syncing"}
             \/ pc'[a] \in {"unlocked", "saving", "saved"}
          /\ \A w \in Author \ {a} : pc'[w] = pc[w]
          /\ UNCHANGED <<table, rest, authors, known>>
      BY <1>1, <1>10 DEF S!WriteEnd, S!OpenFile, S!SaveFile, S!Go
    <2>2. \A w \in Author \ {b} : WillTell(w, b) => Later(w, b)
      BY <2>1 DEF WillTell
    <2> QED
      BY <1>4, <2>1, <2>2
  <1>11. CASE S!OpenFails(a)
    BY <1>11 DEF S!OpenFails
  <1>12. CASE S!TellBegin(a)
    <2>1. /\ pc'[a] = "telling" /\ \A w \in Author \ {a} : pc'[w] = pc[w] /\ rest'[w] = rest[w]
          /\ rest'[a] = authors /\ UNCHANGED <<table, authors, known>>
      BY <1>1, <1>12 DEF S!TellBegin, S!Go
    <2>2. \A w \in Author \ {b} : WillTell(w, b) => Later(w, b)
      BY <2>1 DEF WillTell
    <2> QED
      BY <1>4, <2>1, <2>2
  <1>13. CASE S!Tell(a)
    <2> DEFINE h == Head(rest[a])
    <2>1. /\ rest[a] # <<>> /\ rest' = [rest EXCEPT ![a] = Tail(@)]
          /\ UNCHANGED <<table, authors, pc>>
          /\ known' = IF h = a THEN known ELSE [known EXCEPT ![h] = table]
      BY <1>13 DEF S!Tell
    <2>2. rest[a] \in Seq(Author)
      BY <1>1
    <2>3. S!ToSet(rest[a]) = S!ToSet(Tail(rest[a])) \cup {h}
      BY <2>1, <2>2, TailOf
    <2>4. /\ rest'[a] = Tail(rest[a]) /\ \A w \in Author \ {a} : rest'[w] = rest[w]
      BY <1>1, <2>1
    <2> HIDE DEF h
    <2>5. known'[b] \in {known[b], table}
      BY <1>1, <1>5, <2>1
    <2>6. CASE b = h /\ h # a
      BY <1>1, <1>5, <2>1, <2>6
    <2>7. CASE ~(b = h /\ h # a)
      <3>1. \A w \in Author \ {b} : WillTell(w, b) => Later(w, b)
        BY <2>1, <2>3, <2>4, <2>7 DEF WillTell
      <3> QED
        BY <1>4, <2>1, <2>5, <3>1
    <2> QED
      BY <2>6, <2>7
  <1>14. CASE S!TellEnd(a)
    <2>1. /\ pc[a] = "telling" /\ rest[a] = <<>> /\ \A w \in Author \ {a} : pc'[w] = pc[w]
          /\ UNCHANGED <<table, rest, authors, known>>
      BY <1>1, <1>14 DEF S!TellEnd, S!Go
    <2>2. S!ToSet(rest[a]) = {}
      BY <2>1 DEF S!ToSet
    <2>3. \A w \in Author \ {b} : WillTell(w, b) => Later(w, b)
      BY <2>1, <2>2 DEF WillTell
    <2> QED
      BY <1>4, <2>1, <2>3
  <1>15. CASE S!ParseFile(a)
    BY <1>15 DEF S!ParseFile
  <1> HIDE DEF Goal
  <1> QED
    BY <1>6, <1>7, <1>8, <1>9, <1>10, <1>11, <1>12, <1>13, <1>14, <1>15 DEF S!Step

LEMMA ConfigInvNext == ConfigInv /\ [S!Next]_(S!vars) => ConfigInv'
  <1> SUFFICES ASSUME ConfigInv, [S!Next]_(S!vars) PROVE ConfigInv'
    OBVIOUS
  <1>1. ASSUME NEW a \in Author, ~dead, S!Step(a) PROVE ConfigInv'
    BY <1>1, ConfigTypesStep, AliveStep, CurrentStep, ToldStep DEF ConfigInv
  <1>2. CASE UNCHANGED S!vars
    <2>1. UNCHANGED <<reload, table, file, made, authors, pc, rest, known, dead>>
      BY <1>2 DEF S!vars
    <2>2. ConfigTypes'
      BY <2>1 DEF ConfigInv, ConfigTypes, ConfigShape, Places, S!Sections, S!IsInjective, S!ToSet
    <2>3. S!AuthorsAreAlive'
      BY <2>1 DEF ConfigInv, S!AuthorsAreAlive, S!ToSet
    <2>4. S!FileIsCurrent'
      BY <2>1 DEF ConfigInv, S!FileIsCurrent, S!Somebody
    <2>5. Told'
      BY <2>1 DEF ConfigInv, Told, WillTell, S!ToSet
    <2> QED
      BY <2>2, <2>3, <2>4, <2>5 DEF ConfigInv
  <1> QED
    BY <1>1, <1>2 DEF S!Next, S!Ended

LEMMA ConfigStep ==
    ConfigInv /\ [StoresNext]_<<part, vars, datavars, listvars, confvars>> => ConfigInv'
  <1> SUFFICES ASSUME ConfigInv, [StoresNext]_<<part, vars, datavars, listvars, confvars>>
               PROVE  ConfigInv'
    OBVIOUS
  <1>1. S!Next \/ UNCHANGED S!vars
    BY DEF StoresNext, Over, confvars, S!vars
  <1> QED
    BY <1>1, ConfigInvNext

\* As soon as no author is between its change and the end of its save, the
\* configuration file holds the table, whoever overtook whom.
THEOREM FileCatchesUp == StoresSpec => []FileIsCurrent
  <1>1. StoresInit => ConfigInv
    BY ConfigInvInit DEF StoresInit
  <1>2. ConfigInv => FileIsCurrent
    BY DEF ConfigInv, FileIsCurrent
  <1> QED
    BY <1>1, <1>2, ConfigStep, PTL DEF StoresSpec

\* As soon as no write is in progress, every author knows the table, for any
\* number of authors that write, read, come and go.
THEOREM EveryoneIsTold == StoresSpec => []EveryoneKnows
  <1>1. StoresInit => ConfigInv
    BY ConfigInvInit DEF StoresInit
  <1>2. ConfigInv => EveryoneKnows
    <2> SUFFICES ASSUME ConfigInv, ~dead, ~reload, NEW b \in S!ToSet(authors),
                        ~S!Somebody({"writing", "unlocked", "saving", "saved", "telling"})
                 PROVE  known[b] = table
      BY DEF EveryoneKnows, S!EveryoneKnows
    <2>1. known[b] = table \/ \E a \in Author \ {b} : WillTell(a, b)
      BY DEF ConfigInv, Told
    <2>2. \A a \in Author : ~WillTell(a, b)
      BY DEF S!Somebody, WillTell
    <2> QED
      BY <2>1, <2>2
  <1> QED
    BY <1>1, <1>2, ConfigStep, PTL DEF StoresSpec

-----------------------------------------------------------------------------
(* Linked lists: the rings of pointers and the sequences they stand for *)

\* The ring of the list s with head h: the head is its place 0 and comes again
\* behind its last entry.
At(s, h, i) == IF i \in 1 .. Len(s) THEN s[i] ELSE h

RingOf(m, h, s) == \A i \in 0 .. Len(s) :
    m[1][At(s, h, i)] = At(s, h, i + 1) /\ m[2][At(s, h, i + 1)] = At(s, h, i)

Disjoint(q) == \A g, h \in List : \A i \in 1 .. Len(q[g]), j \in 1 .. Len(q[h]) :
    q[g][i] = q[h][j] => g = h /\ i = j

Within(q, e) == \E h \in List : \E i \in 1 .. Len(q[h]) : q[h][i] = e

Pointers == [U!Node -> U!Node \cup {Null}]

\* The pointers m stand for the lists q, where the heads in st are no lists and
\* the entries in x are in no list but may not know it yet.
StandsFor(m, q, st, x) ==
    /\ q \in [List -> Seq(Entry)]
    /\ m[1] \in Pointers /\ m[2] \in Pointers
    /\ Disjoint(q)
    /\ \A h \in st : q[h] = <<>>
    /\ \A h \in List \ st : RingOf(m, h, q[h])
    /\ \A e \in Entry \ x : Within(q, e) \/ m[1][e] \in {e, Null}

LEMMA AtIs ==
    ASSUME NEW h, NEW s \in Seq(Entry)
    PROVE  /\ Len(s) \in Nat
           /\ At(s, h, 0) = h /\ At(s, h, Len(s) + 1) = h
           /\ \A i \in 1 .. Len(s) : At(s, h, i) = s[i] /\ s[i] \in Entry
  BY LenProperties, ElementOfSeq DEF At

\* A place of a ring and the one after it
LEMMA AtPlace ==
    ASSUME NEW h, NEW s \in Seq(Entry), NEW i \in 0 .. Len(s)
    PROVE  /\ \/ i = 0 /\ At(s, h, i) = h
              \/ i \in 1 .. Len(s) /\ At(s, h, i) = s[i] /\ s[i] \in Entry
           /\ \/ i = Len(s) /\ At(s, h, i + 1) = h
              \/ i + 1 \in 1 .. Len(s) /\ At(s, h, i + 1) = s[i + 1] /\ s[i + 1] \in Entry
  <1>1. PICK n \in Nat : n = Len(s)
    BY LenProperties
  <1>2. i = 0 \/ i \in 1 .. n
    BY <1>1
  <1>3. i = n \/ i + 1 \in 1 .. n
    BY <1>1
  <1> QED
    BY <1>1, <1>2, <1>3, AtIs

\* Two places of rings that hold the same node are the same place.
LEMMA AtApart ==
    ASSUME U!ListAssumption, NEW q \in [List -> Seq(Entry)], Disjoint(q),
           NEW g \in List, NEW h \in List,
           NEW i \in 0 .. Len(q[g]), NEW j \in 0 .. Len(q[h]),
           At(q[g], g, i) = At(q[h], h, j)
    PROVE  g = h /\ i = j
  <1>1. q[g] \in Seq(Entry) /\ q[h] \in Seq(Entry)
    OBVIOUS
  <1>2. g \notin Entry /\ h \notin Entry
    BY DEF U!ListAssumption
  <1>3. \/ i = 0 /\ At(q[g], g, i) = g
        \/ i \in 1 .. Len(q[g]) /\ At(q[g], g, i) = q[g][i] /\ q[g][i] \in Entry
    BY <1>1, AtPlace
  <1>4. \/ j = 0 /\ At(q[h], h, j) = h
        \/ j \in 1 .. Len(q[h]) /\ At(q[h], h, j) = q[h][j] /\ q[h][j] \in Entry
    BY <1>1, AtPlace
  <1> QED
    BY <1>2, <1>3, <1>4 DEF Disjoint

\* The same, of the places behind them.
LEMMA AtApartNext ==
    ASSUME U!ListAssumption, NEW q \in [List -> Seq(Entry)], Disjoint(q),
           NEW g \in List, NEW h \in List,
           NEW i \in 0 .. Len(q[g]), NEW j \in 0 .. Len(q[h]),
           At(q[g], g, i + 1) = At(q[h], h, j + 1)
    PROVE  g = h /\ i = j
  <1>1. q[g] \in Seq(Entry) /\ q[h] \in Seq(Entry) /\ i \in Int /\ j \in Int
    BY LenProperties
  <1>2. g \notin Entry /\ h \notin Entry
    BY DEF U!ListAssumption
  <1>3. \/ i = Len(q[g]) /\ At(q[g], g, i + 1) = g
        \/ i + 1 \in 1 .. Len(q[g]) /\ At(q[g], g, i + 1) = q[g][i + 1] /\ q[g][i + 1] \in Entry
    BY <1>1, AtPlace
  <1>4. \/ j = Len(q[h]) /\ At(q[h], h, j + 1) = h
        \/ j + 1 \in 1 .. Len(q[h]) /\ At(q[h], h, j + 1) = q[h][j + 1] /\ q[h][j + 1] \in Entry
    BY <1>1, AtPlace
  <1>5. CASE i = Len(q[g]) \/ j = Len(q[h])
    BY <1>2, <1>3, <1>4, <1>5
  <1>6. CASE i # Len(q[g]) /\ j # Len(q[h])
    <2>1. g = h /\ i + 1 = j + 1
      BY <1>3, <1>4, <1>6 DEF Disjoint
    <2> QED
      BY <1>1, <2>1
  <1> QED
    BY <1>5, <1>6

\* Every node of a ring is a node.
LEMMA AtNode ==
    ASSUME NEW h \in List, NEW s \in Seq(Entry), NEW i
    PROVE  At(s, h, i) \in U!Node /\ (At(s, h, i) \in Entry \/ At(s, h, i) = h)
  BY AtIs DEF At, U!Node

\* A part of a list, and two lists in a row
LEMMA PartIs ==
    ASSUME NEW s \in Seq(Entry), NEW a \in Nat, NEW b \in Nat, a <= b, b <= Len(s)
    PROVE  /\ SubSeq(s, a + 1, b) \in Seq(Entry) /\ Len(SubSeq(s, a + 1, b)) = b - a
           /\ \A j \in 1 .. b - a : SubSeq(s, a + 1, b)[j] = s[a + j]
  <1>1. \A j \in a + 1 .. b : s[j] \in Entry
    <2>1. \A j \in a + 1 .. b : j \in 1 .. Len(s)
      BY LenProperties
    <2> QED
      BY <2>1, ElementOfSeq
  <1>2. /\ SubSeq(s, a + 1, b) \in Seq(Entry)
        /\ Len(SubSeq(s, a + 1, b)) = IF a + 1 <= b THEN b - (a + 1) + 1 ELSE 0
        /\ \A j \in 1 .. b - (a + 1) + 1 : SubSeq(s, a + 1, b)[j] = s[a + 1 + j - 1]
    BY <1>1, SubSeqProperties
  <1>3. /\ (IF a + 1 <= b THEN b - (a + 1) + 1 ELSE 0) = b - a
        /\ b - (a + 1) + 1 = b - a /\ \A j \in 1 .. b - a : a + 1 + j - 1 = a + j
    OBVIOUS
  <1> QED
    BY <1>2, <1>3

LEMMA RowIs ==
    ASSUME NEW x \in Seq(Entry), NEW y \in Seq(Entry), NEW k \in Nat, NEW l \in Nat,
           Len(x) = k, Len(y) = l
    PROVE  /\ x \o y \in Seq(Entry) /\ Len(x \o y) = k + l
           /\ \A j \in 1 .. k + l : (x \o y)[j] = IF j <= k THEN x[j] ELSE y[j - k]
  BY ConcatProperties

\* Adding to a sequence, and taking out of it.
LEMMA InsertIs ==
    ASSUME NEW s \in Seq(Entry), NEW i \in 0 .. Len(s), NEW e \in Entry
    PROVE  /\ U!InsertAt(s, i + 1, e) \in Seq(Entry)
           /\ Len(U!InsertAt(s, i + 1, e)) = Len(s) + 1
           /\ \A j \in 1 .. Len(s) + 1 :
                U!InsertAt(s, i + 1, e)[j] =
                    IF j <= i THEN s[j] ELSE IF j = i + 1 THEN e ELSE s[j - 1]
  <1>1. PICK n \in Nat : n = Len(s)
    BY LenProperties
  <1>2. PICK a \in Seq(Entry) :
            /\ a = SubSeq(s, 1, i) /\ Len(a) = i
            /\ \A j \in 1 .. i : a[j] = s[j]
    <2>1. 0 + 1 = 1 /\ i - 0 = i /\ i \in Nat /\ i <= Len(s) /\ \A j \in 1 .. i : 0 + j = j
      BY <1>1
    <2>2. /\ SubSeq(s, 0 + 1, i) \in Seq(Entry) /\ Len(SubSeq(s, 0 + 1, i)) = i - 0
          /\ \A j \in 1 .. i - 0 : SubSeq(s, 0 + 1, i)[j] = s[0 + j]
      BY <2>1, PartIs
    <2> QED
      BY <2>1, <2>2
  <1>3. PICK b \in Seq(Entry) :
            /\ b = SubSeq(s, i + 1, n) /\ Len(b) = n - i
            /\ \A j \in 1 .. n - i : b[j] = s[i + j]
    <2>1. i \in Nat /\ i <= n /\ n <= Len(s)
      BY <1>1
    <2>2. /\ SubSeq(s, i + 1, n) \in Seq(Entry) /\ Len(SubSeq(s, i + 1, n)) = n - i
          /\ \A j \in 1 .. n - i : SubSeq(s, i + 1, n)[j] = s[i + j]
      BY <2>1, PartIs
    <2>3. PICK b : b = SubSeq(s, i + 1, n)
      OBVIOUS
    <2>4. /\ b \in Seq(Entry) /\ b = SubSeq(s, i + 1, n) /\ Len(b) = n - i
          /\ \A j \in 1 .. n - i : b[j] = s[i + j]
      BY <2>2, <2>3
    <2> QED
      BY <2>4
  <1>4. PICK c \in Seq(Entry) : /\ c = a \o <<e>> /\ Len(c) = i + 1
                                /\ \A j \in 1 .. i + 1 : c[j] = IF j <= i THEN s[j] ELSE e
    <2>1. <<e>> \in Seq(Entry) /\ Len(<<e>>) = 1 /\ <<e>>[1] = e /\ i \in Nat
      BY <1>1
    <2>2. PICK y \in Seq(Entry) : y = <<e>> /\ Len(y) = 1 /\ y[1] = e
      BY <2>1
    <2>3. /\ a \o y \in Seq(Entry) /\ Len(a \o y) = i + 1
          /\ \A j \in 1 .. i + 1 : (a \o y)[j] = IF j <= i THEN a[j] ELSE y[j - i]
      BY <1>2, <2>1, <2>2, RowIs
    <2>4. \A j \in 1 .. i + 1 : j <= i \/ j - i = 1
      BY <2>1
    <2>5. \A j \in 1 .. i + 1 : (a \o y)[j] = IF j <= i THEN s[j] ELSE e
      <3> SUFFICES ASSUME NEW j \in 1 .. i + 1
                   PROVE  (a \o y)[j] = IF j <= i THEN s[j] ELSE e
        OBVIOUS
      <3>1. (a \o y)[j] = IF j <= i THEN a[j] ELSE y[j - i]
        BY <2>3
      <3>2. j <= i => j \in 1 .. i
        BY <2>1
      <3> QED
        BY <1>2, <2>2, <2>4, <3>1, <3>2
    <2> QED
      BY <2>2, <2>3, <2>5
  <1>5. PICK d \in Seq(Entry) :
            /\ d = c \o b /\ Len(d) = n + 1
            /\ \A j \in 1 .. n + 1 : d[j] = IF j <= i + 1 THEN c[j] ELSE b[j - (i + 1)]
    <2>0. i + 1 \in Nat /\ n - i \in Nat
      BY <1>1
    <2>1. PICK k \in Nat : k = i + 1
      BY <2>0
    <2>l. PICK l \in Nat : l = n - i
      BY <2>0
    <2>t. k + l = n + 1
      BY <1>1, <2>1, <2>l
    <2>2. Len(c) = k /\ Len(b) = l
      BY <1>3, <1>4, <2>1, <2>l
    <2>3. /\ c \o b \in Seq(Entry) /\ Len(c \o b) = k + l
          /\ \A j \in 1 .. k + l : (c \o b)[j] = IF j <= k THEN c[j] ELSE b[j - k]
      <3>1. /\ c \o b \in Seq(Entry) /\ Len(c \o b) = Len(c) + Len(b)
            /\ \A j \in 1 .. Len(c) + Len(b) :
                  (c \o b)[j] = IF j <= Len(c) THEN c[j] ELSE b[j - Len(c)]
        BY ConcatProperties
      <3> QED
        BY <2>2, <3>1
    <2>4. PICK d : d = c \o b
      OBVIOUS
    <2>5. /\ d \in Seq(Entry) /\ d = c \o b /\ Len(d) = n + 1
          /\ \A j \in 1 .. n + 1 : d[j] = IF j <= i + 1 THEN c[j] ELSE b[j - (i + 1)]
      BY <2>1, <2>t, <2>3, <2>4
    <2> QED
      BY <2>5
  <1>6. U!InsertAt(s, i + 1, e) = d
    <2>1. (i + 1) - 1 = i
      BY <1>1
    <2> QED
      BY <1>1, <1>2, <1>3, <1>4, <1>5, <2>1 DEF U!InsertAt
  <1>7. ASSUME NEW j \in 1 .. n + 1
        PROVE  d[j] = IF j <= i THEN s[j] ELSE IF j = i + 1 THEN e ELSE s[j - 1]
    <2>1. CASE j <= i + 1
      BY <1>1, <1>4, <1>5, <2>1
    <2>2. CASE ~(j <= i + 1)
      <3>1. j - (i + 1) \in 1 .. n - i /\ i + (j - (i + 1)) = j - 1 /\ j # i + 1 /\ ~(j <= i)
        BY <1>1, <2>2
      <3>2. d[j] = b[j - (i + 1)]
        BY <1>5, <2>2
      <3> QED
        BY <1>3, <3>1, <3>2
    <2> QED
      BY <2>1, <2>2
  <1> QED
    <2>1. \A j \in 1 .. n + 1 : d[j] = IF j <= i THEN s[j] ELSE IF j = i + 1 THEN e ELSE s[j - 1]
      BY <1>7
    <2>2. /\ d \in Seq(Entry) /\ Len(d) = Len(s) + 1
          /\ \A j \in 1 .. Len(s) + 1 :
                d[j] = IF j <= i THEN s[j] ELSE IF j = i + 1 THEN e ELSE s[j - 1]
      BY <1>1, <1>5, <2>1
    <2> QED
      BY <1>6, <2>2

LEMMA RemoveIs ==
    ASSUME NEW s \in Seq(Entry), NEW i \in 1 .. Len(s)
    PROVE  /\ U!RemoveAt(s, i) \in Seq(Entry)
           /\ Len(U!RemoveAt(s, i)) = Len(s) - 1
           /\ \A j \in 1 .. Len(s) - 1 :
                U!RemoveAt(s, i)[j] = IF j < i THEN s[j] ELSE s[j + 1]
  <1>1. PICK n \in Nat : n = Len(s)
    BY LenProperties
  <1>2. PICK a \in Seq(Entry) :
            /\ a = SubSeq(s, 1, i - 1) /\ Len(a) = i - 1
            /\ \A j \in 1 .. i - 1 : a[j] = s[j]
    <2>1. /\ 0 + 1 = 1 /\ (i - 1) - 0 = i - 1 /\ i - 1 \in Nat /\ i - 1 <= Len(s)
          /\ \A j \in 1 .. i - 1 : 0 + j = j
      BY <1>1
    <2>2. /\ SubSeq(s, 0 + 1, i - 1) \in Seq(Entry)
          /\ Len(SubSeq(s, 0 + 1, i - 1)) = (i - 1) - 0
          /\ \A j \in 1 .. (i - 1) - 0 : SubSeq(s, 0 + 1, i - 1)[j] = s[0 + j]
      BY <2>1, PartIs
    <2> QED
      BY <2>1, <2>2
  <1>3. PICK b \in Seq(Entry) :
            /\ b = SubSeq(s, i + 1, n) /\ Len(b) = n - i
            /\ \A j \in 1 .. n - i : b[j] = s[i + j]
    <2>1. i \in Nat /\ i <= n /\ n <= Len(s)
      BY <1>1
    <2>2. /\ SubSeq(s, i + 1, n) \in Seq(Entry) /\ Len(SubSeq(s, i + 1, n)) = n - i
          /\ \A j \in 1 .. n - i : SubSeq(s, i + 1, n)[j] = s[i + j]
      BY <2>1, PartIs
    <2>3. PICK b : b = SubSeq(s, i + 1, n)
      OBVIOUS
    <2>4. /\ b \in Seq(Entry) /\ b = SubSeq(s, i + 1, n) /\ Len(b) = n - i
          /\ \A j \in 1 .. n - i : b[j] = s[i + j]
      BY <2>2, <2>3
    <2> QED
      BY <2>4
  <1>4. PICK d \in Seq(Entry) :
            /\ d = a \o b /\ Len(d) = n - 1
            /\ \A j \in 1 .. n - 1 : d[j] = IF j <= i - 1 THEN a[j] ELSE b[j - (i - 1)]
    <2>0. i - 1 \in Nat /\ n - i \in Nat
      BY <1>1
    <2>1. PICK k \in Nat : k = i - 1
      BY <2>0
    <2>l. PICK l \in Nat : l = n - i
      BY <2>0
    <2>t. k + l = n - 1
      BY <1>1, <2>1, <2>l
    <2>2. Len(a) = k /\ Len(b) = l
      BY <1>2, <1>3, <2>1, <2>l
    <2>3. /\ a \o b \in Seq(Entry) /\ Len(a \o b) = k + l
          /\ \A j \in 1 .. k + l : (a \o b)[j] = IF j <= k THEN a[j] ELSE b[j - k]
      <3>1. /\ a \o b \in Seq(Entry) /\ Len(a \o b) = Len(a) + Len(b)
            /\ \A j \in 1 .. Len(a) + Len(b) :
                  (a \o b)[j] = IF j <= Len(a) THEN a[j] ELSE b[j - Len(a)]
        BY ConcatProperties
      <3> QED
        BY <2>2, <3>1
    <2>4. PICK d : d = a \o b
      OBVIOUS
    <2>5. /\ d \in Seq(Entry) /\ d = a \o b /\ Len(d) = n - 1
          /\ \A j \in 1 .. n - 1 : d[j] = IF j <= i - 1 THEN a[j] ELSE b[j - (i - 1)]
      BY <2>1, <2>t, <2>3, <2>4
    <2> QED
      BY <2>5
  <1>5. U!RemoveAt(s, i) = d
    BY <1>1, <1>2, <1>3, <1>4 DEF U!RemoveAt
  <1>6. ASSUME NEW j \in 1 .. n - 1
        PROVE  d[j] = IF j < i THEN s[j] ELSE s[j + 1]
    <2>1. CASE j < i
      <3>1. j \in 1 .. i - 1 /\ j <= i - 1
        BY <1>1, <2>1
      <3> QED
        BY <1>2, <1>4, <2>1, <3>1
    <2>2. CASE ~(j < i)
      <3>1. j - (i - 1) \in 1 .. n - i /\ i + (j - (i - 1)) = j + 1 /\ ~(j <= i - 1)
        BY <1>1, <2>2
      <3>2. d[j] = b[j - (i - 1)]
        BY <1>4, <3>1
      <3> QED
        BY <1>3, <2>2, <3>1, <3>2
    <2> QED
      BY <2>1, <2>2
  <1> QED
    <2>1. \A j \in 1 .. n - 1 : d[j] = IF j < i THEN s[j] ELSE s[j + 1]
      BY <1>6
    <2>2. /\ d \in Seq(Entry) /\ Len(d) = Len(s) - 1
          /\ \A j \in 1 .. Len(s) - 1 : d[j] = IF j < i THEN s[j] ELSE s[j + 1]
      BY <1>1, <1>4, <2>1
    <2> QED
      BY <1>5, <2>2

LEMMA AtInserted ==
    ASSUME NEW h, NEW s \in Seq(Entry), NEW i \in 0 .. Len(s), NEW e \in Entry,
           NEW j \in 0 .. Len(s) + 2
    PROVE  At(U!InsertAt(s, i + 1, e), h, j) =
               IF j <= i THEN At(s, h, j) ELSE IF j = i + 1 THEN e ELSE At(s, h, j - 1)
  <1>1. PICK n \in Nat : n = Len(s)
    BY LenProperties
  <1>2. PICK t : t = U!InsertAt(s, i + 1, e)
    OBVIOUS
  <1>3. /\ Len(t) = n + 1
        /\ \A k \in 1 .. n + 1 :
              t[k] = IF k <= i THEN s[k] ELSE IF k = i + 1 THEN e ELSE s[k - 1]
    <2>1. /\ Len(U!InsertAt(s, i + 1, e)) = Len(s) + 1
          /\ \A k \in 1 .. Len(s) + 1 :
                U!InsertAt(s, i + 1, e)[k] =
                    IF k <= i THEN s[k] ELSE IF k = i + 1 THEN e ELSE s[k - 1]
      BY InsertIs
    <2> QED
      BY <1>1, <1>2, <2>1
  <1>4. At(t, h, j) = IF j \in 1 .. n + 1 THEN t[j] ELSE h
    BY <1>3 DEF At
  <1>5. /\ At(s, h, j) = IF j \in 1 .. n THEN s[j] ELSE h
        /\ At(s, h, j - 1) = IF j - 1 \in 1 .. n THEN s[j - 1] ELSE h
    BY <1>1 DEF At
  <1>6. At(t, h, j) = IF j <= i THEN At(s, h, j) ELSE IF j = i + 1 THEN e ELSE At(s, h, j - 1)
    <2>1. CASE j <= i
      BY <1>1, <1>3, <1>4, <1>5, <2>1
    <2>2. CASE j = i + 1
      BY <1>1, <1>3, <1>4, <2>2
    <2>3. CASE ~(j <= i) /\ j # i + 1
      <3>1. j - 1 \in 1 .. n <=> j \in 1 .. n + 1
        BY <1>1, <2>3
      <3>2. j \in 1 .. n + 1 => t[j] = s[j - 1]
        BY <1>3, <2>3
      <3> QED
        BY <1>4, <1>5, <2>3, <3>1, <3>2
    <2> QED
      BY <2>1, <2>2, <2>3
  <1> QED
    BY <1>2, <1>6

LEMMA AtRemoved ==
    ASSUME NEW h, NEW s \in Seq(Entry), NEW i \in 1 .. Len(s), NEW j \in 0 .. Len(s)
    PROVE  At(U!RemoveAt(s, i), h, j) = IF j < i THEN At(s, h, j) ELSE At(s, h, j + 1)
  <1>1. PICK n \in Nat : n = Len(s)
    BY LenProperties
  <1>2. PICK t : t = U!RemoveAt(s, i)
    OBVIOUS
  <1>3. /\ Len(t) = n - 1
        /\ \A k \in 1 .. n - 1 : t[k] = IF k < i THEN s[k] ELSE s[k + 1]
    BY <1>1, <1>2, RemoveIs
  <1>4. At(t, h, j) = IF j \in 1 .. n - 1 THEN t[j] ELSE h
    BY <1>3 DEF At
  <1>5. /\ At(s, h, j) = IF j \in 1 .. n THEN s[j] ELSE h
        /\ At(s, h, j + 1) = IF j + 1 \in 1 .. n THEN s[j + 1] ELSE h
    BY <1>1 DEF At
  <1>6. At(t, h, j) = IF j < i THEN At(s, h, j) ELSE At(s, h, j + 1)
    <2>1. CASE j < i
      <3>1. j \in 1 .. n <=> j \in 1 .. n - 1
        BY <1>1, <2>1
      <3> QED
        BY <1>3, <1>4, <1>5, <2>1, <3>1
    <2>2. CASE ~(j < i)
      <3>1. j + 1 \in 1 .. n <=> j \in 1 .. n - 1
        BY <1>1, <2>2
      <3> QED
        BY <1>3, <1>4, <1>5, <2>2, <3>1
    <2> QED
      BY <2>1, <2>2
  <1> QED
    BY <1>2, <1>6

\* What is read of a pair of pointers after they have been stored to
LEMMA Linked2 ==
    ASSUME NEW m, m[1] \in Pointers, m[2] \in Pointers,
           NEW e \in U!Node, NEW p \in U!Node, NEW n \in U!Node, e # p, e # n
    PROVE  LET r == U!Link(m, e, p, n)
           IN  /\ r[1] \in Pointers /\ r[2] \in Pointers
               /\ r[1][p] = e /\ r[1][e] = n /\ r[2][n] = e /\ r[2][e] = p
               /\ \A x \in U!Node \ {p, e} : r[1][x] = m[1][x]
               /\ \A x \in U!Node \ {n, e} : r[2][x] = m[2][x]
  BY DEF U!Link, Pointers

LEMMA Unlinked2 ==
    ASSUME NEW m, m[1] \in Pointers, m[2] \in Pointers, NEW p \in U!Node, NEW n \in U!Node
    PROVE  LET r == U!Unlink(m, p, n)
           IN  /\ r[1] \in Pointers /\ r[2] \in Pointers
               /\ r[1][p] = n /\ r[2][n] = p
               /\ \A x \in U!Node \ {p} : r[1][x] = m[1][x]
               /\ \A x \in U!Node \ {n} : r[2][x] = m[2][x]
  BY DEF U!Unlink, Pointers

LEMMA Pointed2 ==
    ASSUME NEW m, m[1] \in Pointers, m[2] \in Pointers,
           NEW x \in U!Node, NEW to \in U!Node \cup {Null}
    PROVE  LET r == U!Point(m, x, to)
           IN  /\ r[1] \in Pointers /\ r[2] \in Pointers
               /\ r[1][x] = to /\ r[2][x] = to
               /\ \A y \in U!Node \ {x} : r[1][y] = m[1][y] /\ r[2][y] = m[2][y]
  BY DEF U!Point, Pointers

\* A ring stays as it is when nothing of it is stored to.
LEMMA RingStays ==
    ASSUME NEW m, NEW r, NEW h \in List, NEW s \in Seq(Entry), RingOf(m, h, s),
           \A i \in 0 .. Len(s) : r[1][At(s, h, i)] = m[1][At(s, h, i)],
           \A i \in 0 .. Len(s) : r[2][At(s, h, i + 1)] = m[2][At(s, h, i + 1)]
    PROVE  RingOf(r, h, s)
  BY DEF RingOf

\* An entry that enters the list h behind its place i.
LEMMA EnteredApart ==
    ASSUME NEW q \in [List -> Seq(Entry)], Disjoint(q), NEW h \in List,
           NEW i \in 0 .. Len(q[h]), NEW e \in Entry, ~Within(q, e)
    PROVE  LET t == [q EXCEPT ![h] = U!InsertAt(q[h], i + 1, e)]
           IN  /\ t \in [List -> Seq(Entry)] /\ Disjoint(t)
               /\ \A y \in Entry : Within(t, y) <=> y = e \/ Within(q, y)
  <1>1. PICK s \in Seq(Entry), n \in Nat : s = q[h] /\ n = Len(s)
    BY LenProperties
  <1>2. PICK u \in Seq(Entry) : u = U!InsertAt(s, i + 1, e)
    BY <1>1, InsertIs
  <1>3. /\ Len(u) = n + 1
        /\ \A j \in 1 .. n + 1 : u[j] = IF j <= i THEN s[j] ELSE IF j = i + 1 THEN e ELSE s[j - 1]
    <2>1. i \in 0 .. Len(s)
      BY <1>1
    <2>2. /\ Len(U!InsertAt(s, i + 1, e)) = Len(s) + 1
          /\ \A j \in 1 .. Len(s) + 1 :
                U!InsertAt(s, i + 1, e)[j] =
                    IF j <= i THEN s[j] ELSE IF j = i + 1 THEN e ELSE s[j - 1]
      BY <2>1, InsertIs
    <2> QED
      BY <1>1, <1>2, <2>2
  <1>4. PICK t : t = [q EXCEPT ![h] = u]
    OBVIOUS
  <1>5. /\ t \in [List -> Seq(Entry)] /\ t[h] = u /\ \A g \in List \ {h} : t[g] = q[g]
    BY <1>4
  <1>6. i \in 0 .. n /\ \A g \in List : \A j \in 1 .. Len(q[g]) : q[g][j] # e
    BY <1>1 DEF Within
  \* Where an entry of the longer list comes from
  <1>7. \A j \in 1 .. n + 1 :
            \/ j = i + 1 /\ u[j] = e
            \/ j <= i /\ j \in 1 .. n /\ u[j] = s[j]
            \/ j > i + 1 /\ j - 1 \in 1 .. n /\ u[j] = s[j - 1]
    BY <1>3, <1>6
  <1>8. \A j, k \in 1 .. n : s[j] = s[k] => j = k
    BY <1>1 DEF Disjoint
  <1>9. \A j \in 1 .. n + 1, k \in 1 .. n + 1 : u[j] = u[k] => j = k
    <2> SUFFICES ASSUME NEW j \in 1 .. n + 1, NEW k \in 1 .. n + 1, u[j] = u[k] PROVE j = k
      OBVIOUS
    <2>1. \A l \in 1 .. n : s[l] # e
      BY <1>1, <1>6
    <2> QED
      BY <1>6, <1>7, <1>8, <2>1
  <1>10. \A g \in List \ {h} : \A j \in 1 .. n + 1, k \in 1 .. Len(q[g]) : u[j] # q[g][k]
    <2> SUFFICES ASSUME NEW g \in List \ {h}, NEW j \in 1 .. n + 1, NEW k \in 1 .. Len(q[g]),
                        u[j] = q[g][k]
                 PROVE  FALSE
      OBVIOUS
    <2>1. \A l \in 1 .. n : s[l] # q[g][k]
      BY <1>1 DEF Disjoint
    <2>2. q[g][k] # e
      BY <1>6
    <2> QED
      BY <1>7, <2>1, <2>2
  <1>11. Disjoint(t)
    <2> SUFFICES ASSUME NEW f \in List, NEW g \in List,
                        NEW j \in 1 .. Len(t[f]), NEW k \in 1 .. Len(t[g]), t[f][j] = t[g][k]
                 PROVE  f = g /\ j = k
      BY DEF Disjoint
    <2>1. CASE f = h /\ g = h
      BY <1>3, <1>5, <1>9, <2>1
    <2>2. CASE f = h /\ g # h
      BY <1>3, <1>5, <1>10, <2>2
    <2>3. CASE f # h /\ g = h
      BY <1>3, <1>5, <1>10, <2>3
    <2>4. CASE f # h /\ g # h
      BY <1>5, <2>4 DEF Disjoint
    <2> QED
      BY <2>1, <2>2, <2>3, <2>4
  <1>12. ASSUME NEW y \in Entry PROVE Within(t, y) <=> y = e \/ Within(q, y)
    <2>1. ASSUME Within(t, y) PROVE y = e \/ Within(q, y)
      <3>1. PICK g \in List : \E j \in 1 .. Len(t[g]) : t[g][j] = y
        BY <2>1 DEF Within
      <3>2. CASE g # h
        BY <1>5, <3>1, <3>2 DEF Within
      <3>3. CASE g = h
        <4>1. PICK j \in 1 .. n + 1 : u[j] = y
          BY <1>3, <1>5, <3>1, <3>3
        <4>2. y = e \/ \E l \in 1 .. n : s[l] = y
          BY <1>7, <4>1
        <4> QED
          BY <1>1, <4>2 DEF Within
      <3> QED
        BY <3>2, <3>3
    <2>2. Within(t, e)
      <3>1. PICK k \in 1 .. n + 1 : k = i + 1
        BY <1>6
      <3>2. u[k] = e
        BY <1>3, <1>6, <3>1
      <3> QED
        BY <1>3, <1>5, <3>2 DEF Within
    <2>3. ASSUME Within(q, y) PROVE Within(t, y)
      <3>1. PICK g \in List : \E j \in 1 .. Len(q[g]) : q[g][j] = y
        BY <2>3 DEF Within
      <3>2. CASE g # h
        BY <1>5, <3>1, <3>2 DEF Within
      <3>3. CASE g = h
        <4>1. PICK j \in 1 .. n : s[j] = y
          BY <1>1, <3>1, <3>3
        <4>2. \E l \in 1 .. n + 1 : u[l] = s[j]
          <5>1. CASE j <= i
            <6>1. j \in 1 .. n + 1
              OBVIOUS
            <6>2. u[j] = s[j]
              BY <1>3, <5>1, <6>1
            <6> QED
              BY <6>1, <6>2
          <5>2. CASE ~(j <= i)
            <6>1. j + 1 \in 1 .. n + 1 /\ ~(j + 1 <= i) /\ j + 1 # i + 1 /\ (j + 1) - 1 = j
              BY <1>6, <5>2
            <6>2. PICK k \in 1 .. n + 1 : k = j + 1
              BY <6>1
            <6>3. u[k] = s[k - 1] /\ k - 1 = j
              BY <1>3, <6>1, <6>2
            <6> QED
              BY <6>3
          <5> QED
            BY <5>1, <5>2
        <4> QED
          BY <1>3, <1>5, <4>1, <4>2 DEF Within
      <3> QED
        BY <3>2, <3>3
    <2> QED
      BY <2>1, <2>2, <2>3
  <1> QED
    BY <1>1, <1>2, <1>4, <1>5, <1>11, <1>12

LEMMA Entered ==
    ASSUME U!ListAssumption, NEW m, NEW q, NEW st \in SUBSET List, NEW x, StandsFor(m, q, st, x),
           NEW h \in List \ st, NEW i \in 0 .. Len(q[h]), NEW e \in Entry, ~Within(q, e)
    PROVE  StandsFor(U!Link(m, e, At(q[h], h, i), At(q[h], h, i + 1)),
                     [q EXCEPT ![h] = U!InsertAt(q[h], i + 1, e)], st, x \ {e})
  <1>1. /\ q \in [List -> Seq(Entry)] /\ Disjoint(q) /\ m[1] \in Pointers /\ m[2] \in Pointers
        /\ h \in List
    BY DEF StandsFor
  <1>2. PICK s \in Seq(Entry), n \in Nat : s = q[h] /\ n = Len(s) /\ i \in 0 .. n
    BY <1>1, LenProperties
  <1>3. PICK p, b : p = At(s, h, i) /\ b = At(s, h, i + 1)
    OBVIOUS
  <1>4. \A g \in List : \A j \in Int : At(q[g], g, j) \in U!Node /\ At(q[g], g, j) # e
    <2> SUFFICES ASSUME NEW g \in List, NEW j \in Int
                 PROVE  At(q[g], g, j) \in U!Node /\ At(q[g], g, j) # e
      OBVIOUS
    <2>1. q[g] \in Seq(Entry) /\ g \notin Entry
      BY <1>1 DEF U!ListAssumption
    <2>2. At(q[g], g, j) \in U!Node
      BY <2>1, AtNode
    <2> QED
      BY <2>1, <2>2 DEF At, Within
  <1>5. p \in U!Node /\ b \in U!Node /\ e \in U!Node /\ e # p /\ e # b
    BY <1>2, <1>3, <1>4 DEF U!Node
  <1>6. PICK r : r = U!Link(m, e, p, b)
    OBVIOUS
  <1>7. /\ r[1] \in Pointers /\ r[2] \in Pointers
        /\ r[1][p] = e /\ r[1][e] = b /\ r[2][b] = e /\ r[2][e] = p
        /\ \A y \in U!Node \ {p, e} : r[1][y] = m[1][y]
        /\ \A y \in U!Node \ {b, e} : r[2][y] = m[2][y]
    <2> DEFINE o == U!Link(m, e, p, b)
    <2>1. /\ o[1] \in Pointers /\ o[2] \in Pointers
          /\ o[1][p] = e /\ o[1][e] = b /\ o[2][b] = e /\ o[2][e] = p
          /\ \A y \in U!Node \ {p, e} : o[1][y] = m[1][y]
          /\ \A y \in U!Node \ {b, e} : o[2][y] = m[2][y]
      BY <1>1, <1>5, Linked2
    <2> HIDE DEF o
    <2>2. r = o
      BY <1>6 DEF o
    <2> QED
      BY <2>1, <2>2
  <1>8. PICK t : t = [q EXCEPT ![h] = U!InsertAt(q[h], i + 1, e)]
    OBVIOUS
  <1>9. /\ t \in [List -> Seq(Entry)] /\ Disjoint(t)
        /\ \A y \in Entry : Within(t, y) <=> y = e \/ Within(q, y)
    BY <1>1, <1>8, EnteredApart
  <1>10. t[h] = U!InsertAt(s, i + 1, e) /\ \A g \in List \ {h} : t[g] = q[g]
    BY <1>1, <1>2, <1>8
  <1>11. \A g \in st : t[g] = <<>>
    BY <1>10 DEF StandsFor
  <1>12. ASSUME NEW g \in List \ st, g # h PROVE RingOf(r, g, t[g])
    <2>1. RingOf(m, g, q[g]) /\ q[g] \in Seq(Entry) /\ t[g] = q[g] /\ Len(q[g]) \in Nat
      BY <1>1, <1>10, <1>12, LenProperties DEF StandsFor
    <2>2. ASSUME NEW j \in 0 .. Len(q[g])
          PROVE  r[1][At(q[g], g, j)] = m[1][At(q[g], g, j)]
      <3>1. At(q[g], g, j) # p
        BY <1>1, <1>2, <1>3, <1>12, AtApart
      <3> QED
        BY <1>4, <1>7, <3>1
    <2>3. ASSUME NEW j \in 0 .. Len(q[g])
          PROVE  r[2][At(q[g], g, j + 1)] = m[2][At(q[g], g, j + 1)]
      <3>1. At(q[g], g, j + 1) # b
        BY <1>1, <1>2, <1>3, <1>12, AtApartNext
      <3>2. At(q[g], g, j + 1) \in U!Node /\ At(q[g], g, j + 1) # e
        BY <1>4
      <3> QED
        BY <1>7, <3>1, <3>2
    <2> QED
      BY <2>1, <2>2, <2>3, RingStays
  <1>13. RingOf(r, h, t[h])
    <2>1. PICK u : u = t[h]
      OBVIOUS
    <2>2. Len(u) = n + 1
      BY <1>2, <1>10, <2>1, InsertIs
    <2>3. \A j \in 0 .. n + 2 :
            At(u, h, j) = IF j <= i THEN At(s, h, j) ELSE IF j = i + 1 THEN e ELSE At(s, h, j - 1)
      BY <1>2, <1>10, <2>1, AtInserted
    <2>4. \A j \in 0 .. n : m[1][At(s, h, j)] = At(s, h, j + 1) /\ m[2][At(s, h, j + 1)] = At(s, h, j)
      BY <1>2 DEF StandsFor, RingOf
    <2>5. \A j \in 0 .. n : j # i => At(s, h, j) # p /\ At(s, h, j + 1) # b
      BY <1>1, <1>2, <1>3, AtApart, AtApartNext
    <2>6. \A j \in 0 .. n : /\ At(s, h, j) \in U!Node /\ At(s, h, j) # e
                            /\ At(s, h, j + 1) \in U!Node /\ At(s, h, j + 1) # e
      BY <1>2, <1>4
    <2>7. \A j \in 0 .. n : j # i => /\ r[1][At(s, h, j)] = At(s, h, j + 1)
                                     /\ r[2][At(s, h, j + 1)] = At(s, h, j)
      BY <1>7, <2>4, <2>5, <2>6
    <2>8. ASSUME NEW j \in 0 .. n + 1
          PROVE  r[1][At(u, h, j)] = At(u, h, j + 1) /\ r[2][At(u, h, j + 1)] = At(u, h, j)
      <3>1. CASE j < i
        <4>1. /\ At(u, h, j) = At(s, h, j) /\ At(u, h, j + 1) = At(s, h, j + 1)
              /\ j \in 0 .. n /\ j # i
          BY <1>2, <2>3, <3>1
        <4> QED
          BY <2>7, <4>1
      <3>2. CASE j = i
        <4>1. At(u, h, j) = p /\ At(u, h, j + 1) = e
          BY <1>2, <1>3, <2>3, <3>2
        <4> QED
          BY <1>7, <4>1
      <3>3. CASE j = i + 1
        <4>1. At(u, h, j) = e /\ At(u, h, j + 1) = b
          <5>1. j + 1 \in 0 .. n + 2 /\ ~(j + 1 <= i) /\ j + 1 # i + 1 /\ (j + 1) - 1 = i + 1
            BY <1>2, <3>3
          <5> QED
            BY <1>2, <1>3, <2>3, <3>3, <5>1
        <4> QED
          BY <1>7, <4>1
      <3>4. CASE j > i + 1
        <4>1. PICK k \in 0 .. n : k = j - 1 /\ k # i
          BY <1>2, <3>4
        <4>2. At(u, h, j) = At(s, h, k) /\ At(u, h, j + 1) = At(s, h, k + 1)
          <5>1. /\ j \in 0 .. n + 2 /\ ~(j <= i) /\ j # i + 1
                /\ j + 1 \in 0 .. n + 2 /\ ~(j + 1 <= i) /\ j + 1 # i + 1 /\ (j + 1) - 1 = k + 1
            BY <1>2, <3>4, <4>1
          <5> QED
            BY <2>3, <4>1, <5>1
        <4> QED
          BY <2>7, <4>1, <4>2
      <3> QED
        BY <1>2, <3>1, <3>2, <3>3, <3>4
    <2> QED
      BY <2>1, <2>2, <2>8 DEF RingOf
  <1>14. ASSUME NEW y \in Entry \ (x \ {e}), ~Within(t, y) PROVE r[1][y] \in {y, Null}
    <2>1. y # e /\ ~Within(q, y) /\ y \in U!Node
      BY <1>9, <1>14 DEF U!Node
    <2>2. y \notin x /\ m[1][y] \in {y, Null}
      BY <2>1 DEF StandsFor
    <2>3. y # p
      <3>1. p = h \/ (i \in 1 .. Len(q[h]) /\ p = q[h][i])
        BY <1>2, <1>3 DEF At
      <3>2. y # h
        BY <1>1 DEF U!ListAssumption
      <3> QED
        BY <1>1, <2>1, <3>1, <3>2 DEF Within
    <2> QED
      BY <1>7, <2>1, <2>2, <2>3
  <1>15. StandsFor(r, t, st, x \ {e})
    BY <1>7, <1>9, <1>11, <1>12, <1>13, <1>14 DEF StandsFor
  <1> QED
    BY <1>2, <1>3, <1>6, <1>8, <1>15

\* An entry that leaves the list h.
LEMMA LeftApart ==
    ASSUME NEW q \in [List -> Seq(Entry)], Disjoint(q), NEW h \in List,
           NEW i \in 1 .. Len(q[h])
    PROVE  LET t == [q EXCEPT ![h] = U!RemoveAt(q[h], i)]
           IN  /\ t \in [List -> Seq(Entry)] /\ Disjoint(t)
               /\ \A y \in Entry : Within(t, y) <=> y # q[h][i] /\ Within(q, y)
  <1>1. PICK s \in Seq(Entry), n \in Nat : s = q[h] /\ n = Len(s)
    BY LenProperties
  <1>2. i \in 1 .. Len(s)
    BY <1>1
  <1>3. PICK u \in Seq(Entry) : u = U!RemoveAt(s, i)
    BY <1>2, RemoveIs
  <1>4. /\ Len(u) = n - 1
        /\ \A j \in 1 .. n - 1 : u[j] = IF j < i THEN s[j] ELSE s[j + 1]
    <2>1. /\ Len(U!RemoveAt(s, i)) = Len(s) - 1
          /\ \A j \in 1 .. Len(s) - 1 : U!RemoveAt(s, i)[j] = IF j < i THEN s[j] ELSE s[j + 1]
      BY <1>2, RemoveIs
    <2> QED
      BY <1>1, <1>3, <2>1
  <1>5. PICK t : t = [q EXCEPT ![h] = u]
    OBVIOUS
  <1>6. /\ t \in [List -> Seq(Entry)] /\ t[h] = u /\ \A g \in List \ {h} : t[g] = q[g]
    BY <1>5
  <1>7. i \in 1 .. n
    BY <1>1
  <1>8. \A j \in 1 .. n - 1 : \/ j < i /\ j \in 1 .. n /\ u[j] = s[j]
                              \/ j >= i /\ j + 1 \in 1 .. n /\ u[j] = s[j + 1]
    BY <1>4, <1>7
  <1>9. \A j, k \in 1 .. n : s[j] = s[k] => j = k
    BY <1>1 DEF Disjoint
  <1>10. \A j \in 1 .. n - 1, k \in 1 .. n - 1 : u[j] = u[k] => j = k
    <2> SUFFICES ASSUME NEW j \in 1 .. n - 1, NEW k \in 1 .. n - 1, u[j] = u[k] PROVE j = k
      OBVIOUS
    <2> QED
      BY <1>7, <1>8, <1>9
  <1>11. \A j \in 1 .. n - 1 : \E l \in 1 .. n : u[j] = s[l] /\ l # i
    <2> SUFFICES ASSUME NEW j \in 1 .. n - 1 PROVE \E l \in 1 .. n : u[j] = s[l] /\ l # i
      OBVIOUS
    <2>1. CASE j < i
      BY <1>4, <1>7, <1>8, <2>1
    <2>2. CASE j >= i
      <3>1. PICK k \in 1 .. n : k = j + 1 /\ k # i
        BY <1>7, <2>2
      <3>2. u[j] = s[k]
        BY <1>4, <1>7, <2>2, <3>1
      <3> QED
        BY <3>1, <3>2
    <2> QED
      BY <1>7, <2>1, <2>2
  <1>12. \A g \in List \ {h} : \A j \in 1 .. n - 1, k \in 1 .. Len(q[g]) : u[j] # q[g][k]
    <2> SUFFICES ASSUME NEW g \in List \ {h}, NEW j \in 1 .. n - 1, NEW k \in 1 .. Len(q[g])
                 PROVE  u[j] # q[g][k]
      OBVIOUS
    <2>1. \A l \in 1 .. n : s[l] # q[g][k]
      BY <1>1 DEF Disjoint
    <2> QED
      BY <1>11, <2>1
  <1>13. Disjoint(t)
    <2> SUFFICES ASSUME NEW f \in List, NEW g \in List,
                        NEW j \in 1 .. Len(t[f]), NEW k \in 1 .. Len(t[g]), t[f][j] = t[g][k]
                 PROVE  f = g /\ j = k
      BY DEF Disjoint
    <2>1. CASE f = h /\ g = h
      BY <1>4, <1>6, <1>10, <2>1
    <2>2. CASE f = h /\ g # h
      BY <1>4, <1>6, <1>12, <2>2
    <2>3. CASE f # h /\ g = h
      BY <1>4, <1>6, <1>12, <2>3
    <2>4. CASE f # h /\ g # h
      BY <1>6, <2>4 DEF Disjoint
    <2> QED
      BY <2>1, <2>2, <2>3, <2>4
  <1>14. ASSUME NEW y \in Entry PROVE Within(t, y) <=> y # s[i] /\ Within(q, y)
    <2>1. ASSUME Within(t, y) PROVE y # s[i] /\ Within(q, y)
      <3>1. PICK g \in List : \E j \in 1 .. Len(t[g]) : t[g][j] = y
        BY <2>1 DEF Within
      <3>2. CASE g # h
        <4>1. PICK j \in 1 .. Len(q[g]) : q[g][j] = y
          BY <1>6, <3>1, <3>2
        <4>2. y # s[i]
          BY <1>1, <1>7, <3>2, <4>1 DEF Disjoint
        <4> QED
          BY <4>1, <4>2 DEF Within
      <3>3. CASE g = h
        <4>1. PICK j \in 1 .. n - 1 : u[j] = y
          BY <1>4, <1>6, <3>1, <3>3
        <4>2. PICK l \in 1 .. n : s[l] = y /\ l # i
          BY <1>11, <4>1
        <4>3. y # s[i]
          BY <1>7, <1>9, <4>2
        <4> QED
          BY <1>1, <4>2, <4>3 DEF Within
      <3> QED
        BY <3>2, <3>3
    <2>2. ASSUME Within(q, y), y # s[i] PROVE Within(t, y)
      <3>1. PICK g \in List : \E j \in 1 .. Len(q[g]) : q[g][j] = y
        BY <2>2 DEF Within
      <3>2. CASE g # h
        BY <1>6, <3>1, <3>2 DEF Within
      <3>3. CASE g = h
        <4>1. PICK j \in 1 .. n : s[j] = y /\ j # i
          BY <1>1, <2>2, <3>1, <3>3
        <4>2. \E l \in 1 .. n - 1 : u[l] = s[j]
          <5>1. CASE j < i
            <6>1. j \in 1 .. n - 1
              BY <1>7, <5>1
            <6>2. u[j] = s[j]
              BY <1>4, <5>1, <6>1
            <6> QED
              BY <6>1, <6>2
          <5>2. CASE ~(j < i)
            <6>1. PICK k \in 1 .. n - 1 : k = j - 1
              BY <1>7, <4>1, <5>2
            <6>2. k + 1 = j /\ ~(k < i)
              BY <1>7, <4>1, <5>2, <6>1
            <6>3. u[k] = s[j]
              BY <1>4, <6>2
            <6> QED
              BY <6>3
          <5> QED
            BY <5>1, <5>2
        <4> QED
          BY <1>4, <1>6, <4>1, <4>2 DEF Within
      <3> QED
        BY <3>2, <3>3
    <2> QED
      BY <2>1, <2>2
  <1> QED
    BY <1>1, <1>3, <1>5, <1>6, <1>13, <1>14

LEMMA Left ==
    ASSUME U!ListAssumption, NEW m, NEW q, NEW st \in SUBSET List, NEW x, StandsFor(m, q, st, x),
           NEW h \in List \ st, NEW i \in 1 .. Len(q[h])
    PROVE  /\ StandsFor(U!UnlinkEntry(m, q[h][i]),
                        [q EXCEPT ![h] = U!RemoveAt(q[h], i)], st, x \cup {q[h][i]})
           /\ m[2][q[h][i]] = At(q[h], h, i - 1) /\ m[1][q[h][i]] = At(q[h], h, i + 1)
  <1>1. /\ q \in [List -> Seq(Entry)] /\ Disjoint(q) /\ m[1] \in Pointers /\ m[2] \in Pointers
        /\ h \in List
    BY DEF StandsFor
  <1>2. PICK s \in Seq(Entry), n \in Nat : s = q[h] /\ n = Len(s)
    BY <1>1, LenProperties
  <1>3. i \in 1 .. n /\ i \in 0 .. n /\ i - 1 \in 0 .. n /\ (i - 1) + 1 = i
    BY <1>2
  <1>4. PICK e \in Entry : e = s[i] /\ e = At(s, h, i)
    <2>1. i \in 1 .. Len(s)
      BY <1>2
    <2>2. At(s, h, i) = s[i] /\ s[i] \in Entry
      BY <2>1, AtIs
    <2> QED
      BY <2>2
  <1>5. PICK p, b : p = At(s, h, i - 1) /\ b = At(s, h, i + 1)
    OBVIOUS
  <1>6. \A j \in 0 .. n : m[1][At(s, h, j)] = At(s, h, j + 1) /\ m[2][At(s, h, j + 1)] = At(s, h, j)
    BY <1>2 DEF StandsFor, RingOf
  <1>7. m[2][e] = p /\ m[1][e] = b
    BY <1>3, <1>4, <1>5, <1>6
  <1>8. \A g \in List : \A j \in Int : At(q[g], g, j) \in U!Node
    BY <1>1, AtNode
  <1>9. p \in U!Node /\ b \in U!Node
    BY <1>2, <1>3, <1>5, <1>8
  <1>10. PICK r : r = U!UnlinkEntry(m, e)
    OBVIOUS
  <1>11. /\ r[1] \in Pointers /\ r[2] \in Pointers
         /\ r[1][p] = b /\ r[2][b] = p
         /\ \A y \in U!Node \ {p} : r[1][y] = m[1][y]
         /\ \A y \in U!Node \ {b} : r[2][y] = m[2][y]
    <2> DEFINE o == U!Unlink(m, p, b)
    <2>1. /\ o[1] \in Pointers /\ o[2] \in Pointers
          /\ o[1][p] = b /\ o[2][b] = p
          /\ \A y \in U!Node \ {p} : o[1][y] = m[1][y]
          /\ \A y \in U!Node \ {b} : o[2][y] = m[2][y]
      BY <1>1, <1>9, Unlinked2
    <2>2. r = o
      BY <1>7, <1>10 DEF U!UnlinkEntry
    <2> HIDE DEF o
    <2> QED
      BY <2>1, <2>2
  <1>12. PICK t : t = [q EXCEPT ![h] = U!RemoveAt(q[h], i)]
    OBVIOUS
  <1>13. /\ t \in [List -> Seq(Entry)] /\ Disjoint(t)
         /\ \A y \in Entry : Within(t, y) <=> y # e /\ Within(q, y)
    <2>1. q[h][i] = e
      BY <1>2, <1>4
    <2> QED
      BY <1>1, <1>12, <2>1, LeftApart
  <1>14. t[h] = U!RemoveAt(s, i) /\ \A g \in List \ {h} : t[g] = q[g]
    BY <1>1, <1>2, <1>12
  <1>15. \A g \in st : t[g] = <<>>
    BY <1>14 DEF StandsFor
  <1>16. ASSUME NEW g \in List \ st, g # h PROVE RingOf(r, g, t[g])
    <2>1. RingOf(m, g, q[g]) /\ q[g] \in Seq(Entry) /\ t[g] = q[g] /\ Len(q[g]) \in Nat
      BY <1>1, <1>14, <1>16, LenProperties DEF StandsFor
    <2>2. ASSUME NEW j \in 0 .. Len(q[g])
          PROVE  r[1][At(q[g], g, j)] = m[1][At(q[g], g, j)]
      <3>1. At(q[g], g, j) # p
        BY <1>1, <1>2, <1>3, <1>5, <1>16, AtApart
      <3> QED
        BY <1>8, <1>11, <3>1
    <2>3. ASSUME NEW j \in 0 .. Len(q[g])
          PROVE  r[2][At(q[g], g, j + 1)] = m[2][At(q[g], g, j + 1)]
      <3>1. At(q[g], g, j + 1) # b
        BY <1>1, <1>2, <1>3, <1>5, <1>16, AtApartNext
      <3>2. At(q[g], g, j + 1) \in U!Node
        BY <1>8
      <3> QED
        BY <1>11, <3>1, <3>2
    <2> QED
      BY <2>1, <2>2, <2>3, RingStays
  <1>17. RingOf(r, h, t[h])
    <2>1. PICK u : u = t[h]
      OBVIOUS
    <2>2. Len(u) = n - 1
      BY <1>2, <1>14, <2>1, RemoveIs
    <2>3. \A j \in 0 .. n : At(u, h, j) = IF j < i THEN At(s, h, j) ELSE At(s, h, j + 1)
      BY <1>2, <1>14, <2>1, AtRemoved
    <2>4. \A j \in 0 .. n : /\ j # i - 1 => At(s, h, j) # p
                            /\ j # i => At(s, h, j + 1) # b
      BY <1>1, <1>2, <1>3, <1>5, AtApart, AtApartNext
    <2>5. \A j \in 0 .. n : At(s, h, j) \in U!Node /\ At(s, h, j + 1) \in U!Node
      BY <1>2, <1>8
    <2>6. \A j \in 0 .. n : /\ j # i - 1 => r[1][At(s, h, j)] = At(s, h, j + 1)
                            /\ j # i => r[2][At(s, h, j + 1)] = At(s, h, j)
      BY <1>6, <1>11, <2>4, <2>5
    <2>7. ASSUME NEW j \in 0 .. n - 1
          PROVE  r[1][At(u, h, j)] = At(u, h, j + 1) /\ r[2][At(u, h, j + 1)] = At(u, h, j)
      <3>1. CASE j < i - 1
        <4>1. /\ At(u, h, j) = At(s, h, j) /\ At(u, h, j + 1) = At(s, h, j + 1)
              /\ j \in 0 .. n /\ j # i - 1 /\ j # i
          BY <1>3, <2>3, <3>1
        <4> QED
          BY <2>6, <4>1
      <3>2. CASE j = i - 1
        <4>1. At(u, h, j) = p /\ At(u, h, j + 1) = b
          BY <1>3, <1>5, <2>3, <3>2
        <4> QED
          BY <1>11, <4>1
      <3>3. CASE j > i - 1
        <4>1. PICK k \in 0 .. n : k = j + 1 /\ k # i - 1 /\ k # i
          BY <1>3, <3>3
        <4>2. At(u, h, j) = At(s, h, k) /\ At(u, h, j + 1) = At(s, h, k + 1)
          <5>1. /\ j \in 0 .. n /\ ~(j < i)
                /\ j + 1 \in 0 .. n /\ ~(j + 1 < i) /\ (j + 1) + 1 = k + 1
            BY <1>3, <3>3, <4>1
          <5> QED
            BY <2>3, <4>1, <5>1
        <4> QED
          BY <2>6, <4>1, <4>2
      <3> QED
        BY <1>3, <3>1, <3>2, <3>3
    <2> QED
      BY <2>1, <2>2, <2>7 DEF RingOf
  <1>18. ASSUME NEW y \in Entry \ (x \cup {e}), ~Within(t, y) PROVE r[1][y] \in {y, Null}
    <2>1. y # e /\ ~Within(q, y) /\ y \in U!Node /\ y \notin x
      BY <1>13, <1>18 DEF U!Node
    <2>2. m[1][y] \in {y, Null}
      BY <2>1 DEF StandsFor
    <2>3. y # p
      <3>1. p = h \/ (i - 1 \in 1 .. Len(q[h]) /\ p = q[h][i - 1])
        BY <1>2, <1>5 DEF At
      <3>2. y # h
        BY <1>1 DEF U!ListAssumption
      <3> QED
        BY <1>1, <2>1, <3>1, <3>2 DEF Within
    <2> QED
      BY <1>11, <2>1, <2>2, <2>3
  <1>19. StandsFor(r, t, st, x \cup {e})
    BY <1>11, <1>13, <1>15, <1>16, <1>17, <1>18 DEF StandsFor
  <1> QED
    BY <1>2, <1>4, <1>5, <1>7, <1>10, <1>12, <1>19

\* An entry in no list is pointed to itself, or to nothing.
LEMMA Cleared ==
    ASSUME U!ListAssumption, NEW m, NEW q, NEW st \in SUBSET List, NEW x, StandsFor(m, q, st, x),
           NEW e \in Entry, ~Within(q, e), NEW to \in {e, Null}
    PROVE  StandsFor(U!Point(m, e, to), q, st, x \ {e})
  <1>1. /\ q \in [List -> Seq(Entry)] /\ Disjoint(q) /\ m[1] \in Pointers /\ m[2] \in Pointers
        /\ \A h \in st : q[h] = <<>>
    BY DEF StandsFor
  <1>2. e \in U!Node /\ to \in U!Node \cup {Null}
    BY DEF U!Node
  <1>3. PICK r : r = U!Point(m, e, to)
    OBVIOUS
  <1>4. /\ r[1] \in Pointers /\ r[2] \in Pointers /\ r[1][e] = to
        /\ \A y \in U!Node \ {e} : r[1][y] = m[1][y] /\ r[2][y] = m[2][y]
    <2> DEFINE o == U!Point(m, e, to)
    <2>1. /\ o[1] \in Pointers /\ o[2] \in Pointers /\ o[1][e] = to
          /\ \A y \in U!Node \ {e} : o[1][y] = m[1][y] /\ o[2][y] = m[2][y]
      BY <1>1, <1>2, Pointed2
    <2> HIDE DEF o
    <2>2. r = o
      BY <1>3 DEF o
    <2> QED
      BY <2>1, <2>2
  <1>5. \A g \in List : \A j \in Int : At(q[g], g, j) \in U!Node /\ At(q[g], g, j) # e
    <2> SUFFICES ASSUME NEW g \in List, NEW j \in Int
                 PROVE  At(q[g], g, j) \in U!Node /\ At(q[g], g, j) # e
      OBVIOUS
    <2>1. q[g] \in Seq(Entry) /\ g \notin Entry
      BY <1>1 DEF U!ListAssumption
    <2>2. At(q[g], g, j) \in U!Node
      BY <2>1, AtNode
    <2> QED
      BY <2>1, <2>2 DEF At, Within
  <1>6. ASSUME NEW g \in List \ st PROVE RingOf(r, g, q[g])
    <2>1. RingOf(m, g, q[g]) /\ q[g] \in Seq(Entry) /\ Len(q[g]) \in Nat
      BY <1>1, LenProperties DEF StandsFor
    <2>2. \A j \in Int : /\ r[1][At(q[g], g, j)] = m[1][At(q[g], g, j)]
                         /\ r[2][At(q[g], g, j)] = m[2][At(q[g], g, j)]
      BY <1>4, <1>5
    <2>3. \A j \in 0 .. Len(q[g]) : j \in Int /\ j + 1 \in Int
      BY <2>1
    <2> QED
      BY <2>1, <2>2, <2>3, RingStays
  <1>7. ASSUME NEW y \in Entry \ (x \ {e}), ~Within(q, y) PROVE r[1][y] \in {y, Null}
    <2>1. CASE y = e
      BY <1>4, <2>1
    <2>2. CASE y # e
      <3>1. y \in U!Node /\ m[1][y] \in {y, Null}
        BY <1>7, <2>2 DEF StandsFor, U!Node
      <3> QED
        BY <1>4, <2>2, <3>1
    <2> QED
      BY <2>1, <2>2
  <1> QED
    BY <1>1, <1>3, <1>4, <1>6, <1>7 DEF StandsFor

\* A head that is no list becomes an empty one.
LEMMA Initialised ==
    ASSUME U!ListAssumption, NEW m, NEW q, NEW st \in SUBSET List, NEW x, StandsFor(m, q, st, x),
           NEW l \in st
    PROVE  StandsFor(U!Point(m, l, l), q, st \ {l}, x)
  <1>1. /\ q \in [List -> Seq(Entry)] /\ Disjoint(q) /\ m[1] \in Pointers /\ m[2] \in Pointers
        /\ \A h \in st : q[h] = <<>>
    BY DEF StandsFor
  <1>2. l \in List /\ l \in U!Node /\ l \in U!Node \cup {Null} /\ q[l] = <<>> /\ l \notin Entry
    BY <1>1 DEF U!Node, U!ListAssumption
  <1>3. PICK r : r = U!Point(m, l, l)
    OBVIOUS
  <1>4. /\ r[1] \in Pointers /\ r[2] \in Pointers /\ r[1][l] = l /\ r[2][l] = l
        /\ \A y \in U!Node \ {l} : r[1][y] = m[1][y] /\ r[2][y] = m[2][y]
    <2> DEFINE o == U!Point(m, l, l)
    <2>1. /\ o[1] \in Pointers /\ o[2] \in Pointers /\ o[1][l] = l /\ o[2][l] = l
          /\ \A y \in U!Node \ {l} : o[1][y] = m[1][y] /\ o[2][y] = m[2][y]
      BY <1>1, <1>2, Pointed2
    <2> HIDE DEF o
    <2>2. r = o
      BY <1>3 DEF o
    <2> QED
      BY <2>1, <2>2
  <1>5. ASSUME NEW g \in List \ st PROVE RingOf(r, g, q[g])
    <2>1. RingOf(m, g, q[g]) /\ q[g] \in Seq(Entry) /\ Len(q[g]) \in Nat /\ g # l /\ g \in List
      BY <1>1, LenProperties DEF StandsFor
    <2>2. \A j \in Int : At(q[g], g, j) \in U!Node /\ At(q[g], g, j) # l
      BY <1>2, <2>1, AtNode
    <2>3. \A j \in Int : /\ r[1][At(q[g], g, j)] = m[1][At(q[g], g, j)]
                         /\ r[2][At(q[g], g, j)] = m[2][At(q[g], g, j)]
      BY <1>4, <2>2
    <2>4. \A j \in 0 .. Len(q[g]) : j \in Int /\ j + 1 \in Int
      BY <2>1
    <2> QED
      BY <2>1, <2>3, <2>4, RingStays
  <1>6. RingOf(r, l, q[l])
    <2>1. Len(q[l]) = 0
      BY <1>2
    <2>2. \A j \in 0 .. 1 : At(q[l], l, j) = l
      BY <2>1 DEF At
    <2> QED
      BY <1>4, <2>1, <2>2 DEF RingOf
  <1>7. ASSUME NEW y \in Entry \ x, ~Within(q, y) PROVE r[1][y] \in {y, Null}
    <2>1. y \in U!Node /\ m[1][y] \in {y, Null} /\ y # l
      BY <1>2, <1>7 DEF StandsFor, U!Node
    <2> QED
      BY <1>4, <2>1
  <1>8. \A g \in List \ (st \ {l}) : RingOf(r, g, q[g])
    BY <1>5, <1>6
  <1> QED
    BY <1>1, <1>3, <1>4, <1>7, <1>8 DEF StandsFor

\* The list l put in front of the list h.
LEMMA JoinedApart ==
    ASSUME NEW q \in [List -> Seq(Entry)], Disjoint(q), NEW h \in List, NEW l \in List, l # h
    PROVE  LET t == [q EXCEPT ![l] = <<>>, ![h] = q[l] \o q[h]]
           IN  /\ t \in [List -> Seq(Entry)] /\ Disjoint(t)
               /\ \A y \in Entry : Within(t, y) <=> Within(q, y)
  <1>1. PICK s \in Seq(Entry), a \in Nat : s = q[l] /\ a = Len(s)
    BY LenProperties
  <1>2. PICK v \in Seq(Entry), b \in Nat : v = q[h] /\ b = Len(v)
    BY LenProperties
  <1>3. PICK u : u = s \o v
    OBVIOUS
  <1>4. /\ u \in Seq(Entry) /\ Len(u) = a + b
        /\ \A j \in 1 .. a + b : u[j] = IF j <= a THEN s[j] ELSE v[j - a]
    BY <1>1, <1>2, <1>3, ConcatProperties
  <1>5. PICK t : t = [q EXCEPT ![l] = <<>>, ![h] = q[l] \o q[h]]
    OBVIOUS
  <1>6. /\ t \in [List -> Seq(Entry)] /\ t[h] = u /\ t[l] = <<>> /\ Len(t[l]) = 0
        /\ \A g \in List \ {h, l} : t[g] = q[g]
    <2>1. <<>> \in Seq(Entry) /\ Len(<<>>) = 0
      OBVIOUS
    <2> QED
      BY <1>1, <1>2, <1>3, <1>4, <1>5, <2>1
  <1>7. ASSUME NEW j \in 1 .. a + b
        PROVE  \/ j <= a /\ \E k \in 1 .. a : k = j /\ u[j] = s[k]
               \/ j > a /\ \E k \in 1 .. b : k = j - a /\ u[j] = v[k]
    <2>1. CASE j <= a
      <3>1. j \in 1 .. a
        BY <2>1
      <3> QED
        BY <1>4, <2>1, <3>1
    <2>2. CASE ~(j <= a)
      <3>1. PICK k \in 1 .. b : k = j - a
        BY <2>2
      <3>2. u[j] = v[k]
        BY <1>4, <2>2, <3>1
      <3> QED
        BY <2>2, <3>1, <3>2
    <2> QED
      BY <2>1, <2>2
  <1>8. \A j, k \in 1 .. a : s[j] = s[k] => j = k
    BY <1>1 DEF Disjoint
  <1>9. \A j, k \in 1 .. b : v[j] = v[k] => j = k
    BY <1>2 DEF Disjoint
  <1>10. \A j \in 1 .. a, k \in 1 .. b : s[j] # v[k]
    BY <1>1, <1>2 DEF Disjoint
  <1>11. ASSUME NEW j \in 1 .. a + b, NEW k \in 1 .. a + b, u[j] = u[k] PROVE j = k
    <2>1. j <= a <=> k <= a
      BY <1>7, <1>10, <1>11
    <2>2. CASE j <= a
      BY <1>7, <1>8, <1>11, <2>1, <2>2
    <2>3. CASE ~(j <= a)
      <3>1. PICK i \in 1 .. b : i = j - a /\ u[j] = v[i]
        BY <1>7, <2>3
      <3>2. PICK n \in 1 .. b : n = k - a /\ u[k] = v[n]
        BY <1>7, <2>1, <2>3
      <3>3. i = n
        BY <1>9, <1>11, <3>1, <3>2
      <3> QED
        BY <3>1, <3>2, <3>3
    <2> QED
      BY <2>2, <2>3
  <1>12. ASSUME NEW g \in List \ {h, l}, NEW j \in 1 .. a + b, NEW k \in 1 .. Len(q[g])
         PROVE  u[j] # q[g][k]
    <2>1. \A i \in 1 .. a : s[i] # q[g][k]
      BY <1>1 DEF Disjoint
    <2>2. \A i \in 1 .. b : v[i] # q[g][k]
      BY <1>2 DEF Disjoint
    <2> QED
      BY <1>7, <2>1, <2>2
  <1>13. Disjoint(t)
    <2> SUFFICES ASSUME NEW f \in List, NEW g \in List,
                        NEW j \in 1 .. Len(t[f]), NEW k \in 1 .. Len(t[g]), t[f][j] = t[g][k]
                 PROVE  f = g /\ j = k
      BY DEF Disjoint
    <2>1. f # l /\ g # l
      <3>1. 1 .. Len(t[l]) = {}
        BY <1>6
      <3> QED
        BY <3>1
    <2>2. CASE f = h /\ g = h
      BY <1>4, <1>6, <1>11, <2>2
    <2>3. CASE f = h /\ g # h
      BY <1>4, <1>6, <1>12, <2>1, <2>3
    <2>4. CASE f # h /\ g = h
      BY <1>4, <1>6, <1>12, <2>1, <2>4
    <2>5. CASE f # h /\ g # h
      BY <1>6, <2>1, <2>5 DEF Disjoint
    <2> QED
      BY <2>2, <2>3, <2>4, <2>5
  <1>14. ASSUME NEW y \in Entry PROVE Within(t, y) <=> Within(q, y)
    <2>1. ASSUME Within(t, y) PROVE Within(q, y)
      <3>1. PICK g \in List : \E j \in 1 .. Len(t[g]) : t[g][j] = y
        BY <2>1 DEF Within
      <3>2. g # l
        BY <1>6, <3>1
      <3>3. CASE g # h
        BY <1>6, <3>1, <3>2, <3>3 DEF Within
      <3>4. CASE g = h
        <4>1. PICK j \in 1 .. a + b : u[j] = y
          BY <1>4, <1>6, <3>1, <3>4
        <4>2. (\E k \in 1 .. a : s[k] = y) \/ (\E k \in 1 .. b : v[k] = y)
          BY <1>7, <4>1
        <4> QED
          BY <1>1, <1>2, <4>2 DEF Within
      <3> QED
        BY <3>3, <3>4
    <2>2. ASSUME Within(q, y) PROVE Within(t, y)
      <3>1. PICK g \in List : \E j \in 1 .. Len(q[g]) : q[g][j] = y
        BY <2>2 DEF Within
      <3>2. CASE g \notin {h, l}
        BY <1>6, <3>1, <3>2 DEF Within
      <3>3. CASE g = l
        <4>1. PICK k \in 1 .. a : s[k] = y
          BY <1>1, <3>1, <3>3
        <4>2. k \in 1 .. a + b /\ k <= a
          OBVIOUS
        <4>3. u[k] = y
          BY <1>4, <4>1, <4>2
        <4> QED
          BY <1>4, <1>6, <4>2, <4>3 DEF Within
      <3>4. CASE g = h
        <4>1. PICK k \in 1 .. b : v[k] = y
          BY <1>2, <3>1, <3>4
        <4>2. PICK j \in 1 .. a + b : j = a + k
          OBVIOUS
        <4>3. ~(j <= a) /\ j - a = k
          BY <4>2
        <4>4. u[j] = y
          BY <1>4, <4>1, <4>3
        <4> QED
          BY <1>4, <1>6, <4>4 DEF Within
      <3> QED
        BY <3>2, <3>3, <3>4
    <2> QED
      BY <2>1, <2>2
  <1> QED
    BY <1>5, <1>6, <1>13, <1>14

LEMMA AtJoined ==
    ASSUME NEW h, NEW l, NEW s \in Seq(Entry), NEW v \in Seq(Entry), Len(s) # 0,
           NEW j \in 0 .. Len(s) + Len(v) + 1
    PROVE  At(s \o v, h, j) = IF j = 0 THEN h ELSE IF j <= Len(s) THEN At(s, l, j)
                              ELSE At(v, h, j - Len(s))
  <1>1. PICK a \in Nat, b \in Nat : a = Len(s) /\ b = Len(v)
    BY LenProperties
  <1>2. PICK u : u = s \o v
    OBVIOUS
  <1>3. /\ Len(u) = a + b
        /\ \A k \in 1 .. a + b : u[k] = IF k <= a THEN s[k] ELSE v[k - a]
    BY <1>1, <1>2, ConcatProperties
  <1>4. At(u, h, j) = IF j \in 1 .. a + b THEN u[j] ELSE h
    BY <1>3 DEF At
  <1>5. /\ At(s, l, j) = IF j \in 1 .. a THEN s[j] ELSE l
        /\ At(v, h, j - a) = IF j - a \in 1 .. b THEN v[j - a] ELSE h
    BY <1>1 DEF At
  <1>6. At(u, h, j) = IF j = 0 THEN h ELSE IF j <= a THEN At(s, l, j) ELSE At(v, h, j - a)
    <2>1. CASE j = 0
      BY <1>4, <2>1
    <2>2. CASE j # 0 /\ j <= a
      <3>1. j \in 1 .. a /\ j \in 1 .. a + b
        BY <1>1, <2>2
      <3> QED
        BY <1>3, <1>4, <1>5, <2>2, <3>1
    <2>3. CASE ~(j <= a)
      <3>1. j - a \in 1 .. b <=> j \in 1 .. a + b
        BY <1>1, <2>3
      <3>2. j \in 1 .. a + b => u[j] = v[j - a]
        BY <1>3, <2>3
      <3>3. j # 0
        BY <1>1, <2>3
      <3> QED
        BY <1>4, <1>5, <2>3, <3>1, <3>2, <3>3
    <2> QED
      BY <2>1, <2>2, <2>3
  <1> QED
    BY <1>1, <1>2, <1>6

LEMMA Spliced ==
    ASSUME U!ListAssumption, NEW m, NEW q, NEW st \in SUBSET List, NEW x, StandsFor(m, q, st, x),
           NEW l \in List \ st, NEW h \in List \ st, l # h, Len(q[l]) # 0
    PROVE  StandsFor(U!SpliceAt(m, l, h), [q EXCEPT ![l] = <<>>, ![h] = q[l] \o q[h]],
                     st \cup {l}, x)
  <1>1. /\ q \in [List -> Seq(Entry)] /\ Disjoint(q) /\ m[1] \in Pointers /\ m[2] \in Pointers
        /\ \A g \in st : q[g] = <<>>
    BY DEF StandsFor
  <1>2. PICK s \in Seq(Entry), a \in Nat \ {0} : s = q[l] /\ a = Len(s)
    BY <1>1, LenProperties
  <1>3. PICK v \in Seq(Entry), b \in Nat : v = q[h] /\ b = Len(v)
    BY <1>1, LenProperties
  <1>4. PICK first, tail, at : first = At(s, l, 1) /\ tail = At(s, l, a) /\ at = At(v, h, 1)
    OBVIOUS
  <1>5. \A j \in 0 .. a : m[1][At(s, l, j)] = At(s, l, j + 1) /\ m[2][At(s, l, j + 1)] = At(s, l, j)
    BY <1>2 DEF StandsFor, RingOf
  <1>6. \A j \in 0 .. b : m[1][At(v, h, j)] = At(v, h, j + 1) /\ m[2][At(v, h, j + 1)] = At(v, h, j)
    BY <1>3 DEF StandsFor, RingOf
  <1>7. /\ At(s, l, 0) = l /\ At(s, l, a + 1) = l /\ At(v, h, 0) = h
        /\ tail = s[a] /\ tail \in Entry /\ a \in 1 .. Len(s)
    <2>1. a \in 1 .. Len(s)
      BY <1>2
    <2>2. At(s, l, 0) = l /\ At(s, l, Len(s) + 1) = l /\ At(v, h, 0) = h
      BY AtIs
    <2>3. At(s, l, a) = s[a] /\ s[a] \in Entry
      <3>1. \A i \in 1 .. Len(s) : At(s, l, i) = s[i] /\ s[i] \in Entry
        BY AtIs
      <3> QED
        BY <2>1, <3>1
    <2> QED
      BY <1>2, <1>4, <2>1, <2>2, <2>3
  <1>8. m[1][l] = first /\ m[2][l] = tail /\ m[1][h] = at
    <2>1. 0 \in 0 .. a /\ a \in 0 .. a /\ 0 \in 0 .. b /\ 0 + 1 = 1
      BY <1>2, <1>3
    <2>2. m[1][At(s, l, 0)] = At(s, l, 0 + 1) /\ m[2][At(s, l, a + 1)] = At(s, l, a)
      BY <1>5, <2>1
    <2>3. m[1][At(v, h, 0)] = At(v, h, 0 + 1)
      BY <1>6, <2>1
    <2> QED
      BY <1>4, <1>7, <2>1, <2>2, <2>3
  <1>9. \A g \in List : \A j \in Int : At(q[g], g, j) \in U!Node
    BY <1>1, AtNode
  <1>10. first \in U!Node /\ tail \in U!Node /\ at \in U!Node /\ h \in U!Node /\ h # tail
    BY <1>2, <1>3, <1>4, <1>7, <1>9 DEF U!Node, U!ListAssumption
  <1>11. first # at
    <2>1. 0 \in 0 .. Len(q[l]) /\ 0 \in 0 .. Len(q[h]) /\ 0 + 1 = 1
      BY <1>2, <1>3
    <2>2. At(q[l], l, 0 + 1) # At(q[h], h, 0 + 1)
      BY <1>1, <2>1, AtApartNext
    <2> QED
      BY <1>2, <1>3, <1>4, <2>1, <2>2
  <1>12. PICK r : r = U!SpliceAt(m, l, h)
    OBVIOUS
  <1>13. /\ r[1] \in Pointers /\ r[2] \in Pointers
         /\ r[1][h] = first /\ r[1][tail] = at /\ r[2][first] = h /\ r[2][at] = tail
         /\ \A y \in U!Node \ {h, tail} : r[1][y] = m[1][y]
         /\ \A y \in U!Node \ {first, at} : r[2][y] = m[2][y]
    <2>1. r = <<[m[1] EXCEPT ![h] = first, ![tail] = at],
               [m[2] EXCEPT ![first] = h, ![at] = tail]>>
      BY <1>8, <1>12 DEF U!SpliceAt
    <2>2. /\ r[1] = [m[1] EXCEPT ![h] = first, ![tail] = at]
          /\ r[2] = [m[2] EXCEPT ![first] = h, ![at] = tail]
      BY <2>1
    <2>3. PICK f \in Pointers, g \in Pointers : f = m[1] /\ g = m[2]
      BY <1>1
    <2>4. /\ r[1] = [f EXCEPT ![h] = first, ![tail] = at]
          /\ r[2] = [g EXCEPT ![first] = h, ![at] = tail]
      BY <2>2, <2>3
    <2>5. /\ r[1] \in Pointers /\ r[1][h] = first /\ r[1][tail] = at
          /\ \A y \in U!Node \ {h, tail} : r[1][y] = m[1][y]
      BY <1>10, <2>3, <2>4 DEF Pointers
    <2>6. /\ r[2] \in Pointers /\ r[2][first] = h /\ r[2][at] = tail
          /\ \A y \in U!Node \ {first, at} : r[2][y] = m[2][y]
      BY <1>10, <1>11, <2>3, <2>4 DEF Pointers
    <2> QED
      BY <2>5, <2>6
  <1>14. PICK t : t = [q EXCEPT ![l] = <<>>, ![h] = q[l] \o q[h]]
    OBVIOUS
  <1>15. /\ t \in [List -> Seq(Entry)] /\ Disjoint(t)
         /\ \A y \in Entry : Within(t, y) <=> Within(q, y)
    BY <1>1, <1>14, JoinedApart
  <1>16. t[h] = s \o v /\ t[l] = <<>> /\ \A g \in List \ {h, l} : t[g] = q[g]
    BY <1>1, <1>2, <1>3, <1>14
  <1>17. \A g \in st \cup {l} : t[g] = <<>>
    BY <1>1, <1>16
  \* None of the places stored to belongs to another list.
  <1>18. ASSUME NEW g \in List \ (st \cup {l}), g # h PROVE RingOf(r, g, t[g])
    <2>1. RingOf(m, g, q[g]) /\ q[g] \in Seq(Entry) /\ t[g] = q[g] /\ Len(q[g]) \in Nat
      BY <1>1, <1>16, <1>18, LenProperties DEF StandsFor
    <2>2. /\ 0 \in 0 .. Len(q[l]) /\ a \in 0 .. Len(q[l]) /\ 0 \in 0 .. Len(q[h]) /\ 0 + 1 = 1
          /\ tail = At(q[l], l, a) /\ h = At(q[h], h, 0)
          /\ first = At(q[l], l, 0 + 1) /\ at = At(q[h], h, 0 + 1)
      BY <1>2, <1>3, <1>4, <1>7
    <2>3. ASSUME NEW j \in 0 .. Len(q[g])
          PROVE  r[1][At(q[g], g, j)] = m[1][At(q[g], g, j)]
      <3>1. At(q[g], g, j) # tail
        BY <1>1, <1>18, <2>2, AtApart
      <3>2. At(q[g], g, j) # h
        BY <1>1, <1>18, <2>2, AtApart
      <3> QED
        BY <1>9, <1>13, <3>1, <3>2
    <2>4. ASSUME NEW j \in 0 .. Len(q[g])
          PROVE  r[2][At(q[g], g, j + 1)] = m[2][At(q[g], g, j + 1)]
      <3>1. At(q[g], g, j + 1) # first
        BY <1>1, <1>18, <2>2, AtApartNext
      <3>2. At(q[g], g, j + 1) # at
        BY <1>1, <1>18, <2>2, AtApartNext
      <3>3. At(q[g], g, j + 1) \in U!Node
        BY <1>9
      <3> QED
        BY <1>13, <3>1, <3>2, <3>3
    <2> QED
      BY <2>1, <2>3, <2>4, RingStays
  <1>19. RingOf(r, h, t[h])
    <2>1. PICK u : u = s \o v
      OBVIOUS
    <2>2. Len(u) = a + b
      BY <1>2, <1>3, <2>1, ConcatProperties
    <2>3. \A j \in 0 .. a + b + 1 :
            At(u, h, j) = IF j = 0 THEN h ELSE IF j <= a THEN At(s, l, j) ELSE At(v, h, j - a)
      <3>1. Len(s) # 0 /\ 0 .. a + b + 1 = 0 .. Len(s) + Len(v) + 1
        BY <1>2, <1>3
      <3>2. \A j \in 0 .. Len(s) + Len(v) + 1 :
              At(s \o v, h, j) = IF j = 0 THEN h ELSE IF j <= Len(s) THEN At(s, l, j)
                                 ELSE At(v, h, j - Len(s))
        BY <3>1, AtJoined
      <3> QED
        BY <1>2, <2>1, <3>1, <3>2
    <2>4. \A j \in 0 .. a : /\ j # a => At(s, l, j) # tail
                            /\ At(s, l, j) # h
                            /\ j # 0 => At(s, l, j + 1) # first
                            /\ At(s, l, j + 1) # at
      <3> SUFFICES ASSUME NEW j \in 0 .. a
                   PROVE  /\ j # a => At(s, l, j) # tail
                          /\ At(s, l, j) # h
                          /\ j # 0 => At(s, l, j + 1) # first
                          /\ At(s, l, j + 1) # at
        OBVIOUS
      <3>1. /\ j \in 0 .. Len(q[l]) /\ 0 \in 0 .. Len(q[l]) /\ a \in 0 .. Len(q[l])
            /\ 0 \in 0 .. Len(q[h]) /\ 0 + 1 = 1
            /\ tail = At(q[l], l, a) /\ h = At(q[h], h, 0)
            /\ first = At(q[l], l, 0 + 1) /\ at = At(q[h], h, 0 + 1) /\ s = q[l]
        BY <1>2, <1>3, <1>4, <1>7
      <3>2. j # a => At(s, l, j) # tail
        BY <1>1, <3>1, AtApart
      <3>3. At(s, l, j) # h
        BY <1>1, <3>1, AtApart
      <3>4. j # 0 => At(s, l, j + 1) # first
        BY <1>1, <3>1, AtApartNext
      <3>5. At(s, l, j + 1) # at
        BY <1>1, <3>1, AtApartNext
      <3> QED
        BY <3>2, <3>3, <3>4, <3>5
    <2>5. \A j \in 0 .. b : /\ At(v, h, j) # tail
                            /\ j # 0 => At(v, h, j) # h
                            /\ At(v, h, j + 1) # first
                            /\ j # 0 => At(v, h, j + 1) # at
      <3> SUFFICES ASSUME NEW j \in 0 .. b
                   PROVE  /\ At(v, h, j) # tail
                          /\ j # 0 => At(v, h, j) # h
                          /\ At(v, h, j + 1) # first
                          /\ j # 0 => At(v, h, j + 1) # at
        OBVIOUS
      <3>1. /\ j \in 0 .. Len(q[h]) /\ 0 \in 0 .. Len(q[l]) /\ a \in 0 .. Len(q[l])
            /\ 0 \in 0 .. Len(q[h]) /\ 0 + 1 = 1
            /\ tail = At(q[l], l, a) /\ h = At(q[h], h, 0)
            /\ first = At(q[l], l, 0 + 1) /\ at = At(q[h], h, 0 + 1) /\ v = q[h]
        BY <1>2, <1>3, <1>4, <1>7
      <3>2. At(v, h, j) # tail
        BY <1>1, <3>1, AtApart
      <3>3. j # 0 => At(v, h, j) # h
        BY <1>1, <3>1, AtApart
      <3>4. At(v, h, j + 1) # first
        BY <1>1, <3>1, AtApartNext
      <3>5. j # 0 => At(v, h, j + 1) # at
        BY <1>1, <3>1, AtApartNext
      <3> QED
        BY <3>2, <3>3, <3>4, <3>5
    <2>6. /\ \A j \in 0 .. a : At(s, l, j) \in U!Node /\ At(s, l, j + 1) \in U!Node
          /\ \A j \in 0 .. b : At(v, h, j) \in U!Node /\ At(v, h, j + 1) \in U!Node
      BY <1>2, <1>3, <1>9
    <2>7. ASSUME NEW j \in 0 .. a + b
          PROVE  r[1][At(u, h, j)] = At(u, h, j + 1) /\ r[2][At(u, h, j + 1)] = At(u, h, j)
      <3>1. CASE j = 0
        <4>1. At(u, h, j) = h /\ At(u, h, j + 1) = first
          BY <1>2, <1>4, <2>3, <3>1
        <4> QED
          BY <1>13, <4>1
      <3>2. CASE j # 0 /\ j < a
        <4>1. At(u, h, j) = At(s, l, j) /\ At(u, h, j + 1) = At(s, l, j + 1) /\ j \in 0 .. a /\ j # a
          BY <1>2, <2>3, <3>2
        <4> QED
          BY <1>5, <1>13, <2>4, <2>6, <3>2, <4>1
      <3>3. CASE j = a
        <4>1. At(u, h, j) = tail
          BY <1>2, <1>4, <2>3, <3>3
        <4>2. At(u, h, j + 1) = at
          <5>1. j + 1 \in 0 .. a + b + 1 /\ j + 1 # 0 /\ ~(j + 1 <= a) /\ (j + 1) - a = 1
            BY <1>2, <3>3
          <5> QED
            BY <1>4, <2>3, <5>1
        <4> QED
          BY <1>13, <4>1, <4>2
      <3>4. CASE j > a
        <4>1. PICK k \in 0 .. b : k = j - a /\ k # 0
          <5>1. j - a \in 0 .. b /\ j - a # 0
            BY <3>4
          <5> QED
            BY <5>1
        <4>2. At(u, h, j) = At(v, h, k) /\ At(u, h, j + 1) = At(v, h, k + 1)
          <5>1. /\ j \in 0 .. a + b + 1 /\ j # 0 /\ ~(j <= a)
                /\ j + 1 \in 0 .. a + b + 1 /\ j + 1 # 0 /\ ~(j + 1 <= a) /\ (j + 1) - a = k + 1
            BY <1>2, <3>4, <4>1
          <5> QED
            BY <2>3, <4>1, <5>1
        <4> QED
          BY <1>6, <1>13, <2>5, <2>6, <4>1, <4>2
      <3> QED
        BY <1>2, <3>1, <3>2, <3>3, <3>4
    <2> QED
      BY <1>16, <2>1, <2>2, <2>7 DEF RingOf
  <1>20. ASSUME NEW y \in Entry \ x, ~Within(t, y) PROVE r[1][y] \in {y, Null}
    <2>1. ~Within(q, y) /\ y \in U!Node
      BY <1>15, <1>20 DEF U!Node
    <2>2. m[1][y] \in {y, Null}
      BY <2>1 DEF StandsFor
    <2>3. y # tail /\ y # h
      BY <1>2, <1>7, <2>1 DEF Within, U!ListAssumption
    <2> QED
      BY <1>13, <2>1, <2>2, <2>3
  <1> QED
    BY <1>12, <1>13, <1>14, <1>15, <1>17, <1>18, <1>19, <1>20 DEF StandsFor

-----------------------------------------------------------------------------
(* Walking a ring gives its list, and back gives it reversed *)

\* f is g applied again and again, K times, from h on.
Iterates(f, g, h, K) ==
    /\ f = [k \in 0 .. K |-> f[k]] /\ f[0] = h
    /\ \A k \in 1 .. K : f[k - 1] \in DOMAIN g /\ f[k] = g[f[k - 1]]

LEMMA Iterated ==
    ASSUME NEW X, NEW g, NEW h, g \in [X -> X], h \in X
    PROVE  \A K \in Nat : \E f : Iterates(f, g, h, K)
  <1> DEFINE Good(k) == \E f \in [0 .. k -> X] : f[0] = h /\ \A i \in 1 .. k : f[i] = g[f[i - 1]]
             T == {k \in Nat : ~Good(k)}
  <1>1. Good(0)
    <2>1. PICK f : f = [i \in 0 .. 0 |-> h]
      OBVIOUS
    <2>2. f \in [0 .. 0 -> X] /\ f[0] = h /\ \A i \in 1 .. 0 : f[i] = g[f[i - 1]]
      BY <2>1
    <2> QED
      BY <2>2
  <1>2. ASSUME NEW k \in Nat, Good(k) PROVE Good(k + 1)
    <2>1. PICK f \in [0 .. k -> X] : f[0] = h /\ \A i \in 1 .. k : f[i] = g[f[i - 1]]
      BY <1>2
    <2>2. PICK e : e = [i \in 0 .. k + 1 |-> IF i = k + 1 THEN g[f[k]] ELSE f[i]]
      OBVIOUS
    <2>3. e \in [0 .. k + 1 -> X] /\ e[0] = h
      BY <2>1, <2>2
    <2>4. ASSUME NEW i \in 1 .. k + 1 PROVE e[i] = g[e[i - 1]]
      <3>1. CASE i = k + 1
        BY <2>2, <3>1
      <3>2. CASE i # k + 1
        <4>1. i \in 1 .. k /\ i - 1 \in 0 .. k
          BY <3>2
        <4> QED
          BY <2>1, <2>2, <4>1
      <3> QED
        BY <3>1, <3>2
    <2> QED
      BY <2>3, <2>4
  <1> HIDE DEF Good
  <1>3. T = {}
    <2> SUFFICES ASSUME NEW k \in T PROVE FALSE
      OBVIOUS
    <2>1. T \in SUBSET Nat
      OBVIOUS
    <2>2. PICK c \in T : \A d \in T : c <= d
      BY <2>1, LeastOf
    <2>3. CASE c = 0
      BY <1>1, <2>2, <2>3
    <2>4. CASE c # 0
      <3>1. c - 1 \in Nat /\ (c - 1) + 1 = c /\ ~(c <= c - 1) /\ ~Good(c)
        BY <2>2, <2>4
      <3>2. c - 1 \notin T
        BY <2>2, <3>1
      <3>3. Good(c - 1)
        BY <3>1, <3>2
      <3> QED
        BY <1>2, <3>1, <3>3
    <2> QED
      BY <2>3, <2>4
  <1>4. ASSUME NEW K \in Nat PROVE \E f : Iterates(f, g, h, K)
    <2>1. PICK f \in [0 .. K -> X] : f[0] = h /\ \A i \in 1 .. K : f[i] = g[f[i - 1]]
      BY <1>3 DEF Good
    <2>2. \A i \in 1 .. K : i - 1 \in 0 .. K
      OBVIOUS
    <2>3. Iterates(f, g, h, K)
      BY <2>1, <2>2 DEF Iterates
    <2> QED
      BY <2>3
  <1> QED
    BY <1>4

\* The names of Ulist for what FiniteSets defines
LEMMA SameCount == /\ U!IsFiniteSet(Entry) <=> IsFiniteSet(Entry)
                   /\ U!Cardinality(Entry) = Cardinality(Entry)
  <1>1. U!IsFiniteSet(Entry) <=> IsFiniteSet(Entry)
    BY DEF U!IsFiniteSet, IsFiniteSet
  <1>2. U!Cardinality(Entry) = Cardinality(Entry)
    BY Zenon DEF U!Cardinality, Cardinality
  <1> QED
    BY <1>1, <1>2

\* A list is no longer than there are entries.
LEMMA ListFits ==
    ASSUME U!ListAssumption, NEW s \in Seq(Entry), \A i, j \in 1 .. Len(s) : s[i] = s[j] => i = j
    PROVE  Cardinality(Entry) \in Nat /\ Len(s) <= Cardinality(Entry)
  <1>1. PICK n \in Nat : n = Len(s) /\ s \in [1 .. n -> Entry]
    BY LenProperties
  <1>2. s \in Injection(1 .. n, Entry)
    BY <1>1 DEF Injection, IsInjective
  <1>3. IsFiniteSet(Entry)
    BY SameCount DEF U!ListAssumption
  <1>4. Cardinality(1 .. n) <= Cardinality(Entry)
    BY <1>2, <1>3, FS_Injection
  <1>5. Cardinality(1 .. n) = n
    <2>1. Cardinality(1 .. n) = IF 1 > n THEN 0 ELSE n - 1 + 1
      BY FS_Interval
    <2> QED
      BY <2>1
  <1>6. Cardinality(Entry) \in Nat
    BY <1>3, FS_CardinalityType
  <1> QED
    BY <1>1, <1>4, <1>5, <1>6

LEMMA Followed ==
    ASSUME NEW link \in Pointers, NEW h \in List, NEW K \in Nat
    PROVE  \E f : f = [k \in 0 .. K |->
                         IF k = 0 THEN h ELSE IF f[k - 1] = Null THEN Null ELSE link[f[k - 1]]]
  <1>1. PICK X : X = U!Node \cup {Null}
    OBVIOUS
  <1>2. PICK g : g = [y \in X |-> IF y = Null THEN Null ELSE link[y]]
    OBVIOUS
  <1>3. g \in [X -> X] /\ h \in X
    BY <1>1, <1>2 DEF Pointers, U!Node
  <1>4. PICK f : Iterates(f, g, h, K)
    BY <1>3, Iterated
  <1>5. ASSUME NEW k \in 0 .. K, k # 0
        PROVE  f[k] = IF f[k - 1] = Null THEN Null ELSE link[f[k - 1]]
    <2>1. k \in 1 .. K
      BY <1>5
    <2>2. f[k] = g[f[k - 1]] /\ f[k - 1] \in X
      BY <1>2, <1>4, <2>1 DEF Iterates
    <2> QED
      BY <1>2, <2>2
  <1>6. f = [k \in 0 .. K |->
               IF k = 0 THEN h ELSE IF f[k - 1] = Null THEN Null ELSE link[f[k - 1]]]
    <2>1. f = [k \in 0 .. K |-> f[k]] /\ f[0] = h /\ 0 \in 0 .. K
      BY <1>4 DEF Iterates
    <2> QED
      BY <1>5, <2>1
  <1> QED
    BY <1>6

LEMMA WalkIs ==
    ASSUME U!ListAssumption, NEW link \in Pointers, NEW h \in List, NEW s \in Seq(Entry),
           \A i, j \in 1 .. Len(s) : s[i] = s[j] => i = j,
           \A i \in 0 .. Len(s) : link[At(s, h, i)] = At(s, h, i + 1)
    PROVE  U!Walk(link, h) = s
  <1>1. PICK n \in Nat, N \in Nat : n = Len(s) /\ N = Cardinality(Entry) /\ n <= N
    BY ListFits, LenProperties
  <1> DEFINE after[k \in 0 .. (Cardinality(Entry) + 1)] ==
               IF k = 0 THEN h ELSE IF after[k - 1] = Null THEN Null ELSE link[after[k - 1]]
             back == {k \in DOMAIN after : k > 0 /\ after[k] = h}
  <1>2. U!Walk(link, h) = IF back = {} THEN Null ELSE [i \in 1 .. (U!Min(back) - 1) |-> after[i]]
    BY SameCount DEF U!Walk
  <1>5. PICK f : f = [k \in 0 .. (Cardinality(Entry) + 1) |->
                      IF k = 0 THEN h ELSE IF f[k - 1] = Null THEN Null ELSE link[f[k - 1]]]
    <2>1. N + 1 \in Nat
      OBVIOUS
    <2> QED
      BY <1>1, <2>1, Followed
  <1>6. after = [k \in 0 .. (Cardinality(Entry) + 1) |->
                   IF k = 0 THEN h ELSE IF after[k - 1] = Null THEN Null ELSE link[after[k - 1]]]
    BY <1>5
  <1> HIDE DEF after
  <1>7. ASSUME NEW k \in 0 .. N + 1
        PROVE  after[k] = IF k = 0 THEN h ELSE IF after[k - 1] = Null THEN Null ELSE link[after[k - 1]]
    BY <1>1, <1>6
  <1>8. \A k \in 0 .. n + 1 : after[k] = At(s, h, k)
    <2> DEFINE T == {k \in 0 .. n + 1 : after[k] # At(s, h, k)}
    <2> SUFFICES ASSUME NEW k \in T PROVE FALSE
      OBVIOUS
    <2>1. T \in SUBSET Nat
      OBVIOUS
    <2>2. PICK c \in T : \A d \in T : c <= d
      BY <2>1, LeastOf
    <2>3. c \in 0 .. n + 1 /\ c \in 0 .. N + 1 /\ after[c] # At(s, h, c)
      BY <1>1, <2>2
    <2>4. CASE c = 0
      BY <1>7, <2>3, <2>4, AtIs
    <2>5. CASE c # 0
      <3>1. PICK d \in 0 .. n : d = c - 1 /\ c = d + 1
        BY <2>3, <2>5
      <3>2. d \notin T
        BY <2>2, <2>3, <3>1
      <3>3. after[d] = At(s, h, d)
        BY <3>1, <3>2
      <3>4. At(s, h, d) # Null
        BY AtNode DEF U!ListAssumption
      <3>5. link[At(s, h, d)] = At(s, h, c)
        BY <1>1, <3>1
      <3> QED
        BY <1>7, <2>3, <2>5, <3>1, <3>3, <3>4, <3>5
    <2> QED
      BY <2>4, <2>5
  <1>9. DOMAIN after = 0 .. N + 1
    BY <1>1, <1>6
  <1>10. n + 1 \in back /\ \A k \in back : k \in Nat /\ n + 1 <= k
    <2>1. At(s, h, n + 1) = h
      BY <1>1, AtIs
    <2>2. n + 1 \in back
      BY <1>1, <1>8, <1>9, <2>1
    <2>3. ASSUME NEW k \in back PROVE k \in Nat /\ n + 1 <= k
      <3>1. k \in Nat /\ k > 0 /\ after[k] = h
        BY <1>9
      <3>2. CASE k <= n
        <4>1. k \in 1 .. Len(s)
          BY <1>1, <3>1, <3>2
        <4>2. At(s, h, k) \in Entry
          <5>1. \A i \in 1 .. Len(s) : At(s, h, i) = s[i] /\ s[i] \in Entry
            BY AtIs
          <5> QED
            BY <4>1, <5>1
        <4>3. k \in 0 .. n + 1
          BY <3>1, <3>2
        <4> QED
          BY <1>8, <3>1, <4>2, <4>3 DEF U!ListAssumption
      <3> QED
        BY <3>1, <3>2
    <2> QED
      BY <2>2, <2>3
  <1> HIDE DEF back
  <1>11. U!Min(back) = n + 1
    BY <1>10 DEF U!Min
  <1>12. U!Walk(link, h) = [i \in 1 .. n |-> after[i]]
    <2>1. (n + 1) - 1 = n /\ back # {}
      BY <1>10
    <2> QED
      BY <1>2, <1>11, <2>1
  <1>13. ASSUME NEW i \in 1 .. n PROVE after[i] = s[i]
    <2>1. i \in 0 .. n + 1 /\ i \in 1 .. Len(s)
      BY <1>1
    <2>2. At(s, h, i) = s[i]
      BY <2>1 DEF At
    <2> QED
      BY <1>8, <2>1, <2>2
  <1>14. s = [i \in 1 .. n |-> s[i]]
    BY <1>1
  <1> QED
    BY <1>12, <1>13, <1>14

\* From h on, link leads through the entries of s back to h.
Leads(link, h, s) ==
    /\ s \in Seq(Entry)
    /\ \A i, j \in 1 .. Len(s) : s[i] = s[j] => i = j
    /\ \A i \in 0 .. Len(s) : link[At(s, h, i)] = At(s, h, i + 1)

\* The same ring followed the other way
LEMMA WalkBack ==
    ASSUME U!ListAssumption, NEW link \in Pointers, NEW h \in List, NEW s \in Seq(Entry),
           \A i, j \in 1 .. Len(s) : s[i] = s[j] => i = j,
           \A i \in 0 .. Len(s) : link[At(s, h, i + 1)] = At(s, h, i)
    PROVE  U!Walk(link, h) = U!Reverse(s) /\ Leads(link, h, U!Reverse(s))
  <1>1. PICK n \in Nat : n = Len(s) /\ s \in [1 .. n -> Entry]
    BY LenProperties
  <1>2. PICK t : t = [i \in 1 .. n |-> s[(n - i) + 1]]
    OBVIOUS
  <1>3. U!Reverse(s) = t
    BY <1>1, <1>2 DEF U!Reverse
  <1>4. \A i \in 1 .. n : (n - i) + 1 \in 1 .. n
    OBVIOUS
  <1>5. t \in [1 .. n -> Entry]
    BY <1>1, <1>2, <1>4
  <1>6. t \in Seq(Entry) /\ Len(t) = n
    BY <1>5
  <1>7. \A i, j \in 1 .. Len(t) : t[i] = t[j] => i = j
    <2> SUFFICES ASSUME NEW i \in 1 .. n, NEW j \in 1 .. n, t[i] = t[j] PROVE i = j
      BY <1>6
    <2>1. s[(n - i) + 1] = s[(n - j) + 1]
      BY <1>2
    <2>2. (n - i) + 1 = (n - j) + 1
      BY <1>1, <1>4, <2>1
    <2> QED
      BY <2>2
  <1>8. ASSUME NEW i \in 0 .. n + 1 PROVE At(t, h, i) = At(s, h, (n + 1) - i)
    <2>1. i \in 1 .. n <=> (n + 1) - i \in 1 .. n
      OBVIOUS
    <2>2. i \in 1 .. n => t[i] = s[(n + 1) - i]
      <3>1. (n - i) + 1 = (n + 1) - i
        OBVIOUS
      <3> QED
        BY <1>2, <3>1
    <2> QED
      BY <1>1, <1>6, <2>1, <2>2 DEF At
  <1>9. ASSUME NEW i \in 0 .. Len(t) PROVE link[At(t, h, i)] = At(t, h, i + 1)
    <2>1. PICK k \in 0 .. n : k = n - i /\ (n + 1) - i = k + 1 /\ (n + 1) - (i + 1) = k
      BY <1>6
    <2>2. At(t, h, i) = At(s, h, k + 1) /\ At(t, h, i + 1) = At(s, h, k)
      <3>1. i \in 0 .. n + 1 /\ i + 1 \in 0 .. n + 1
        BY <1>6
      <3> QED
        BY <1>8, <2>1, <3>1
    <2> QED
      BY <1>1, <2>1, <2>2
  <1>10. U!Walk(link, h) = t
    BY <1>6, <1>7, <1>9, WalkIs
  <1>11. Leads(link, h, t)
    BY <1>6, <1>7, <1>9 DEF Leads
  <1> QED
    BY <1>3, <1>10, <1>11

-----------------------------------------------------------------------------
(* What the lists are, and where a node is in them *)

LEMMA ListsWalked ==
    ASSUME U!ListAssumption, NEW m, NEW q, NEW st \in SUBSET List, NEW x, StandsFor(m, q, st, x)
    PROVE  /\ \A h \in List \ st :
                /\ U!Walk(m[1], h) = q[h] /\ Leads(m[1], h, q[h])
                /\ U!Walk(m[2], h) = U!Reverse(q[h]) /\ Leads(m[2], h, U!Reverse(q[h]))
           /\ [h \in List |-> IF h \in st THEN <<>> ELSE U!Walk(m[1], h)] = q
  <1>1. ASSUME NEW h \in List \ st
        PROVE  /\ U!Walk(m[1], h) = q[h] /\ Leads(m[1], h, q[h])
               /\ U!Walk(m[2], h) = U!Reverse(q[h]) /\ Leads(m[2], h, U!Reverse(q[h]))
    <2>1. /\ q[h] \in Seq(Entry) /\ m[1] \in Pointers /\ m[2] \in Pointers /\ h \in List
          /\ \A i, j \in 1 .. Len(q[h]) : q[h][i] = q[h][j] => i = j
      BY DEF StandsFor, Disjoint
    <2>2. /\ \A i \in 0 .. Len(q[h]) : m[1][At(q[h], h, i)] = At(q[h], h, i + 1)
          /\ \A i \in 0 .. Len(q[h]) : m[2][At(q[h], h, i + 1)] = At(q[h], h, i)
      BY DEF StandsFor, RingOf
    <2>3. U!Walk(m[1], h) = q[h]
      BY <2>1, <2>2, WalkIs
    <2>4. U!Walk(m[2], h) = U!Reverse(q[h]) /\ Leads(m[2], h, U!Reverse(q[h]))
      BY <2>1, <2>2, WalkBack
    <2>5. Leads(m[1], h, q[h])
      BY <2>1, <2>2 DEF Leads
    <2> QED
      BY <2>3, <2>4, <2>5
  <1>2. /\ q = [h \in List |-> q[h]]
        /\ \A h \in st : q[h] = <<>>
    BY DEF StandsFor
  <1>3. \A h \in List : (IF h \in st THEN <<>> ELSE U!Walk(m[1], h)) = q[h]
    BY <1>1, <1>2
  <1> QED
    BY <1>1, <1>2, <1>3

\* A linked node has a place.
Located(q, st, p) == p \in List \ st \/ Within(q, p)

LEMMA PlaceFound ==
    ASSUME NEW m, NEW q, NEW st \in SUBSET List, NEW x, StandsFor(m, q, st, x),
           NEW p, Located(q, st, p)
    PROVE  \E h \in List \ st : \E i \in 0 .. Len(q[h]) : p = At(q[h], h, i)
  <1>1. q \in [List -> Seq(Entry)] /\ \A h \in st : q[h] = <<>>
    BY DEF StandsFor
  <1>2. CASE p \in List \ st
    <2>1. p = At(q[p], p, 0) /\ 0 \in 0 .. Len(q[p])
      BY <1>1, <1>2, AtIs, LenProperties
    <2> QED
      BY <1>2, <2>1
  <1>3. CASE Within(q, p)
    <2>0. PICK h \in List : \E i \in 1 .. Len(q[h]) : q[h][i] = p
      BY <1>3 DEF Within
    <2>1. PICK i \in 1 .. Len(q[h]) : q[h][i] = p
      BY <2>0
    <2>2. h \notin st
      <3>1. ASSUME h \in st PROVE FALSE
        <4>1. Len(q[h]) = 0
          BY <1>1, <3>1
        <4> QED
          BY <2>1, <4>1
      <3> QED
        BY <3>1
    <2>3. p = At(q[h], h, i) /\ i \in 0 .. Len(q[h])
      <3>1. Len(q[h]) \in Nat
        BY <1>1, LenProperties
      <3> QED
        BY <2>1, <3>1 DEF At
    <2> QED
      BY <2>2, <2>3
  <1> QED
    BY <1>2, <1>3 DEF Located

\* An entry whose own pointer says so is in a list.
LEMMA WithinIs ==
    ASSUME U!ListAssumption, NEW m, NEW q, NEW st \in SUBSET List, StandsFor(m, q, st, {}),
           NEW e \in Entry
    PROVE  Within(q, e) <=> m[1][e] \notin {e, Null}
  <1>1. /\ q \in [List -> Seq(Entry)] /\ Disjoint(q)
    BY DEF StandsFor
  <1>2. ASSUME ~Within(q, e) PROVE m[1][e] \in {e, Null}
    BY <1>2 DEF StandsFor
  <1>3. ASSUME Within(q, e) PROVE m[1][e] \notin {e, Null}
    <2>0. PICK h \in List \ st : \E i \in 0 .. Len(q[h]) : e = At(q[h], h, i)
      BY <1>3, PlaceFound DEF Located
    <2>1. PICK i \in 0 .. Len(q[h]) : e = At(q[h], h, i)
      BY <2>0
    <2>2. PICK n \in Nat : n = Len(q[h]) /\ q[h] \in Seq(Entry) /\ h \in List
      BY <1>1, LenProperties
    <2>3. m[1][e] = At(q[h], h, i + 1)
      BY <2>1 DEF StandsFor, RingOf
    <2>4. At(q[h], h, i + 1) # Null
      BY <2>2, AtNode DEF U!ListAssumption
    <2>5. At(q[h], h, i + 1) # e
      <3>1. CASE i = n
        <4>1. At(q[h], h, i + 1) = h
          BY <2>2, <3>1, AtIs
        <4> QED
          BY <2>2, <4>1 DEF U!ListAssumption
      <3>2. CASE i # n
        <4>1. i + 1 \in 0 .. Len(q[h]) /\ i + 1 # i
          BY <2>2, <3>2
        <4> QED
          BY <1>1, <2>1, <2>2, <4>1, AtApart
      <3> QED
        BY <3>1, <3>2
    <2> QED
      BY <2>3, <2>4, <2>5
  <1> QED
    BY <1>2, <1>3

\* A list is empty when its head points to itself.
LEMMA EmptyIs ==
    ASSUME U!ListAssumption, NEW m, NEW q, NEW st \in SUBSET List, NEW x, StandsFor(m, q, st, x),
           NEW l \in List \ st
    PROVE  m[1][l] = l <=> Len(q[l]) = 0
  <1>1. PICK s \in Seq(Entry), n \in Nat : s = q[l] /\ n = Len(s)
    BY LenProperties DEF StandsFor
  <1>2. m[1][l] = At(s, l, 1)
    <2>1. 0 \in 0 .. n /\ 0 + 1 = 1 /\ At(s, l, 0) = l
      BY <1>1, AtIs
    <2>2. m[1][At(s, l, 0)] = At(s, l, 0 + 1)
      BY <1>1, <2>1 DEF StandsFor, RingOf
    <2> QED
      BY <2>1, <2>2
  <1>3. n # 0 => At(s, l, 1) \in Entry
    <2>1. \A i \in 1 .. Len(s) : At(s, l, i) = s[i] /\ s[i] \in Entry
      BY AtIs
    <2> QED
      BY <1>1, <2>1
  <1>4. n = 0 => At(s, l, 1) = l
    BY <1>1 DEF At
  <1> QED
    BY <1>1, <1>2, <1>3, <1>4 DEF U!ListAssumption

-----------------------------------------------------------------------------
(* The operations on the pointers and those on the sequences *)

\* list_add behind the place i
LEMMA AddedAfter ==
    ASSUME U!ListAssumption, NEW m, NEW q, NEW st \in SUBSET List, NEW x, StandsFor(m, q, st, x),
           NEW h \in List \ st, NEW i \in 0 .. Len(q[h]), NEW e \in Entry, ~Within(q, e)
    PROVE  StandsFor(U!LinkAfter(m, e, At(q[h], h, i)),
                     [q EXCEPT ![h] = U!InsertAt(q[h], i + 1, e)], st, x \ {e})
  <1>1. m[1][At(q[h], h, i)] = At(q[h], h, i + 1)
    <2>1. RingOf(m, h, q[h])
      BY DEF StandsFor
    <2> QED
      BY <2>1 DEF RingOf
  <1>2. U!LinkAfter(m, e, At(q[h], h, i)) = U!Link(m, e, At(q[h], h, i), At(q[h], h, i + 1))
    BY <1>1 DEF U!LinkAfter
  <1>3. StandsFor(U!Link(m, e, At(q[h], h, i), At(q[h], h, i + 1)),
                  [q EXCEPT ![h] = U!InsertAt(q[h], i + 1, e)], st, x \ {e})
    BY Entered
  <1> QED
    BY <1>2, <1>3

\* list_add_tail in front of it: the head is behind the last place, too.
LEMMA AddedBefore ==
    ASSUME U!ListAssumption, NEW m, NEW q, NEW st \in SUBSET List, NEW x, StandsFor(m, q, st, x),
           NEW h \in List \ st, NEW i \in 0 .. Len(q[h]), NEW e \in Entry, ~Within(q, e)
    PROVE  StandsFor(U!LinkBefore(m, e, At(q[h], h, i)),
                     [q EXCEPT ![h] = U!InsertAt(q[h], IF i = 0 THEN Len(q[h]) + 1 ELSE i, e)],
                     st, x \ {e})
  <1>1. PICK n \in Nat : n = Len(q[h]) /\ q[h] \in Seq(Entry)
    BY LenProperties DEF StandsFor
  <1>2. PICK j \in 0 .. n : j = IF i = 0 THEN n ELSE i - 1
    <2>1. (IF i = 0 THEN n ELSE i - 1) \in 0 .. n
      BY <1>1
    <2> QED
      BY <2>1
  <1>3. At(q[h], h, j + 1) = At(q[h], h, i) /\ j + 1 = IF i = 0 THEN Len(q[h]) + 1 ELSE i
    <2>1. CASE i = 0
      BY <1>1, <1>2, <2>1, AtIs
    <2>2. CASE i # 0
      BY <1>1, <1>2, <2>2
    <2> QED
      BY <2>1, <2>2
  <1>4. m[2][At(q[h], h, i)] = At(q[h], h, j)
    <2>1. \A k \in 0 .. Len(q[h]) : m[2][At(q[h], h, k + 1)] = At(q[h], h, k)
      BY DEF StandsFor, RingOf
    <2> QED
      BY <1>1, <1>3, <2>1
  <1>5. U!LinkBefore(m, e, At(q[h], h, i)) = U!Link(m, e, At(q[h], h, j), At(q[h], h, j + 1))
    BY <1>3, <1>4 DEF U!LinkBefore
  <1>6. j \in 0 .. Len(q[h])
    BY <1>1
  <1>7. StandsFor(U!Link(m, e, At(q[h], h, j), At(q[h], h, j + 1)),
                  [q EXCEPT ![h] = U!InsertAt(q[h], j + 1, e)], st, x \ {e})
    BY <1>6, Entered
  <1> QED
    BY <1>3, <1>5, <1>7

\* What ListSeq says of them
LEMMA PlaceIs ==
    ASSUME NEW q \in [List -> Seq(Entry)], Disjoint(q), NEW h \in List, NEW i \in 1 .. Len(q[h])
    PROVE  U!Queues!PlaceOf(q[h], q[h][i]) = i
  <1>1. DOMAIN q[h] = 1 .. Len(q[h])
    BY LenProperties
  <1>2. \A j \in 1 .. Len(q[h]) : q[h][j] = q[h][i] <=> j = i
    BY DEF Disjoint
  <1> QED
    BY <1>1, <1>2 DEF U!Queues!PlaceOf

LEMMA PutWhere ==
    ASSUME U!ListAssumption, NEW q \in [List -> Seq(Entry)], Disjoint(q),
           NEW h \in List, NEW i \in 0 .. Len(q[h]), NEW p, p = At(q[h], h, i)
    PROVE  /\ (CHOOSE g \in List : p = g \/ p \in {q[g][j] : j \in DOMAIN q[g]}) = h
           /\ U!Queues!After(q[h], p) = i + 1
           /\ U!Queues!Before(q[h], p) = IF i = 0 THEN Len(q[h]) + 1 ELSE i
  <1>1. \A g \in List : q[g] \in Seq(Entry) /\ DOMAIN q[g] = 1 .. Len(q[g]) /\ Len(q[g]) \in Nat
    BY LenProperties
  <1>2. \/ i = 0 /\ p = h
        \/ i \in 1 .. Len(q[h]) /\ p = q[h][i] /\ p \in Entry
    <2>1. q[h] \in Seq(Entry)
      OBVIOUS
    <2>2. \/ i = 0 /\ At(q[h], h, i) = h
          \/ i \in 1 .. Len(q[h]) /\ At(q[h], h, i) = q[h][i] /\ q[h][i] \in Entry
      BY <2>1, AtPlace
    <2> QED
      BY <2>2
  <1>3. \A g \in List : \A j \in 0 .. Len(q[g]) : p = At(q[g], g, j) => g = h
    BY AtApart
  <1>4. \A g \in List : p = g \/ p \in {q[g][j] : j \in DOMAIN q[g]} => g = h
    <2> SUFFICES ASSUME NEW g \in List, p = g \/ p \in {q[g][j] : j \in DOMAIN q[g]} PROVE g = h
      OBVIOUS
    <2>1. CASE p = g
      BY <1>2, <2>1 DEF U!ListAssumption
    <2>2. CASE p \in {q[g][j] : j \in DOMAIN q[g]}
      <3>1. PICK j \in 1 .. Len(q[g]) : p = q[g][j]
        BY <1>1, <2>2
      <3>2. p = At(q[g], g, j) /\ j \in 0 .. Len(q[g])
        BY <1>1, <3>1 DEF At
      <3> QED
        BY <1>3, <3>2
    <2> QED
      BY <2>1, <2>2
  <1>5. p = h \/ p \in {q[h][j] : j \in DOMAIN q[h]}
    BY <1>1, <1>2
  <1>6. (CHOOSE g \in List : p = g \/ p \in {q[g][j] : j \in DOMAIN q[g]}) = h
    BY <1>4, <1>5
  <1>7. U!Queues!After(q[h], p) = i + 1 /\ U!Queues!Before(q[h], p) = IF i = 0 THEN Len(q[h]) + 1 ELSE i
    <2>1. CASE i = 0 /\ p = h
      BY <2>1 DEF U!Queues!After, U!Queues!Before
    <2>2. CASE i \in 1 .. Len(q[h]) /\ p = q[h][i] /\ p \in Entry
      <3>1. p \notin List /\ i # 0
        BY <2>2 DEF U!ListAssumption
      <3>2. U!Queues!PlaceOf(q[h], p) = i
        BY <2>2, PlaceIs
      <3> QED
        BY <3>1, <3>2 DEF U!Queues!After, U!Queues!Before
    <2> QED
      BY <1>2, <2>1, <2>2
  <1> QED
    BY <1>6, <1>7

PutAt(q, h, k, e) == [q EXCEPT ![h] = U!InsertAt(q[h], k, e)]
PutAfter(q, e, p) == U!Queues!Put(q, e, p, U!Queues!After)
PutBefore(q, e, p) == U!Queues!Put(q, e, p, U!Queues!Before)

LEMMA PutIs ==
    ASSUME U!ListAssumption, NEW q \in [List -> Seq(Entry)], Disjoint(q), NEW e,
           NEW h \in List, NEW i \in 0 .. Len(q[h])
    PROVE  /\ PutAfter(q, e, At(q[h], h, i)) = PutAt(q, h, i + 1, e)
           /\ PutBefore(q, e, At(q[h], h, i)) =
                PutAt(q, h, IF i = 0 THEN Len(q[h]) + 1 ELSE i, e)
  <1>0. PICK p : p = At(q[h], h, i)
    OBVIOUS
  <1>1. \A s, k : U!Queues!InsertAt(s, k, e) = U!InsertAt(s, k, e)
    BY DEF U!Queues!InsertAt, U!InsertAt
  <1>2. /\ (CHOOSE g \in List : p = g \/ p \in {q[g][j] : j \in DOMAIN q[g]}) = h
        /\ U!Queues!After(q[h], p) = i + 1
        /\ U!Queues!Before(q[h], p) = IF i = 0 THEN Len(q[h]) + 1 ELSE i
    BY <1>0, PutWhere
  <1>3. /\ U!Queues!Put(q, e, p, U!Queues!After) =
            [q EXCEPT ![h] = U!Queues!InsertAt(q[h], U!Queues!After(q[h], p), e)]
        /\ U!Queues!Put(q, e, p, U!Queues!Before) =
            [q EXCEPT ![h] = U!Queues!InsertAt(q[h], U!Queues!Before(q[h], p), e)]
    BY <1>2 DEF U!Queues!Put
  <1>4. /\ U!Queues!InsertAt(q[h], U!Queues!After(q[h], p), e) = U!InsertAt(q[h], i + 1, e)
        /\ U!Queues!InsertAt(q[h], U!Queues!Before(q[h], p), e) =
             U!InsertAt(q[h], IF i = 0 THEN Len(q[h]) + 1 ELSE i, e)
    BY <1>1, <1>2
  <1> DEFINE a == U!Queues!Put(q, e, p, U!Queues!After)
             b == U!Queues!Put(q, e, p, U!Queues!Before)
  <1>5. /\ a = [q EXCEPT ![h] = U!Queues!InsertAt(q[h], U!Queues!After(q[h], p), e)]
        /\ b = [q EXCEPT ![h] = U!Queues!InsertAt(q[h], U!Queues!Before(q[h], p), e)]
    BY <1>3
  <1> HIDE DEF a, b
  <1>6. /\ a = [q EXCEPT ![h] = U!InsertAt(q[h], i + 1, e)]
        /\ b = [q EXCEPT ![h] = U!InsertAt(q[h], IF i = 0 THEN Len(q[h]) + 1 ELSE i, e)]
    BY <1>4, <1>5
  <1> QED
    BY <1>0, <1>6 DEF a, b, PutAfter, PutBefore, PutAt

-----------------------------------------------------------------------------
(* The operations keep the rings, and are those on the sequences *)

ListsInv == stale \in SUBSET List /\ \E q : StandsFor(U!links, q, stale, {})

LEMMA Standing ==
    ASSUME U!ListAssumption, ListsInv
    PROVE  \E q : /\ StandsFor(U!links, q, stale, {}) /\ U!Contents = q
                  /\ q \in [List -> Seq(Entry)] /\ Disjoint(q)
                  /\ U!links[1] = next /\ U!links[2] = prev
  <1>1. PICK q : StandsFor(U!links, q, stale, {})
    BY DEF ListsInv
  <1>2. U!links[1] = next /\ U!links[2] = prev
    BY DEF U!links
  <1>3. [h \in List |-> IF h \in stale THEN <<>> ELSE U!Walk(U!links[1], h)] = q
    BY <1>1, ListsWalked DEF ListsInv
  <1>4. U!Contents = q
    BY <1>2, <1>3 DEF U!Contents
  <1> QED
    BY <1>1, <1>2, <1>4 DEF StandsFor

\* What a step has stored
LEMMA Stored ==
    ASSUME U!ListAssumption, NEW m, NEW q, stale' \in SUBSET List,
           StandsFor(m, q, stale', {}), U!Store(m)
    PROVE  ListsInv' /\ U!Contents' = q
  <1>1. next' = m[1] /\ prev' = m[2]
    BY DEF U!Store
  <1>2. [h \in List |-> IF h \in stale' THEN <<>> ELSE U!Walk(m[1], h)] = q
    BY ListsWalked
  <1>3. U!Contents' = q
    BY <1>1, <1>2 DEF U!Contents
  <1>4. PICK l : l = <<next', prev'>> /\ l[1] = m[1] /\ l[2] = m[2]
    <2>1. PICK l : l = <<next', prev'>>
      OBVIOUS
    <2>2. l[1] = m[1] /\ l[2] = m[2]
      BY <1>1, <2>1
    <2> QED
      BY <2>1, <2>2
  <1>5. \A h, s : RingOf(m, h, s) => RingOf(l, h, s)
    BY <1>4 DEF RingOf
  <1>6. StandsFor(l, q, stale', {})
    BY <1>4, <1>5 DEF StandsFor
  <1>7. ListsInv'
    BY <1>4, <1>6 DEF ListsInv, U!links
  <1> QED
    BY <1>3, <1>7

LEMMA LinkedIs ==
    ASSUME U!ListAssumption, NEW q, stale \in SUBSET List, StandsFor(U!links, q, stale, {}),
           U!links[1] = next
    PROVE  /\ \A p : U!Linked(p) <=> p \in List \ stale \/ (p \in Entry /\ Within(q, p))
           /\ \A e \in Entry : U!Free(e) <=> ~Within(q, e)
  <1>1. \A e \in Entry : Within(q, e) <=> next[e] \notin {e, Null}
    BY WithinIs
  <1> QED
    BY <1>1 DEF U!Linked, U!Free

LEMMA LooseIs ==
    ASSUME NEW q \in [List -> Seq(Entry)], U!Contents = q
    PROVE  \A e : e \in U!Queues!Loose <=> e \in Entry /\ ~Within(q, e)
  <1>1. \A h \in List : DOMAIN q[h] = 1 .. Len(q[h])
    BY LenProperties
  <1>2. \A h \in List : \A e : e \in U!Queues!Elements(h) <=> \E i \in 1 .. Len(q[h]) : q[h][i] = e
    BY <1>1 DEF U!Queues!Elements
  <1> QED
    BY <1>2 DEF U!Queues!Loose, Within

LEMMA WithoutIs ==
    ASSUME NEW q \in [List -> Seq(Entry)], Disjoint(q), U!Contents = q,
           NEW h \in List, NEW i \in 1 .. Len(q[h])
    PROVE  U!Queues!Without(q[h][i]) = [q EXCEPT ![h] = U!RemoveAt(q[h], i)]
  <1>1. \A g \in List : DOMAIN q[g] = 1 .. Len(q[g])
    BY LenProperties
  <1>2. \A g \in List : q[h][i] \in U!Queues!Elements(g) <=> g = h
    BY <1>1 DEF U!Queues!Elements, Disjoint
  <1>3. U!Queues!PlaceOf(q[h], q[h][i]) = i
    BY PlaceIs
  <1>4. \A s, k : U!Queues!RemoveAt(s, k) = U!RemoveAt(s, k)
    BY DEF U!Queues!RemoveAt, U!RemoveAt
  <1>5. U!Queues!Without(q[h][i]) =
          [g \in List |-> IF q[h][i] \in U!Queues!Elements(g)
                          THEN U!Queues!RemoveAt(q[g], U!Queues!PlaceOf(q[g], q[h][i]))
                          ELSE q[g]]
    BY DEF U!Queues!Without
  <1>6. \A g \in List : (IF q[h][i] \in U!Queues!Elements(g)
                         THEN U!Queues!RemoveAt(q[g], U!Queues!PlaceOf(q[g], q[h][i]))
                         ELSE q[g]) = IF g = h THEN U!RemoveAt(q[h], i) ELSE q[g]
    BY <1>2, <1>3, <1>4
  <1>7. [q EXCEPT ![h] = U!RemoveAt(q[h], i)] =
          [g \in List |-> IF g = h THEN U!RemoveAt(q[h], i) ELSE q[g]]
    OBVIOUS
  <1> QED
    BY <1>5, <1>6, <1>7

LEMMA AddKeeps ==
    ASSUME U!ListAssumption, ListsInv, NEW e \in Entry, NEW p \in U!Node, U!Add(e, p)
    PROVE  ListsInv' /\ U!Queues!Insert(e, p)
  <1>1. PICK q : /\ StandsFor(U!links, q, stale, {}) /\ U!Contents = q
                 /\ q \in [List -> Seq(Entry)] /\ Disjoint(q)
                 /\ U!links[1] = next /\ U!links[2] = prev
    BY Standing
  <1>2. stale \in SUBSET List /\ stale' = stale
    BY DEF ListsInv, U!Add
  <1>3. /\ ~Within(q, e) /\ (p \in List \ stale \/ (p \in Entry /\ Within(q, p)))
    BY <1>1, <1>2, LinkedIs DEF U!Add
  <1>4. PICK h \in List \ stale : \E i \in 0 .. Len(q[h]) : p = At(q[h], h, i)
    <2>1. Located(q, stale, p)
      BY <1>3 DEF Located
    <2> QED
      BY <1>1, <1>2, <2>1, PlaceFound
  <1>5. PICK i \in 0 .. Len(q[h]) : p = At(q[h], h, i)
    BY <1>4
  <1>p. /\ PutAfter(q, e, p) = [q EXCEPT ![h] = U!InsertAt(q[h], i + 1, e)]
        /\ PutBefore(q, e, p) =
             [q EXCEPT ![h] = U!InsertAt(q[h], IF i = 0 THEN Len(q[h]) + 1 ELSE i, e)]
    <2>1. h \in List /\ q \in [List -> Seq(Entry)] /\ Disjoint(q)
      BY <1>1
    <2>2. /\ PutAfter(q, e, At(q[h], h, i)) = PutAt(q, h, i + 1, e)
          /\ PutBefore(q, e, At(q[h], h, i)) =
               PutAt(q, h, IF i = 0 THEN Len(q[h]) + 1 ELSE i, e)
      BY <2>1, PutIs
    <2> QED
      BY <1>5, <2>2 DEF PutAt
  <1>6. e \in U!Queues!Loose /\ p \notin U!Queues!Loose
    BY <1>1, <1>3, LooseIs DEF U!ListAssumption
  <1>7. {} \ {e} = {}
    OBVIOUS
  <1>8. CASE U!Store(U!LinkAfter(U!links, e, p)) /\ done' = <<"add", e, p>>
    <2> DEFINE t == [q EXCEPT ![h] = U!InsertAt(q[h], i + 1, e)]
    <2>1. StandsFor(U!LinkAfter(U!links, e, At(q[h], h, i)), t, stale, {} \ {e})
      BY <1>1, <1>2, <1>3, AddedAfter
    <2>2. PutAfter(q, e, p) = t
      BY <1>p
    <2> HIDE DEF t
    <2>3. ListsInv' /\ U!Contents' = t
      BY <1>2, <1>5, <1>7, <1>8, <2>1, Stored
    <2>4. U!Contents' = PutAfter(U!Contents, e, p)
      BY <1>1, <2>2, <2>3
    <2> QED
      BY <1>6, <1>8, <2>3, <2>4 DEF U!Queues!Insert, PutAfter
  <1>9. CASE U!Store(U!LinkBefore(U!links, e, p)) /\ done' = <<"add_tail", e, p>>
    <2> DEFINE t == [q EXCEPT ![h] = U!InsertAt(q[h], IF i = 0 THEN Len(q[h]) + 1 ELSE i, e)]
    <2>1. StandsFor(U!LinkBefore(U!links, e, At(q[h], h, i)), t, stale, {} \ {e})
      BY <1>1, <1>2, <1>3, AddedBefore
    <2>2. PutBefore(q, e, p) = t
      BY <1>p
    <2> HIDE DEF t
    <2>3. ListsInv' /\ U!Contents' = t
      BY <1>2, <1>5, <1>7, <1>9, <2>1, Stored
    <2>4. U!Contents' = PutBefore(U!Contents, e, p)
      BY <1>1, <2>2, <2>3
    <2> QED
      BY <1>6, <1>9, <2>3, <2>4 DEF U!Queues!Insert, PutBefore
  <1> QED
    BY <1>8, <1>9 DEF U!Add

\* An entry leaves its list, wherever it goes.
LEMMA Leaving ==
    ASSUME U!ListAssumption, ListsInv, NEW e \in Entry, U!Linked(e)
    PROVE  \E t : /\ StandsFor(U!UnlinkEntry(U!links, e), t, stale, {e})
                  /\ t \in [List -> Seq(Entry)] /\ Disjoint(t) /\ ~Within(t, e)
                  /\ t = U!Queues!Without(e) /\ e \notin U!Queues!Loose
                  /\ \A p : U!Linked(p) /\ p # e =>
                        /\ Located(t, stale, p)
                        /\ p \notin U!Queues!Loose
  <1>1. PICK q : /\ StandsFor(U!links, q, stale, {}) /\ U!Contents = q
                 /\ q \in [List -> Seq(Entry)] /\ Disjoint(q)
                 /\ U!links[1] = next /\ U!links[2] = prev
    BY Standing
  <1>2. stale \in SUBSET List
    BY DEF ListsInv
  <1>3. /\ Within(q, e)
        /\ \A p : U!Linked(p) => p \in List \ stale \/ (p \in Entry /\ Within(q, p))
    BY <1>1, <1>2, LinkedIs DEF U!ListAssumption
  <1>4. PICK h \in List : \E i \in 1 .. Len(q[h]) : q[h][i] = e
    BY <1>3 DEF Within
  <1>5. PICK i \in 1 .. Len(q[h]) : q[h][i] = e
    BY <1>4
  <1>6. h \in List \ stale
    <2>1. Len(<<>>) = 0
      OBVIOUS
    <2> QED
      BY <1>1, <1>5, <2>1 DEF StandsFor
  <1>7. PICK t : t = [q EXCEPT ![h] = U!RemoveAt(q[h], i)]
    OBVIOUS
  <1>8. StandsFor(U!UnlinkEntry(U!links, e), t, stale, {e})
    <2>1. StandsFor(U!UnlinkEntry(U!links, q[h][i]), [q EXCEPT ![h] = U!RemoveAt(q[h], i)],
                    stale, {} \cup {q[h][i]})
      BY <1>1, <1>2, <1>6, Left
    <2>2. {} \cup {e} = {e}
      OBVIOUS
    <2> QED
      BY <1>5, <1>7, <2>1, <2>2
  <1>9. /\ t \in [List -> Seq(Entry)] /\ Disjoint(t)
        /\ \A y \in Entry : Within(t, y) <=> y # e /\ Within(q, y)
    BY <1>1, <1>5, <1>7, LeftApart
  <1>10. t = U!Queues!Without(e)
    BY <1>1, <1>5, <1>7, WithoutIs
  <1>11. /\ e \notin U!Queues!Loose
         /\ \A p : U!Linked(p) => p \notin U!Queues!Loose
    BY <1>1, <1>3, LooseIs DEF U!ListAssumption
  <1> QED
    BY <1>3, <1>8, <1>9, <1>10, <1>11 DEF Located

LEMMA MoveKeeps ==
    ASSUME U!ListAssumption, ListsInv, NEW e \in Entry, NEW p \in U!Node, U!Move(e, p)
    PROVE  ListsInv' /\ U!Queues!Move(e, p)
  <1>1. /\ stale \in SUBSET List /\ stale' = stale
        /\ U!Linked(e) /\ U!Linked(p) /\ p # e
    BY DEF ListsInv, U!Move, U!MayTouch
  <1>2. PICK q : /\ StandsFor(U!UnlinkEntry(U!links, e), q, stale, {e})
                 /\ q \in [List -> Seq(Entry)] /\ Disjoint(q) /\ ~Within(q, e)
                 /\ q = U!Queues!Without(e) /\ e \notin U!Queues!Loose
                 /\ \A y : U!Linked(y) /\ y # e =>
                       /\ Located(q, stale, y)
                       /\ y \notin U!Queues!Loose
    BY <1>1, Leaving
  <1>3. Located(q, stale, p) /\ p \notin U!Queues!Loose
    BY <1>1, <1>2
  <1>4. PICK h \in List \ stale : \E i \in 0 .. Len(q[h]) : p = At(q[h], h, i)
    BY <1>1, <1>2, <1>3, PlaceFound
  <1>5. PICK i \in 0 .. Len(q[h]) : p = At(q[h], h, i)
    BY <1>4
  <1>6. /\ PutAfter(q, e, p) = [q EXCEPT ![h] = U!InsertAt(q[h], i + 1, e)]
        /\ PutBefore(q, e, p) =
             [q EXCEPT ![h] = U!InsertAt(q[h], IF i = 0 THEN Len(q[h]) + 1 ELSE i, e)]
    <2>1. h \in List /\ q \in [List -> Seq(Entry)] /\ Disjoint(q)
      BY <1>2
    <2>2. /\ PutAfter(q, e, At(q[h], h, i)) = PutAt(q, h, i + 1, e)
          /\ PutBefore(q, e, At(q[h], h, i)) =
               PutAt(q, h, IF i = 0 THEN Len(q[h]) + 1 ELSE i, e)
      BY <2>1, PutIs
    <2> QED
      BY <1>5, <2>2 DEF PutAt
  <1> DEFINE m == U!UnlinkEntry(U!links, e)
  <1>7. StandsFor(m, q, stale, {e}) /\ {e} \ {e} = {}
    BY <1>2
  <1>8. CASE U!Store(U!LinkAfter(m, e, p)) /\ done' = <<"move", e, p>>
    <2> DEFINE t == [q EXCEPT ![h] = U!InsertAt(q[h], i + 1, e)]
    <2> HIDE DEF m
    <2>1. StandsFor(U!LinkAfter(m, e, At(q[h], h, i)), t, stale, {e} \ {e})
      BY <1>1, <1>2, <1>7, AddedAfter
    <2>2. PutAfter(q, e, p) = t
      BY <1>6
    <2> HIDE DEF t
    <2>3. ListsInv' /\ U!Contents' = t
      BY <1>1, <1>5, <1>7, <1>8, <2>1, Stored
    <2>4. U!Contents' = PutAfter(U!Queues!Without(e), e, p)
      BY <1>2, <2>2, <2>3
    <2> QED
      BY <1>1, <1>2, <1>3, <1>8, <2>3, <2>4 DEF U!Queues!Move, PutAfter
  <1>9. CASE U!Store(U!LinkBefore(m, e, p)) /\ done' = <<"move_tail", e, p>>
    <2> DEFINE t == [q EXCEPT ![h] = U!InsertAt(q[h], IF i = 0 THEN Len(q[h]) + 1 ELSE i, e)]
    <2> HIDE DEF m
    <2>1. StandsFor(U!LinkBefore(m, e, At(q[h], h, i)), t, stale, {e} \ {e})
      BY <1>1, <1>2, <1>7, AddedBefore
    <2>2. PutBefore(q, e, p) = t
      BY <1>6
    <2> HIDE DEF t
    <2>3. ListsInv' /\ U!Contents' = t
      BY <1>1, <1>5, <1>7, <1>9, <2>1, Stored
    <2>4. U!Contents' = PutBefore(U!Queues!Without(e), e, p)
      BY <1>2, <2>2, <2>3
    <2> QED
      BY <1>1, <1>2, <1>3, <1>9, <2>3, <2>4 DEF U!Queues!Move, PutBefore
  <1> QED
    BY <1>8, <1>9 DEF U!Move

LEMMA DelKeeps ==
    ASSUME U!ListAssumption, ListsInv, NEW e \in Entry, U!Del(e)
    PROVE  ListsInv' /\ U!Queues!Take(e)
  <1>1. stale \in SUBSET List /\ stale' = stale /\ U!Linked(e)
    BY DEF ListsInv, U!Del, U!MayTouch
  <1>2. PICK q : /\ StandsFor(U!UnlinkEntry(U!links, e), q, stale, {e})
                 /\ ~Within(q, e)
                 /\ q = U!Queues!Without(e) /\ e \notin U!Queues!Loose
    BY <1>1, Leaving
  <1> DEFINE m == U!UnlinkEntry(U!links, e)
  <1>3. StandsFor(m, q, stale, {e}) /\ {e} \ {e} = {}
    BY <1>2
  <1>4. PICK to \in {e, Null} : /\ U!Store(U!Point(m, e, to))
                                /\ done' \in {<<"del", e>>, <<"del_init", e>>}
    BY DEF U!Del
  <1> HIDE DEF m
  <1>5. StandsFor(U!Point(m, e, to), q, stale, {e} \ {e})
    BY <1>1, <1>2, <1>3, Cleared
  <1>6. ListsInv' /\ U!Contents' = q
    BY <1>1, <1>3, <1>4, <1>5, Stored
  <1> QED
    BY <1>2, <1>4, <1>6 DEF U!Queues!Take

\* A head without entries stays as it is when it is joined to another list.
LEMMA JoinNothing ==
    ASSUME NEW q \in [List -> Seq(Entry)], NEW l \in List, NEW h \in List, l # h, Len(q[l]) = 0
    PROVE  [q EXCEPT ![l] = <<>>, ![h] = q[l] \o q[h]] = q
  <1>1. q[l] = <<>> /\ q[l] \o q[h] = q[h]
    <2>1. q[l] = <<>>
      BY EmptySeq
    <2>2. <<>> \o q[h] = q[h]
      OBVIOUS
    <2> QED
      BY <2>1, <2>2
  <1> QED
    BY <1>1

LEMMA SpliceKeeps ==
    ASSUME U!ListAssumption, ListsInv, NEW l \in List, NEW h \in List, U!Splice(l, h)
    PROVE  ListsInv' /\ U!Queues!Join(l, h)
  <1>1. PICK q : /\ StandsFor(U!links, q, stale, {}) /\ U!Contents = q
                 /\ q \in [List -> Seq(Entry)] /\ Disjoint(q)
                 /\ U!links[1] = next /\ U!links[2] = prev
    BY Standing
  <1>2. /\ stale \in SUBSET List /\ l \in List \ stale /\ h \in List \ stale /\ l # h
        /\ done' = <<"splice", l, h>>
    BY DEF ListsInv, U!Splice, U!Linked, U!ListAssumption
  <1>3. U!Empty(l) <=> Len(q[l]) = 0
    BY <1>1, <1>2, EmptyIs DEF U!Empty
  <1> DEFINE t == [q EXCEPT ![l] = <<>>, ![h] = q[l] \o q[h]]
  <1>4. CASE U!Empty(l)
    <2>1. next' = next /\ prev' = prev /\ stale' = stale
      BY <1>4 DEF U!Splice
    <2>2. ListsInv' /\ U!Contents' = q
      BY <1>1, <2>1 DEF ListsInv, U!links, U!Contents
    <2>3. t = q
      BY <1>1, <1>2, <1>3, <1>4, JoinNothing
    <2> QED
      BY <1>1, <1>2, <2>2, <2>3 DEF U!Queues!Join
  <1>5. CASE ~U!Empty(l)
    <2>1. U!Store(U!SpliceAt(U!links, l, h)) /\ stale' = stale \cup {l}
      BY <1>5 DEF U!Splice
    <2>2. StandsFor(U!SpliceAt(U!links, l, h), t, stale \cup {l}, {})
      BY <1>1, <1>2, <1>3, <1>5, Spliced
    <2>3. stale' \in SUBSET List
      BY <1>2, <2>1
    <2> HIDE DEF t
    <2>4. ListsInv' /\ U!Contents' = t
      BY <2>1, <2>2, <2>3, Stored
    <2> QED
      BY <1>1, <1>2, <2>4 DEF U!Queues!Join, t
  <1> QED
    BY <1>4, <1>5

LEMMA SpliceInitKeeps ==
    ASSUME U!ListAssumption, ListsInv, NEW l \in List, NEW h \in List, U!SpliceInit(l, h)
    PROVE  ListsInv' /\ U!Queues!Join(l, h)
  <1>1. PICK q : /\ StandsFor(U!links, q, stale, {}) /\ U!Contents = q
                 /\ q \in [List -> Seq(Entry)] /\ Disjoint(q)
                 /\ U!links[1] = next /\ U!links[2] = prev
    BY Standing
  <1>2. /\ stale \in SUBSET List /\ l \in List \ stale /\ h \in List \ stale /\ l # h
        /\ done' = <<"splice_init", l, h>> /\ stale' = stale
    BY DEF ListsInv, U!SpliceInit, U!Linked, U!ListAssumption
  <1>3. U!Empty(l) <=> Len(q[l]) = 0
    BY <1>1, <1>2, EmptyIs DEF U!Empty
  <1> DEFINE t == [q EXCEPT ![l] = <<>>, ![h] = q[l] \o q[h]]
  <1>4. CASE U!Empty(l)
    <2>1. next' = next /\ prev' = prev
      BY <1>4 DEF U!SpliceInit
    <2>2. ListsInv' /\ U!Contents' = q
      BY <1>1, <1>2, <2>1 DEF ListsInv, U!links, U!Contents
    <2>3. t = q
      BY <1>1, <1>2, <1>3, <1>4, JoinNothing
    <2> QED
      BY <1>1, <1>2, <2>2, <2>3 DEF U!Queues!Join
  <1>5. CASE ~U!Empty(l)
    <2> DEFINE m == U!SpliceAt(U!links, l, h)
    <2>1. U!Store(U!Point(m, l, l))
      BY <1>5 DEF U!SpliceInit
    <2>2. StandsFor(m, t, stale \cup {l}, {})
      BY <1>1, <1>2, <1>3, <1>5, Spliced
    <2> HIDE DEF t, m
    <2>3. StandsFor(U!Point(m, l, l), t, (stale \cup {l}) \ {l}, {})
      <3>1. stale \cup {l} \in SUBSET List /\ l \in stale \cup {l}
        BY <1>2
      <3> QED
        BY <2>2, <3>1, Initialised
    <2>4. (stale \cup {l}) \ {l} = stale'
      BY <1>2
    <2>5. ListsInv' /\ U!Contents' = t
      BY <1>2, <2>1, <2>3, <2>4, Stored
    <2> QED
      BY <1>1, <1>2, <2>5 DEF U!Queues!Join, t
  <1> QED
    BY <1>4, <1>5

LEMMA InitHeadKeeps ==
    ASSUME U!ListAssumption, ListsInv, NEW h \in List, U!InitHead(h)
    PROVE  ListsInv' /\ UNCHANGED <<U!Contents, done>>
  <1>1. PICK q : StandsFor(U!links, q, stale, {}) /\ U!Contents = q
    BY Standing
  <1>2. /\ stale \in SUBSET List /\ h \in stale /\ stale' = stale \ {h} /\ done' = done
        /\ U!Store(U!Point(U!links, h, h))
    BY DEF ListsInv, U!InitHead
  <1>3. StandsFor(U!Point(U!links, h, h), q, stale \ {h}, {})
    BY <1>1, <1>2, Initialised
  <1>4. ListsInv' /\ U!Contents' = q
    BY <1>2, <1>3, Stored
  <1> QED
    BY <1>1, <1>2, <1>4

LEMMA ListsKept ==
    ASSUME ListsInv, UNCHANGED <<next, prev, stale>>
    PROVE  ListsInv' /\ U!Contents' = U!Contents
  BY DEF ListsInv, U!links, U!Contents

LEMMA ListsStep ==
    ASSUME U!ListAssumption, ListsInv, U!ListNext
    PROVE  ListsInv' /\ (U!Queues!Next \/ UNCHANGED <<U!Contents, done>>)
  <1>1. ASSUME NEW e \in Entry, NEW p \in U!Node, U!Add(e, p)
        PROVE  ListsInv' /\ U!Queues!Next
    BY <1>1, AddKeeps DEF U!Queues!Next, U!Node
  <1>2. ASSUME NEW e \in Entry, NEW p \in U!Node, U!Move(e, p)
        PROVE  ListsInv' /\ U!Queues!Next
    BY <1>2, MoveKeeps DEF U!Queues!Next, U!Node
  <1>3. ASSUME NEW e \in Entry, U!Del(e) PROVE ListsInv' /\ U!Queues!Next
    BY <1>3, DelKeeps DEF U!Queues!Next
  <1>4. ASSUME NEW l \in List, NEW h \in List, U!Splice(l, h) PROVE ListsInv' /\ U!Queues!Next
    BY <1>4, SpliceKeeps DEF U!Queues!Next
  <1>5. ASSUME NEW l \in List, NEW h \in List, U!SpliceInit(l, h)
        PROVE  ListsInv' /\ U!Queues!Next
    BY <1>5, SpliceInitKeeps DEF U!Queues!Next
  <1>6. ASSUME NEW h \in List, U!InitHead(h)
        PROVE  ListsInv' /\ UNCHANGED <<U!Contents, done>>
    BY <1>6, InitHeadKeeps
  <1>7. ASSUME (\E h \in List, back \in BOOLEAN : U!LoopBegin(h, back)) \/ U!LoopStep \/ U!LoopEnd
        PROVE  ListsInv' /\ UNCHANGED <<U!Contents, done>>
    <2>1. UNCHANGED <<next, prev, stale, done>>
      BY <1>7 DEF U!LoopBegin, U!LoopStep, U!LoopEnd
    <2> QED
      BY <2>1, ListsKept
  <1> QED
    BY <1>1, <1>2, <1>3, <1>4, <1>5, <1>6, <1>7 DEF U!ListNext

LEMMA ListsStart ==
    ASSUME U!ListAssumption, U!ListInit
    PROVE  ListsInv /\ U!Queues!Init
  <1>1. PICK q : q = [h \in List |-> <<>>]
    OBVIOUS
  <1>2. <<>> \in Seq(Entry) /\ Len(<<>>) = 0
    OBVIOUS
  <1>3. /\ q \in [List -> Seq(Entry)] /\ Disjoint(q) /\ \A h \in List : Len(q[h]) = 0
    BY <1>1, <1>2 DEF Disjoint
  <1>4. /\ next \in Pointers /\ prev \in Pointers /\ stale = {}
        /\ \A h \in List : next[h] = h /\ prev[h] = h
        /\ \A e \in Entry : next[e] = Null
    BY DEF U!ListInit, Pointers, U!Node, U!ListAssumption
  <1>5. U!links[1] = next /\ U!links[2] = prev
    BY DEF U!links
  <1>6. ASSUME NEW h \in List PROVE RingOf(U!links, h, q[h])
    <2>1. \A i \in 0 .. 1 : At(q[h], h, i) = h
      BY <1>3 DEF At
    <2> QED
      BY <1>3, <1>4, <1>5, <2>1 DEF RingOf
  <1>7. StandsFor(U!links, q, stale, {})
    BY <1>3, <1>4, <1>5, <1>6 DEF StandsFor
  <1>8. ListsInv
    BY <1>4, <1>7 DEF ListsInv
  <1>9. U!Contents = [h \in List |-> <<>>]
    <2>1. stale \in SUBSET List
      BY <1>4
    <2>2. [h \in List |-> IF h \in stale THEN <<>> ELSE U!Walk(U!links[1], h)] = q
      BY <1>7, <2>1, ListsWalked
    <2> QED
      BY <1>1, <1>5, <2>2 DEF U!Contents
  <1>10. done = <<"none">>
    BY DEF U!ListInit
  <1> QED
    BY <1>8, <1>9, <1>10 DEF U!Queues!Init

\* The operations of ulist.h on the pointers are those on sequences that their
\* names say, from any state the lists can be in.
THEOREM ListsImplement == StoresSpec => ListsAreSequences
  <1>1. U!ListAssumption
    BY StoresAssumption
  <1>2. StoresInit => ListsInv /\ U!Queues!Init
    BY <1>1, ListsStart DEF StoresInit
  <1>3. ListsInv /\ [StoresNext]_<<part, vars, datavars, listvars, confvars>> =>
            /\ ListsInv'
            /\ [part = "list" => U!Queues!Next]_<<U!Contents, done>>
    <2> SUFFICES ASSUME ListsInv, [StoresNext]_<<part, vars, datavars, listvars, confvars>>
                 PROVE  /\ ListsInv'
                        /\ [part = "list" => U!Queues!Next]_<<U!Contents, done>>
      OBVIOUS
    <2>1. CASE part = "list" /\ U!ListNext
      BY <1>1, <2>1, ListsStep
    <2>2. CASE UNCHANGED listvars
      <3>1. ListsInv' /\ U!Contents' = U!Contents /\ done' = done
        BY <2>2, ListsKept DEF listvars
      <3> QED
        BY <3>1
    <2>3. (part = "list" /\ U!ListNext) \/ UNCHANGED listvars
      BY DEF StoresNext, Over
    <2> QED
      BY <2>1, <2>2, <2>3
  <1> QED
    BY <1>2, <1>3, PTL DEF StoresSpec, ListsAreSequences

-----------------------------------------------------------------------------
(* What the body of a loop stores to *)

LEMMA Neighbours ==
    ASSUME U!ListAssumption, ListsInv, NEW x, U!Linked(x)
    PROVE  /\ next \in Pointers /\ prev \in Pointers
           /\ x \in U!Node /\ next[x] \in U!Node /\ prev[x] \in U!Node
           /\ next[prev[x]] = x /\ prev[next[x]] = x
  <1>1. PICK q : /\ StandsFor(U!links, q, stale, {}) /\ U!Contents = q
                 /\ q \in [List -> Seq(Entry)] /\ Disjoint(q)
                 /\ U!links[1] = next /\ U!links[2] = prev
    BY Standing
  <1>2. stale \in SUBSET List
    BY DEF ListsInv
  <1>3. Located(q, stale, x)
    BY <1>1, <1>2, LinkedIs DEF Located
  <1>4. PICK h \in List \ stale : \E i \in 0 .. Len(q[h]) : x = At(q[h], h, i)
    BY <1>1, <1>2, <1>3, PlaceFound
  <1>5. PICK i \in 0 .. Len(q[h]) : x = At(q[h], h, i)
    BY <1>4
  <1>6. PICK n \in Nat : n = Len(q[h]) /\ q[h] \in Seq(Entry)
    BY <1>1, LenProperties
  <1>7. \A k \in 0 .. n : /\ next[At(q[h], h, k)] = At(q[h], h, k + 1)
                          /\ prev[At(q[h], h, k + 1)] = At(q[h], h, k)
    BY <1>1, <1>6 DEF StandsFor, RingOf
  <1>8. next[x] = At(q[h], h, i + 1) /\ prev[next[x]] = x
    BY <1>5, <1>6, <1>7
  <1>9. PICK j \in 0 .. n : x = At(q[h], h, j + 1)
    <2>1. CASE i = 0
      <3>1. x = At(q[h], h, n + 1)
        BY <1>5, <1>6, <2>1, AtIs
      <3>2. n \in 0 .. n
        OBVIOUS
      <3> QED
        BY <3>1, <3>2
    <2>2. CASE i # 0
      <3>1. i - 1 \in 0 .. n /\ (i - 1) + 1 = i
        BY <1>6, <2>2
      <3> QED
        BY <1>5, <3>1
    <2> QED
      BY <2>1, <2>2
  <1>10. prev[x] = At(q[h], h, j) /\ next[prev[x]] = x
    BY <1>7, <1>9
  <1>11. x \in U!Node /\ next[x] \in U!Node /\ prev[x] \in U!Node
    BY <1>5, <1>6, <1>8, <1>10, AtNode
  <1> QED
    BY <1>1, <1>8, <1>10, <1>11 DEF StandsFor

LEMMA LinkTouches ==
    ASSUME NEW m, m[1] \in Pointers, m[2] \in Pointers,
           NEW e \in U!Node, NEW p \in U!Node, NEW n \in U!Node
    PROVE  LET r == U!Link(m, e, p, n)
           IN  /\ \A x \in U!Node \ {p, e} : r[1][x] = m[1][x]
               /\ \A x \in U!Node \ {n, e} : r[2][x] = m[2][x]
  BY DEF U!Link, Pointers

\* A body stores to its entry, the heads it moves it to, and what points to them.
Touches(e, P, m) ==
    /\ \A y \in U!Node : y \notin {e} \cup P /\ next[y] \notin {e} \cup P => m[1][y] = next[y]
    /\ \A y \in U!Node : y \notin {e} \cup P /\ prev[y] \notin {e} \cup P => m[2][y] = prev[y]

LEMMA UnlinkTouches ==
    ASSUME U!ListAssumption, ListsInv, NEW e \in Entry, U!Linked(e), NEW P \in SUBSET List
    PROVE  LET m == U!UnlinkEntry(U!links, e)
           IN  /\ m[1] \in Pointers /\ m[2] \in Pointers
               /\ Touches(e, P, m)
               /\ \A y \in U!Node : m[1][y] \in {next[y], next[e]} /\ m[2][y] \in {prev[y], prev[e]}
  <1>1. /\ next \in Pointers /\ prev \in Pointers
        /\ e \in U!Node /\ next[e] \in U!Node /\ prev[e] \in U!Node
        /\ next[prev[e]] = e /\ prev[next[e]] = e
    BY Neighbours
  <1>2. PICK l : l = U!links
    OBVIOUS
  <1>3. l[1] = next /\ l[2] = prev
    BY <1>2 DEF U!links
  <1>4. PICK m : m = U!Unlink(l, prev[e], next[e])
    OBVIOUS
  <1>5. /\ m[1] \in Pointers /\ m[2] \in Pointers
        /\ m[1][prev[e]] = next[e] /\ m[2][next[e]] = prev[e]
        /\ \A x \in U!Node \ {prev[e]} : m[1][x] = next[x]
        /\ \A x \in U!Node \ {next[e]} : m[2][x] = prev[x]
    <2>1. PICK p \in U!Node, b \in U!Node : p = prev[e] /\ b = next[e]
      BY <1>1
    <2>2. l[1] \in Pointers /\ l[2] \in Pointers
      BY <1>1, <1>3
    <2> DEFINE o == U!Unlink(l, p, b)
    <2>3. /\ o[1] \in Pointers /\ o[2] \in Pointers
          /\ o[1][p] = b /\ o[2][b] = p
          /\ \A x \in U!Node \ {p} : o[1][x] = l[1][x]
          /\ \A x \in U!Node \ {b} : o[2][x] = l[2][x]
      BY <2>2, Unlinked2
    <2>4. m = o
      BY <1>4, <2>1
    <2> HIDE DEF o
    <2> QED
      BY <1>3, <2>1, <2>3, <2>4
  <1>6. U!UnlinkEntry(U!links, e) = m
    BY <1>2, <1>3, <1>4 DEF U!UnlinkEntry
  <1>7. Touches(e, P, m)
    BY <1>1, <1>5 DEF Touches
  <1>8. \A y \in U!Node : m[1][y] \in {next[y], next[e]} /\ m[2][y] \in {prev[y], prev[e]}
    BY <1>5
  <1> QED
    BY <1>5, <1>6, <1>7, <1>8

LEMMA DelTouches ==
    ASSUME U!ListAssumption, ListsInv, NEW e \in Entry, U!Del(e), NEW P \in SUBSET List
    PROVE  Touches(e, P, <<next', prev'>>)
  <1>1. U!Linked(e) /\ e \in U!Node
    BY DEF U!Del, U!MayTouch, U!Node
  <1>2. PICK m : m = U!UnlinkEntry(U!links, e)
    OBVIOUS
  <1>3. m[1] \in Pointers /\ m[2] \in Pointers /\ Touches(e, P, m)
    BY <1>1, <1>2, UnlinkTouches
  <1>4. PICK to \in U!Node \cup {Null} : U!Store(U!Point(m, e, to))
    BY <1>1, <1>2 DEF U!Del
  <1>5. \A y \in U!Node \ {e} : next'[y] = m[1][y] /\ prev'[y] = m[2][y]
    <2> DEFINE o == U!Point(m, e, to)
    <2>1. \A y \in U!Node \ {e} : o[1][y] = m[1][y] /\ o[2][y] = m[2][y]
      BY <1>1, <1>3, Pointed2
    <2>2. next' = o[1] /\ prev' = o[2]
      BY <1>4 DEF U!Store
    <2> HIDE DEF o
    <2> QED
      BY <2>1, <2>2
  <1>6. PICK l : l = <<next', prev'>> /\ l[1] = next' /\ l[2] = prev'
    <2>1. PICK l : l = <<next', prev'>>
      OBVIOUS
    <2>2. l[1] = next' /\ l[2] = prev'
      BY <2>1
    <2> QED
      BY <2>1, <2>2
  <1>7. Touches(e, P, l)
    BY <1>3, <1>5, <1>6 DEF Touches
  <1> QED
    BY <1>6, <1>7

LEMMA MoveTouches ==
    ASSUME U!ListAssumption, ListsInv, NEW e \in Entry, NEW P \in SUBSET List, NEW p \in P,
           U!Move(e, p)
    PROVE  Touches(e, P, <<next', prev'>>)
  <1>1. U!Linked(e) /\ U!Linked(p) /\ p # e /\ e \in U!Node
    BY DEF U!Move, U!MayTouch, U!Node
  <1>2. PICK m : m = U!UnlinkEntry(U!links, e)
    OBVIOUS
  <1>3. /\ m[1] \in Pointers /\ m[2] \in Pointers /\ Touches(e, P, m)
        /\ \A y \in U!Node : m[1][y] \in {next[y], next[e]} /\ m[2][y] \in {prev[y], prev[e]}
    BY <1>1, <1>2, UnlinkTouches
  <1>4. /\ p \in U!Node /\ next[p] \in U!Node /\ prev[p] \in U!Node
        /\ next[prev[p]] = p /\ prev[next[p]] = p
    BY <1>1, Neighbours
  <1>5. /\ next[e] \in U!Node /\ prev[e] \in U!Node
        /\ next[prev[e]] = e /\ prev[next[e]] = e
    BY <1>1, Neighbours
  <1>6. /\ m[1][p] \in U!Node /\ prev[m[1][p]] \in {p, e}
        /\ m[2][p] \in U!Node /\ next[m[2][p]] \in {p, e}
    BY <1>3, <1>4, <1>5
  <1>7. PICK l : l = <<next', prev'>> /\ l[1] = next' /\ l[2] = prev'
    <2>1. PICK l : l = <<next', prev'>>
      OBVIOUS
    <2>2. l[1] = next' /\ l[2] = prev'
      BY <2>1
    <2> QED
      BY <2>1, <2>2
  <1>8. CASE U!Store(U!LinkAfter(m, e, p))
    <2>1. PICK n \in U!Node : n = m[1][p]
      BY <1>6
    <2> DEFINE o == U!Link(m, e, p, n)
    <2>2. /\ \A x \in U!Node \ {p, e} : o[1][x] = m[1][x]
          /\ \A x \in U!Node \ {n, e} : o[2][x] = m[2][x]
      BY <1>1, <1>3, <1>4, LinkTouches
    <2>3. next' = o[1] /\ prev' = o[2]
      BY <1>8, <2>1 DEF U!Store, U!LinkAfter
    <2> HIDE DEF o
    <2>4. Touches(e, P, l)
      BY <1>3, <1>6, <1>7, <2>1, <2>2, <2>3 DEF Touches
    <2> QED
      BY <1>7, <2>4
  <1>9. CASE U!Store(U!LinkBefore(m, e, p))
    <2>1. PICK n \in U!Node : n = m[2][p]
      BY <1>6
    <2> DEFINE o == U!Link(m, e, n, p)
    <2>2. /\ \A x \in U!Node \ {n, e} : o[1][x] = m[1][x]
          /\ \A x \in U!Node \ {p, e} : o[2][x] = m[2][x]
      BY <1>1, <1>3, <1>4, LinkTouches
    <2>3. next' = o[1] /\ prev' = o[2]
      BY <1>9, <2>1 DEF U!Store, U!LinkBefore
    <2> HIDE DEF o
    <2>4. Touches(e, P, l)
      BY <1>3, <1>6, <1>7, <2>1, <2>2, <2>3 DEF Touches
    <2> QED
      BY <1>7, <2>4
  <1> QED
    BY <1>2, <1>8, <1>9 DEF U!Move

-----------------------------------------------------------------------------
(* A loop: the entries still to come lead to one another as they did when it *)
(* began, whatever became of the one it is at.                               *)

Loops == [head : List, back : BOOLEAN, pos : U!Node, n : U!Node \cup {Null},
          visit : Seq(Entry), visited : Seq(Entry)]

\* The loop l has visited k entries, and link still leads through the others.
Halfway(l, k, link) ==
    /\ Len(l.visited) = k /\ k <= Len(l.visit)
    /\ \A i \in 1 .. k : l.visited[i] = l.visit[i]
    /\ l.pos = At(l.visit, l.head, k + 1)
    /\ k < Len(l.visit) =>
          /\ l.n = At(l.visit, l.head, k + 2)
          /\ \A i \in k + 2 .. Len(l.visit) : link[l.visit[i]] = At(l.visit, l.head, i + 1)

Once(s) == \A i, j \in 1 .. Len(s) : s[i] = s[j] => i = j

LoopInv ==
    ~U!Idle => /\ loop \in Loops /\ loop.head \notin stale /\ Once(loop.visit)
               /\ \E k \in Nat : Halfway(loop, k, U!Field(loop.back))

LEMMA LoopBegins ==
    ASSUME U!ListAssumption, ListsInv, NEW h \in List, NEW back \in BOOLEAN, U!LoopBegin(h, back)
    PROVE  LoopInv'
  <1>1. PICK q : /\ StandsFor(U!links, q, stale, {}) /\ U!Contents = q
                 /\ q \in [List -> Seq(Entry)] /\ Disjoint(q)
                 /\ U!links[1] = next /\ U!links[2] = prev
    BY Standing
  <1>2. stale \in SUBSET List /\ h \in List \ stale
    BY DEF ListsInv, U!LoopBegin, U!Linked, U!ListAssumption
  <1>3. PICK f, v : f = U!Field(back) /\ v = U!Walk(f, h)
    OBVIOUS
  <1>4. Leads(f, h, v)
    <2>1. /\ U!Walk(next, h) = q[h] /\ Leads(next, h, q[h])
          /\ U!Walk(prev, h) = U!Reverse(q[h]) /\ Leads(prev, h, U!Reverse(q[h]))
      BY <1>1, <1>2, ListsWalked
    <2> QED
      BY <1>3, <2>1 DEF U!Field
  <1>5. PICK n \in Nat : n = Len(v) /\ v \in Seq(Entry)
    BY <1>4, LenProperties DEF Leads
  <1>6. f \in Pointers
    BY <1>1, <1>3 DEF StandsFor, U!Field
  <1>7. loop' = [head |-> h, back |-> back, pos |-> f[h], n |-> f[f[h]],
                 visit |-> v, visited |-> <<>>]
    BY <1>3 DEF U!LoopBegin
  <1>8. UNCHANGED <<next, prev, stale>>
    BY DEF U!LoopBegin
  <1>9. At(v, h, 0) = h /\ f[h] = At(v, h, 1)
    <2>1. At(v, h, 0) = h
      BY <1>5, AtIs
    <2>2. 0 \in 0 .. n /\ 0 + 1 = 1
      OBVIOUS
    <2> QED
      BY <1>4, <1>5, <2>1, <2>2 DEF Leads
  <1>10. f[h] \in U!Node /\ f[f[h]] \in U!Node \cup {Null} /\ <<>> \in Seq(Entry) /\ Len(<<>>) = 0
    <2>1. f[h] \in U!Node
      BY <1>5, <1>9, AtNode
    <2> QED
      BY <1>6, <2>1 DEF Pointers
  <1>11. PICK l : l = loop'
    OBVIOUS
  <1>12. /\ l \in Loops /\ l.head = h /\ l.back = back /\ l.pos = f[h] /\ l.n = f[f[h]]
         /\ l.visit = v /\ l.visited = <<>>
    BY <1>2, <1>5, <1>7, <1>10, <1>11 DEF Loops
  <1>13. Once(v)
    BY <1>4 DEF Leads, Once
  <1>14. Halfway(l, 0, f)
    <2>1. 0 < n => f[f[h]] = At(v, h, 2)
      <3>1. 0 < n => 1 \in 0 .. n /\ 1 + 1 = 2
        OBVIOUS
      <3> QED
        BY <1>4, <1>5, <1>9, <3>1 DEF Leads
    <2>2. \A i \in 2 .. n : f[v[i]] = At(v, h, i + 1)
      <3> SUFFICES ASSUME NEW i \in 2 .. n PROVE f[v[i]] = At(v, h, i + 1)
        OBVIOUS
      <3>1. i \in 0 .. n /\ At(v, h, i) = v[i]
        BY <1>5 DEF At
      <3> QED
        BY <1>4, <1>5, <3>1 DEF Leads
    <2>3. 0 + 1 = 1 /\ 0 + 2 = 2 /\ 0 <= n
      OBVIOUS
    <2> QED
      BY <1>5, <1>9, <1>10, <1>12, <2>1, <2>2, <2>3 DEF Halfway
  <1>15. f = U!Field(l.back)'
    BY <1>3, <1>8, <1>12 DEF U!Field
  <1> QED
    BY <1>2, <1>8, <1>11, <1>12, <1>13, <1>14, <1>15 DEF LoopInv

LEMMA LoopSteps ==
    ASSUME U!ListAssumption, ListsInv, LoopInv, U!LoopStep
    PROVE  LoopInv'
  <1>1. /\ ~U!Idle /\ loop \in Loops /\ loop.head \notin stale /\ Once(loop.visit)
        /\ loop.pos # loop.head
        /\ UNCHANGED <<next, prev, stale>>
    BY DEF LoopInv, U!LoopStep
  <1>2. PICK f : f = U!Field(loop.back) /\ f \in Pointers
    <2>1. next \in Pointers /\ prev \in Pointers
      BY Standing DEF StandsFor
    <2> QED
      BY <2>1 DEF U!Field
  <1>3. PICK k \in Nat : Halfway(loop, k, f)
    BY <1>1, <1>2 DEF LoopInv
  <1>4. PICK v, h : v = loop.visit /\ h = loop.head
    OBVIOUS
  <1>5. PICK n \in Nat : n = Len(v) /\ v \in Seq(Entry) /\ h \in List
    BY <1>1, <1>4, LenProperties DEF Loops
  <1>6. k < n
    <2>1. At(v, h, n + 1) = h
      BY <1>5, AtIs
    <2>2. k <= n /\ loop.pos = At(v, h, k + 1)
      BY <1>3, <1>4, <1>5 DEF Halfway
    <2> QED
      BY <1>1, <1>4, <2>1, <2>2
  <1>7. /\ loop.n = At(v, h, k + 2) /\ loop.pos = At(v, h, k + 1)
        /\ \A i \in k + 2 .. n : f[v[i]] = At(v, h, i + 1)
    BY <1>3, <1>4, <1>5, <1>6 DEF Halfway
  <1>8. loop.n \in U!Node /\ f[loop.n] \in U!Node \cup {Null}
    <2>1. loop.n \in U!Node
      BY <1>5, <1>7, AtNode
    <2> QED
      BY <1>2, <2>1 DEF Pointers
  <1>9. loop.pos = v[k + 1] /\ loop.pos \in Entry
    <2>1. k + 1 \in 1 .. Len(v)
      BY <1>5, <1>6
    <2>2. \A i \in 1 .. Len(v) : At(v, h, i) = v[i] /\ v[i] \in Entry
      BY <1>5, AtIs
    <2> QED
      BY <1>7, <2>1, <2>2
  <1>10. PICK s \in Seq(Entry) : /\ s = loop.visited /\ Len(s) = k
                                 /\ \A i \in 1 .. k : s[i] = v[i]
    BY <1>1, <1>3, <1>4 DEF Halfway, Loops
  <1>11. PICK t : t = Append(s, v[k + 1])
    OBVIOUS
  <1>12. /\ t \in Seq(Entry) /\ Len(t) = k + 1
         /\ \A i \in 1 .. k + 1 : t[i] = v[i]
    <2>1. /\ t \in Seq(Entry) /\ Len(t) = Len(s) + 1
          /\ \A i \in 1 .. Len(s) : t[i] = s[i]
          /\ t[Len(s) + 1] = v[k + 1]
      BY <1>9, <1>11, AppendProperties
    <2> QED
      BY <1>10, <2>1
  <1>13. PICK l : l = loop'
    OBVIOUS
  <1>14. l = [loop EXCEPT !.pos = loop.n, !.n = f[loop.n], !.visited = t]
    BY <1>2, <1>9, <1>10, <1>11, <1>13 DEF U!LoopStep
  <1>15. /\ l \in Loops /\ l.head = h /\ l.back = loop.back /\ l.pos = loop.n /\ l.n = f[loop.n]
         /\ l.visit = v /\ l.visited = t
    BY <1>1, <1>4, <1>8, <1>12, <1>14 DEF Loops
  <1>16. Halfway(l, k + 1, f)
    <2>1. k + 1 < n => f[loop.n] = At(v, h, k + 3)
      <3>1. ASSUME k + 1 < n PROVE f[loop.n] = At(v, h, k + 3)
        <4>1. k + 2 \in k + 2 .. n /\ (k + 2) + 1 = k + 3 /\ k + 2 \in 1 .. n
          BY <1>6, <3>1
        <4>2. loop.n = v[k + 2]
          BY <1>5, <1>7, <4>1 DEF At
        <4> QED
          BY <1>7, <4>1, <4>2
      <3> QED
        BY <3>1
    <2>2. \A i \in k + 3 .. n : f[v[i]] = At(v, h, i + 1)
      <3>1. \A i \in k + 3 .. n : i \in k + 2 .. n
        OBVIOUS
      <3> QED
        BY <1>7, <3>1
    <2>3. (k + 1) + 1 = k + 2 /\ (k + 1) + 2 = k + 3 /\ k + 1 <= n
      BY <1>6
    <2> QED
      BY <1>5, <1>7, <1>12, <1>15, <2>1, <2>2, <2>3 DEF Halfway
  <1>17. f = U!Field(l.back)'
    BY <1>1, <1>2, <1>15 DEF U!Field
  <1> QED
    BY <1>1, <1>4, <1>13, <1>15, <1>16, <1>17 DEF LoopInv

\* The body removes the entry the loop is at, or moves it to another list.
LEMMA BodyKeeps ==
    ASSUME U!ListAssumption, ListsInv, LoopInv, ~U!Idle, UNCHANGED <<loop, stale>>,
           NEW e \in Entry, e = loop.pos, Touches(e, List \ {loop.head}, <<next', prev'>>)
    PROVE  LoopInv'
  <1>1. loop \in Loops /\ loop.head \notin stale /\ Once(loop.visit)
    BY DEF LoopInv
  <1>2. PICK f, g : f = U!Field(loop.back) /\ g = U!Field(loop.back)'
    OBVIOUS
  <1>3. PICK k \in Nat : Halfway(loop, k, f)
    BY <1>1, <1>2 DEF LoopInv
  <1>4. PICK v, h : v = loop.visit /\ h = loop.head
    OBVIOUS
  <1>5. PICK n \in Nat : n = Len(v) /\ v \in Seq(Entry) /\ h \in List
    BY <1>1, <1>4, LenProperties DEF Loops
  <1>6. \A i \in 1 .. n : At(v, h, i) = v[i] /\ v[i] \in Entry
    BY <1>5, AtIs
  <1>7. \A y \in U!Node : y \notin {e} \cup (List \ {h}) /\ f[y] \notin {e} \cup (List \ {h})
                            => g[y] = f[y]
    <2>1. PICK m : m = <<next', prev'>>
      OBVIOUS
    <2>2. m[1] = next' /\ m[2] = prev' /\ Touches(e, List \ {h}, m)
      BY <1>4, <2>1
    <2>3. CASE loop.back
      <3>1. f = prev /\ g = prev'
        BY <1>2, <2>3 DEF U!Field
      <3> QED
        BY <2>2, <3>1 DEF Touches
    <2>4. CASE ~loop.back
      <3>1. f = next /\ g = next'
        BY <1>2, <2>4 DEF U!Field
      <3> QED
        BY <2>2, <3>1 DEF Touches
    <2> QED
      BY <2>3, <2>4
  <1>8. /\ loop.pos = At(v, h, k + 1) /\ k <= n
        /\ k < n => \A i \in k + 2 .. n : f[v[i]] = At(v, h, i + 1)
    BY <1>3, <1>4, <1>5 DEF Halfway
  <1>9. k < n => \A i \in k + 2 .. n : g[v[i]] = At(v, h, i + 1)
    <2> SUFFICES ASSUME k < n, NEW i \in k + 2 .. n PROVE g[v[i]] = At(v, h, i + 1)
      OBVIOUS
    <2>1. k + 1 \in 1 .. n /\ i \in 1 .. n /\ i # k + 1
      OBVIOUS
    <2>2. e = v[k + 1]
      BY <1>6, <1>8, <2>1
    <2>3. \A j \in 1 .. n : v[j] = e => j = k + 1
      BY <1>1, <1>4, <1>5, <2>1, <2>2 DEF Once
    <2>4. v[i] \in Entry /\ v[i] \notin {e} \cup (List \ {h}) /\ v[i] \in U!Node
      BY <1>6, <2>1, <2>3 DEF U!ListAssumption, U!Node
    <2>5. f[v[i]] = At(v, h, i + 1)
      BY <1>8
    <2>6. At(v, h, i + 1) \notin {e} \cup (List \ {h})
      <3>1. CASE i = n
        <4>1. At(v, h, i + 1) = h
          BY <1>5, <3>1, AtIs
        <4> QED
          BY <1>5, <4>1 DEF U!ListAssumption
      <3>2. CASE i # n
        <4>1. i + 1 \in 1 .. n /\ i + 1 # k + 1
          BY <3>2
        <4>2. At(v, h, i + 1) = v[i + 1] /\ v[i + 1] \in Entry
          BY <1>6, <4>1
        <4> QED
          BY <2>3, <4>1, <4>2 DEF U!ListAssumption
      <3> QED
        BY <3>1, <3>2
    <2> QED
      BY <1>7, <2>4, <2>5, <2>6
  <1>10. Halfway(loop, k, g)
    BY <1>3, <1>4, <1>5, <1>9 DEF Halfway
  <1> QED
    BY <1>1, <1>2, <1>10 DEF LoopInv

LEMMA LoopsKept ==
    ASSUME LoopInv, UNCHANGED <<next, prev, stale, loop>>
    PROVE  LoopInv'
  <1>1. U!Field(loop.back)' = U!Field(loop.back) /\ U!Idle' = U!Idle
    BY DEF U!Field, U!Idle
  <1> QED
    BY <1>1 DEF LoopInv

LEMMA LoopInvStep ==
    ASSUME U!ListAssumption, ListsInv, LoopInv, U!ListNext
    PROVE  LoopInv'
  <1>1. ASSUME U!Idle, loop' = loop PROVE LoopInv'
    BY <1>1 DEF LoopInv, U!Idle
  <1>2. ASSUME NEW e \in Entry, NEW p \in U!Node, U!Add(e, p) PROVE LoopInv'
    BY <1>1, <1>2 DEF U!Add
  <1>3. ASSUME NEW l \in List, NEW h \in List,
               U!Splice(l, h) \/ U!SpliceInit(l, h) \/ U!InitHead(h)
        PROVE  LoopInv'
    BY <1>1, <1>3 DEF U!Splice, U!SpliceInit, U!InitHead
  <1>4. ASSUME NEW e \in Entry, U!Del(e) PROVE LoopInv'
    <2>1. loop' = loop /\ stale' = stale /\ (~U!Idle => e = loop.pos)
      BY <1>4 DEF U!Del, U!MayTouch
    <2>2. Touches(e, List \ {loop.head}, <<next', prev'>>)
      BY <1>4, DelTouches
    <2> QED
      BY <1>1, <2>1, <2>2, BodyKeeps
  <1>5. ASSUME NEW e \in Entry, NEW p \in U!Node, U!Move(e, p) PROVE LoopInv'
    <2>1. /\ loop' = loop /\ stale' = stale
          /\ ~U!Idle => e = loop.pos /\ p \in List \ {loop.head}
      BY <1>5 DEF U!Move, U!MayTouch
    <2>2. ASSUME ~U!Idle PROVE Touches(e, List \ {loop.head}, <<next', prev'>>)
      <3>1. PICK P \in SUBSET List : P = List \ {loop.head} /\ p \in P
        BY <2>1, <2>2
      <3>2. Touches(e, P, <<next', prev'>>)
        BY <1>5, <3>1, MoveTouches
      <3> QED
        BY <3>1, <3>2
    <2> QED
      BY <1>1, <2>1, <2>2, BodyKeeps
  <1>6. ASSUME NEW h \in List, NEW back \in BOOLEAN, U!LoopBegin(h, back) PROVE LoopInv'
    BY <1>6, LoopBegins
  <1>7. CASE U!LoopStep
    BY <1>7, LoopSteps
  <1>8. CASE U!LoopEnd
    BY <1>8 DEF U!LoopEnd, LoopInv, U!Idle, U!NoLoop
  <1> QED
    BY <1>2, <1>3, <1>4, <1>5, <1>6, <1>7, <1>8 DEF U!ListNext

LEMMA LoopInvImplies ==
    ASSUME U!ListAssumption, LoopInv
    PROVE  U!LoopVisitsAll
  <1> SUFFICES ASSUME ~U!Idle
               PROVE  /\ U!IsPrefix(loop.visited, loop.visit)
                      /\ loop.pos = loop.head => loop.visited = loop.visit
    BY DEF U!LoopVisitsAll
  <1>1. loop \in Loops
    BY DEF LoopInv
  <1>2. PICK k \in Nat : \E f : Halfway(loop, k, f)
    BY DEF LoopInv
  <1>3. PICK v, s, h : v = loop.visit /\ s = loop.visited /\ h = loop.head
    OBVIOUS
  <1>4. PICK n \in Nat : /\ n = Len(v) /\ v \in Seq(Entry) /\ s \in Seq(Entry) /\ h \in List
    BY <1>1, <1>3, LenProperties DEF Loops
  <1>5. /\ Len(s) = k /\ k <= n /\ \A i \in 1 .. k : s[i] = v[i]
        /\ loop.pos = At(v, h, k + 1)
    BY <1>2, <1>3, <1>4 DEF Halfway
  <1>6. SubSeq(s, 1, k) = SubSeq(v, 1, k)
    <2>1. /\ 0 \in Nat /\ 0 <= k /\ k <= Len(s) /\ k <= Len(v) /\ 0 + 1 = 1 /\ k - 0 = k
          /\ \A j \in 1 .. k : 0 + j = j
      BY <1>4, <1>5
    <2>2. /\ SubSeq(s, 0 + 1, k) \in Seq(Entry) /\ Len(SubSeq(s, 0 + 1, k)) = k - 0
          /\ \A j \in 1 .. k - 0 : SubSeq(s, 0 + 1, k)[j] = s[0 + j]
      BY <1>4, <2>1, PartIs
    <2>3. /\ SubSeq(v, 0 + 1, k) \in Seq(Entry) /\ Len(SubSeq(v, 0 + 1, k)) = k - 0
          /\ \A j \in 1 .. k - 0 : SubSeq(v, 0 + 1, k)[j] = v[0 + j]
      BY <1>4, <2>1, PartIs
    <2>4. PICK a \in Seq(Entry), b \in Seq(Entry) : a = SubSeq(s, 1, k) /\ b = SubSeq(v, 1, k)
      BY <2>1, <2>2, <2>3
    <2>5. /\ Len(a) = k /\ Len(b) = k /\ \A j \in 1 .. k : a[j] = s[j] /\ b[j] = v[j]
      BY <2>1, <2>2, <2>3, <2>4
    <2>6. a = b
      BY <1>5, <2>5, SeqEqual
    <2> QED
      BY <2>4, <2>6
  <1>7. U!IsPrefix(s, v)
    BY <1>4, <1>5, <1>6 DEF U!IsPrefix
  <1>8. loop.pos = h => s = v
    <2>1. ASSUME k < n PROVE At(v, h, k + 1) \in Entry
      <3>1. k + 1 \in 1 .. Len(v)
        BY <1>4, <2>1
      <3>2. \A i \in 1 .. Len(v) : At(v, h, i) = v[i] /\ v[i] \in Entry
        BY <1>4, AtIs
      <3> QED
        BY <3>1, <3>2
    <2>2. loop.pos = h => k = n
      BY <1>4, <1>5, <2>1 DEF U!ListAssumption
    <2>3. k = n => s = v
      BY <1>4, <1>5, SeqEqual
    <2> QED
      BY <2>2, <2>3
  <1> QED
    BY <1>3, <1>7, <1>8

\* A loop over a list visits what the list held when it began, in order and
\* once, whatever its body does to the entry it is at.
THEOREM LoopsVisitAll == StoresSpec => []LoopVisitsAll
  <1> DEFINE Both == ListsInv /\ LoopInv
  <1>1. U!ListAssumption
    BY StoresAssumption
  <1>2. StoresInit => Both
    <2> SUFFICES ASSUME StoresInit PROVE ListsInv /\ LoopInv
      OBVIOUS
    <2>1. ListsInv
      BY <1>1, ListsStart DEF StoresInit
    <2>2. U!Idle
      BY DEF StoresInit, U!ListInit, U!NoLoop, U!Idle
    <2> QED
      BY <2>1, <2>2 DEF LoopInv
  <1>3. Both /\ [StoresNext]_<<part, vars, datavars, listvars, confvars>> => Both'
    <2> SUFFICES ASSUME ListsInv, LoopInv, [StoresNext]_<<part, vars, datavars, listvars, confvars>>
                 PROVE  ListsInv' /\ LoopInv'
      OBVIOUS
    <2>1. CASE part = "list" /\ U!ListNext
      <3>1. ListsInv'
        BY <1>1, <2>1, ListsStep
      <3>2. LoopInv'
        BY <1>1, <2>1, LoopInvStep
      <3> QED
        BY <3>1, <3>2
    <2>2. CASE UNCHANGED listvars
      <3>1. UNCHANGED <<next, prev, stale, done, loop>>
        BY <2>2 DEF listvars
      <3>2. ListsInv'
        BY <3>1, ListsKept
      <3>3. LoopInv'
        BY <3>1, LoopsKept
      <3> QED
        BY <3>2, <3>3
    <2>3. (part = "list" /\ U!ListNext) \/ UNCHANGED listvars
      BY DEF StoresNext, Over
    <2> QED
      BY <2>1, <2>2, <2>3
  <1>4. Both => LoopVisitsAll
    BY <1>1, LoopInvImplies DEF LoopVisitsAll
  <1> QED
    BY <1>2, <1>3, <1>4, PTL DEF StoresSpec

-----------------------------------------------------------------------------
(* The shapes of all four *)

\* The counts keep to their bound, and a key is in the table once.
Tabled ==
    /\ \A i \in Item : count[i] <= MaxCount
    /\ UniqueKeys
    /\ crashed \in BOOLEAN

\* No item in the table has a key that is not found.
LEMMA NotFound ==
    ASSUME Types, Lists, NEW k \in Key, Found(k) = {}
    PROVE  \A i \in Live : key[i] # k
  BY LiveItem DEF Found

\* What is in the table after an addition or a deletion.
LEMMA LiveAdd ==
    ASSUME Types, Lists, NEW k \in Key, NEW i \in Item \ Live,
           bucket' = [bucket EXCEPT ![HashOf[k]] = <<i>> \o @]
    PROVE  Live' \subseteq Live \cup {i}
  <1>1. HashOf[k] \in Buckets
    BY BucketOfKey
  <1>2. PICK s \in Seq(Item) : s = bucket[HashOf[k]]
    BY <1>1 DEF Types
  <1>3. SetOf(<<i>> \o s) \subseteq SetOf(s) \cup {i}
    <2> SUFFICES ASSUME NEW n \in DOMAIN (<<i>> \o s)
                 PROVE  (<<i>> \o s)[n] \in SetOf(s) \cup {i}
      BY DEF SetOf
    <2>1. <<i>> \in Seq(Item) /\ Len(<<i>>) = 1 /\ <<i>>[1] = i
      OBVIOUS
    <2>2. /\ Len(<<i>> \o s) = 1 + Len(s) /\ <<i>> \o s \in Seq(Item)
          /\ \A j \in 1 .. 1 + Len(s) :
                (<<i>> \o s)[j] = IF j <= 1 THEN <<i>>[j] ELSE s[j - 1]
      BY <2>1, ConcatProperties
    <2>3. n \in 1 .. 1 + Len(s) /\ Len(s) \in Nat /\ DOMAIN s = 1 .. Len(s)
      BY <2>2, LenProperties
    <2>4. CASE n = 1
      <3>1. (<<i>> \o s)[1] = <<i>>[1]
        BY <2>2, <2>3
      <3> QED
        BY <2>1, <2>4, <3>1
    <2>5. CASE n # 1
      <3>1. n - 1 \in DOMAIN s /\ ~(n <= 1)
        BY <2>3, <2>5
      <3>2. (<<i>> \o s)[n] = s[n - 1]
        BY <2>2, <2>3, <3>1
      <3> QED
        BY <3>1, <3>2 DEF SetOf
    <2> QED
      BY <2>4, <2>5
  <1>4. \A b \in Buckets : bucket'[b] = IF b = HashOf[k] THEN <<i>> \o s ELSE bucket[b]
    BY <1>2 DEF Types
  <1>5. \A b \in Buckets : SetOf(bucket'[b]) \subseteq SetOf(bucket[b]) \cup {i}
    BY <1>2, <1>3, <1>4
  <1>6. Live' = UNION {SetOf(bucket'[b]) : b \in Buckets}
    BY DEF Live, SetOf, Buckets
  <1> QED
    BY <1>5, <1>6 DEF Live

LEMMA LiveDelete ==
    ASSUME Types, Lists, NEW i \in Live, Delete(i)
    PROVE  Live' \subseteq Live \ {i}
  <1> DEFINE h == HashOf[key[i]]
  <1>1. i \in Item /\ h \in Buckets /\ Place(i) \in DOMAIN bucket[h] /\ bucket[h][Place(i)] = i
    BY PlaceOf, LiveItem
  <1>2. PICK s, p : s = bucket[h] /\ p = Place(i) /\ s \in Seq(Item)
    BY <1>1 DEF Types
  <1>3. /\ DOMAIN s = 1 .. Len(s) /\ Len(s) \in Nat /\ p \in 1 .. Len(s) /\ s[p] = i
        /\ \A m, n \in 1 .. Len(s) : s[m] = s[n] => m = n
    BY <1>1, <1>2, LenProperties DEF Lists
  <1>4. SetOf(Unlinked(s, p)) \subseteq SetOf(s) \ {i}
    <2> SUFFICES ASSUME NEW n \in 1 .. Len(s) - 1
                 PROVE  (IF n < p THEN s[n] ELSE s[n + 1]) \in SetOf(s) \ {i}
      BY DEF SetOf, Unlinked
    <2>1. CASE n < p
      BY <1>3, <2>1 DEF SetOf
    <2>2. CASE ~(n < p)
      <3>1. n + 1 \in 1 .. Len(s) /\ n + 1 # p
        BY <1>3, <2>2
      <3> QED
        BY <1>3, <2>2, <3>1 DEF SetOf
    <2> QED
      BY <2>1, <2>2
  <1>5. \A b \in Buckets : bucket'[b] = IF b = h THEN Unlinked(s, p) ELSE bucket[b]
    <2>1. bucket' = [bucket EXCEPT ![h] = Unlinked(s, p)] /\ bucket \in [Buckets -> Seq(Item)]
      BY <1>2 DEF Types, Delete
    <2> QED
      BY <1>1, <2>1
  <1>6. ASSUME NEW b \in Buckets, b # h PROVE i \notin SetOf(bucket[b])
    <2> SUFFICES ASSUME NEW n \in DOMAIN bucket[b], bucket[b][n] = i PROVE FALSE
      BY DEF SetOf
    <2> QED
      BY <1>6 DEF Lists
  <1>7. \A b \in Buckets : SetOf(bucket'[b]) \subseteq SetOf(bucket[b]) \ {i}
    BY <1>2, <1>4, <1>5, <1>6
  <1>8. Live' = UNION {SetOf(bucket'[b]) : b \in Buckets}
    BY DEF Live, SetOf, Buckets
  <1> QED
    BY <1>7, <1>8 DEF Live

\* A step that leaves the lists alone and no count above its bound.
LEMMA TabledKept ==
    ASSUME Tabled, UNCHANGED <<bucket, key>>, \A i \in Item : count'[i] <= MaxCount,
           crashed' \in BOOLEAN
    PROVE  Tabled'
  BY DEF Tabled, UniqueKeys, Live, SetOf, Buckets

LEMMA TabledVisit ==
    ASSUME Tabled, NEW t \in Thread, NEW i, NEW C \in [Item -> Nat], NEW must, NEW seen,
           \A j \in Item : C[j] <= MaxCount, Visit(t, i, C, must, seen),
           UNCHANGED <<bucket, key, crashed>>
    PROVE  Tabled'
  <1>1. MaxCount \in Nat /\ \A j \in Item : C[j] \in Nat
    BY HashAssumption
  <1>2. CASE i = None
    <2>1. count' = C
      BY <1>2 DEF Visit
    <2> QED
      BY <2>1, TabledKept DEF Tabled
  <1>3. CASE i # None
    <2>1. PICK a : a = After(i)
      OBVIOUS
    <2>2. /\ \A j \in {i, a} \ {None} : C[j] < MaxCount
          /\ count' = [j \in Item |-> C[j] + (IF j \in {i, a} THEN 1 ELSE 0)]
      BY <1>3, <2>1 DEF Visit
    <2>3. ASSUME NEW j \in Item PROVE count'[j] <= MaxCount
      <3>1. count'[j] = C[j] + (IF j \in {i, a} THEN 1 ELSE 0) /\ j # None
        BY <2>2, HashAssumption
      <3>2. CASE j \in {i, a}
        <4>1. C[j] < MaxCount /\ count'[j] = C[j] + 1
          BY <2>2, <3>1, <3>2
        <4> QED
          BY <1>1, <4>1
      <3>3. CASE j \notin {i, a}
        <4>1. count'[j] = C[j] + 0
          BY <3>1, <3>3
        <4> QED
          BY <1>1, <4>1
      <3> QED
        BY <3>2, <3>3
    <2> QED
      BY <2>3, TabledKept DEF Tabled
  <1> QED
    BY <1>2, <1>3

LEMMA TabledNext == ASSUME Threads, Inv, Tabled, [Next]_vars PROVE Tabled'
  <1>1. Types /\ Lists /\ Lists'
    BY InvNext DEF Inv
  <1>2. /\ MaxCount \in Nat
        /\ \A j \in Item : count[j] \in Nat /\ count[j] <= MaxCount
    BY <1>1, HashAssumption DEF Types, Tabled
  <1>3. ASSUME NEW i \in Item, NEW n \in Nat, n <= MaxCount, count' = [count EXCEPT ![i] = n],
               UNCHANGED <<bucket, key>>, crashed' \in BOOLEAN
        PROVE  Tabled'
    <2>1. \A j \in Item : count'[j] <= MaxCount
      BY <1>1, <1>2, <1>3 DEF Types
    <2> QED
      BY <1>3, <2>1, TabledKept
  <1>4. ASSUME NEW t \in Thread, iter[t].on
        PROVE  Unpinned(t) \in [Item -> Nat] /\ \A j \in Item : Unpinned(t)[j] <= MaxCount
    <2>1. Unpinned(t) \in [Item -> Nat]
      BY <1>4, UnpinnedOf
    <2>2. \A j \in Item : Unpinned(t)[j] <= MaxCount
      BY <1>2 DEF Unpinned
    <2> QED
      BY <2>1, <2>2
  <1>5. CASE Renew
    <2>1. Live' = {}
      BY <1>5 DEF Renew, Live, SetOf, Buckets
    <2>2. /\ \A i \in Item : count'[i] = 0
          /\ crashed' = crashed
      BY <1>5 DEF Renew
    <2> QED
      BY <1>2, <2>1, <2>2 DEF Tabled, UniqueKeys
  <1>6. ASSUME NEW t \in Thread, NEW k \in Key, Add(t, k) PROVE Tabled'
    <2>1. PICK i \in Item \ Live : bucket' = [bucket EXCEPT ![HashOf[k]] = <<i>> \o @]
                                   /\ key' = [key EXCEPT ![i] = k]
      BY <1>6 DEF Add
    <2>2. Live' \subseteq Live \cup {i}
      BY <1>1, <2>1, LiveAdd
    <2>3. \A j \in Live : key[j] # k /\ j \in Item
      BY <1>1, <1>6, NotFound, LiveItem DEF Add
    <2>4. key'[i] = k /\ \A j \in Live : key'[j] = key[j]
      BY <1>1, <2>1, <2>3 DEF Types
    <2>5. UniqueKeys'
      <3> SUFFICES ASSUME NEW a \in Live', NEW b \in Live', key'[a] = key'[b] PROVE a = b
        BY DEF UniqueKeys
      <3> QED
        BY <2>2, <2>3, <2>4 DEF Tabled, UniqueKeys
    <2> QED
      BY <1>6, <2>5 DEF Add, Tabled
  <1>7. ASSUME NEW t \in Thread, NEW k \in Key, DelKey(t, k) PROVE Tabled'
    <2>1. PICK i \in Found(k) : Delete(i)
      BY <1>7 DEF DelKey
    <2>2. i \in Live /\ i \in Item
      BY <1>1, FoundLive
    <2>3. Live' \subseteq Live \ {i}
      BY <1>1, <2>1, <2>2, LiveDelete
    <2>4. \A j \in Live \ {i} : key'[j] = key[j]
      BY <1>1, <2>1, <2>2, LiveItem DEF Delete, Types
    <2>5. UniqueKeys'
      <3> SUFFICES ASSUME NEW a \in Live', NEW b \in Live', key'[a] = key'[b] PROVE a = b
        BY DEF UniqueKeys
      <3> QED
        BY <2>3, <2>4 DEF Tabled, UniqueKeys
    <2>6. \A j \in Item : count'[j] <= MaxCount
      <3>1. count' = [count EXCEPT ![i] = 0] /\ count \in [Item -> Nat]
        BY <1>1, <2>1 DEF Delete, Types
      <3>2. \A j \in Item : count'[j] = IF j = i THEN 0 ELSE count[j]
        BY <3>1
      <3> QED
        BY <1>2, <3>2
    <2> QED
      BY <1>7, <2>5, <2>6 DEF DelKey, Tabled
  <1>8. ASSUME NEW t \in Thread, NEW k \in Key, AcquireBlob(t, k) PROVE Tabled'
    <2>1. PICK i \in Found(k) : count[i] < MaxCount /\ count' = [count EXCEPT ![i] = @ + 1]
      BY <1>8 DEF AcquireBlob
    <2>2. i \in Item
      BY <1>1, FoundLive
    <2>3. count[i] + 1 \in Nat /\ count[i] + 1 <= MaxCount /\ count' = [count EXCEPT ![i] = count[i] + 1]
      BY <1>2, <2>1, <2>2
    <2> QED
      BY <1>3, <1>8, <2>2, <2>3 DEF AcquireBlob, Tabled
  <1>9. ASSUME NEW t \in Thread, Unreference(t), UNCHANGED <<bucket, key>>, crashed' \in BOOLEAN
        PROVE  Tabled'
    <2>1. PICK i : count' = [count EXCEPT ![i] = Less(count[i])]
      BY <1>9 DEF Unreference
    <2>2. \A j \in Item : count'[j] <= MaxCount
      BY <1>1, <1>2, <2>1 DEF Less, Types
    <2> QED
      BY <1>9, <2>2, TabledKept
  <1>10. ASSUME NEW t \in Thread, ReleaseBlob(t) \/ DelKeyFormBlob(t) PROVE Tabled'
    BY <1>9, <1>10 DEF ReleaseBlob, DelKeyFormBlob, Tabled
  <1>11. ASSUME NEW t \in Thread, IterStart(t) PROVE Tabled'
    <2>1. count \in [Item -> Nat]
      BY <1>1 DEF Types
    <2> QED
      BY <1>2, <1>11, <2>1, TabledVisit DEF IterStart
  <1>12. ASSUME NEW t \in Thread, IterKeep(t) PROVE Tabled'
    BY <1>4, <1>12, TabledVisit DEF IterKeep
  <1>13. ASSUME NEW t \in Thread, IterExit(t) PROVE Tabled'
    BY <1>4, <1>13, TabledKept DEF IterExit, Tabled
  <1>14. ASSUME NEW t \in Thread, RelockFails(t) PROVE Tabled'
    BY <1>14, TabledKept DEF RelockFails, Tabled
  <1>15. ASSUME NEW t \in Thread, StoreUnlocked(t) PROVE Tabled'
    <2>1. /\ iter[t].nxt \in Item /\ count' = [count EXCEPT ![iter[t].nxt] = count[iter[t].nxt] - 1]
          /\ UNCHANGED <<bucket, key, crashed>>
      BY <1>1, <1>15 DEF StoreUnlocked, Inv, Unlocked, Types, Iteration
    <2>2. \A j \in Item : count'[j] <= MaxCount
      BY <1>1, <1>2, <2>1 DEF Types
    <2> QED
      BY <2>1, <2>2, TabledKept DEF Tabled
  <1>16. CASE UNCHANGED vars
    BY <1>16, TabledKept DEF vars, Tabled
  <1> QED
    BY <1>5, <1>6, <1>7, <1>8, <1>10, <1>11, <1>12, <1>13, <1>14, <1>15, <1>16 DEF Next, Step

LEMMA TypeOf == ASSUME Inv, Tabled PROVE TypeOK /\ UniqueKeys
  <1>1. Types /\ Lists
    BY DEF Inv
  <1>2. count \in [Item -> 0 .. MaxCount]
    BY <1>1, HashAssumption DEF Types, Tabled
  <1>3. \A t \in Thread : iter[t].cur \in Item \cup {None} /\ iter[t].nxt \in Item \cup {None}
    BY <1>1 DEF Types, Iteration
  <1> QED
    BY <1>1, <1>2, <1>3 DEF Types, Lists, Tabled, TypeOK

LEMMA RingsOf == ASSUME U!ListAssumption, ListsInv PROVE U!ListsAreRings
  <1>1. PICK q : /\ StandsFor(U!links, q, stale, {}) /\ q \in [List -> Seq(Entry)]
                 /\ U!links[1] = next /\ U!links[2] = prev
    BY Standing
  <1>2. stale \in SUBSET List
    BY DEF ListsInv
  <1> SUFFICES ASSUME NEW h \in List \ stale
               PROVE  /\ U!Walk(next, h) # Null /\ U!Walk(prev, h) # Null
                      /\ U!Walk(prev, h) = U!Reverse(U!Walk(next, h))
    BY DEF U!ListsAreRings
  <1>3. /\ U!Walk(next, h) = q[h] /\ U!Walk(prev, h) = U!Reverse(q[h])
        /\ Leads(prev, h, U!Reverse(q[h]))
    BY <1>1, <1>2, ListsWalked
  <1>4. q[h] \in Seq(Entry) /\ U!Reverse(q[h]) \in Seq(Entry)
    BY <1>1, <1>3 DEF Leads
  <1> QED
    BY <1>3, <1>4 DEF U!ListAssumption

LEMMA ConfigShaped == ASSUME ConfigInv PROVE S!TypeOK /\ S!AuthorsAreAlive
  <1>1. ConfigShape /\ reload \in Reloads /\ dead \in BOOLEAN
    BY DEF ConfigInv, ConfigTypes
  <1> QED
    BY <1>1 DEF ConfigInv, ConfigShape, Places, S!TypeOK

\* Wherever its threads, operations and writers are: a key is in the hash table
\* once, though two threads look for it before they add it; the lists lead back
\* the way they lead forth; no author that is destroyed is called.
THEOREM StoresTyped == ASSUME Threads PROVE StoresSpec => []StoresTypeOK
  <1> DEFINE Whole == /\ Inv /\ Tabled /\ ListsInv /\ ConfigInv
                     /\ part \in {"hash", "values", "list", "config"}
  <1>1. U!ListAssumption
    BY StoresAssumption
  <1>2. StoresInit => Whole
    <2> SUFFICES ASSUME StoresInit PROVE Whole
      OBVIOUS
    <2>1. Inv /\ ListsInv /\ ConfigInv
      BY <1>1, InvInit, ListsStart, ConfigInvInit DEF StoresInit
    <2>2. Tabled
      <3>1. Live = {} /\ count = [i \in Item |-> 0] /\ crashed = FALSE
        BY DEF StoresInit, Init, Live, SetOf
      <3>2. \A i \in Item : count[i] <= MaxCount
        BY <3>1, HashAssumption
      <3> QED
        BY <3>1, <3>2 DEF Tabled, UniqueKeys
    <2> QED
      BY <2>1, <2>2 DEF StoresInit
  <1>3. Whole /\ [StoresNext]_<<part, vars, datavars, listvars, confvars>> => Whole'
    <2> SUFFICES ASSUME Whole, [StoresNext]_<<part, vars, datavars, listvars, confvars>>
                 PROVE  Whole'
      OBVIOUS
    <2>1. [Next]_vars /\ part' = part
      BY DEF StoresNext, Over
    <2>2. Inv' /\ Tabled'
      BY <2>1, InvNext, TabledNext
    <2>3. ConfigInv'
      BY ConfigStep
    <2>4. ListsInv'
      <3>1. CASE part = "list" /\ U!ListNext
        BY <1>1, <3>1, ListsStep
      <3>2. CASE UNCHANGED listvars
        BY <3>2, ListsKept DEF listvars
      <3>3. (part = "list" /\ U!ListNext) \/ UNCHANGED listvars
        BY DEF StoresNext, Over
      <3> QED
        BY <3>1, <3>2, <3>3
    <2> QED
      BY <2>1, <2>2, <2>3, <2>4
  <1>4. Whole => StoresTypeOK
    BY <1>1, TypeOf, RingsOf, ConfigShaped DEF StoresTypeOK
  <1> QED
    BY <1>2, <1>3, <1>4, PTL DEF StoresSpec
===============================================================================
