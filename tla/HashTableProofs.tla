-------------------------- MODULE HashTableProofs --------------------------
(***************************************************************************)
(* Proofs about HashTableUse, for any keys, values, bins and hash function, *)
(* and any number of keys in a bin: also of a table that has lost entries. *)
(***************************************************************************)
EXTENDS HashTableUse, SequenceTheorems, SumLemmas

-----------------------------------------------------------------------------
(* Lemmas about the list of a bin.                                         *)

\* The smallest of a set of positions.
LEMMA MinOfPositions ==
  ASSUME NEW S \in SUBSET Nat, S # {}
  PROVE  Min(S) \in S
  BY SmallestNumber DEF Min

\* Position finds an element with the key if there is one.
LEMMA PositionOfKey ==
  ASSUME NEW list, NEW k
  PROVE  LET at == Position(list, k)
         IN  \/ at = 0 /\ \A i \in 1 .. Len(list.elems) : list.elems[i].key # k
             \/ at \in 1 .. Len(list.elems) /\ list.elems[at].key = k
  <1> DEFINE I == {i \in 1 .. Len(list.elems) : list.elems[i].key = k}
  <1>1. CASE I = {}
    BY <1>1 DEF Position, SelectInSeq
  <1>2. CASE I # {}
    <2>1. I \in SUBSET Nat
      OBVIOUS
    <2>2. Min(I) \in I
      <3> HIDE DEF I
      <3> QED BY <1>2, <2>1, MinOfPositions
    <2>3. Position(list, k) = Min(I)
      BY <1>2 DEF Position, SelectInSeq
    <2> QED BY <2>2, <2>3
  <1> QED BY <1>1, <1>2

\* The elements before and after the one at a position.
LEMMA RemoveAtPosition ==
  ASSUME NEW S, NEW s \in Seq(S), NEW at \in 1 .. Len(s)
  PROVE  /\ RemoveAt(s, at) \in Seq(S) /\ Len(RemoveAt(s, at)) = Len(s) - 1
         /\ \A i \in 1 .. Len(s) - 1 :
              RemoveAt(s, at)[i] = IF i < at THEN s[i] ELSE s[i + 1]
  <1> DEFINE n == Len(s)
             front == SubSeq(s, 1, at - 1)
             back == SubSeq(s, at + 1, n)
  <1>1. n \in Nat /\ at \in Nat /\ 1 <= at /\ at <= n /\ \A i \in 1 .. n : s[i] \in S
    OBVIOUS
  <1>2. /\ front \in Seq(S) /\ Len(front) = at - 1
        /\ \A i \in 1 .. at - 1 : front[i] = s[i]
    BY <1>1, SubSeqProperties
  <1>3. /\ back \in Seq(S) /\ Len(back) = n - at
        /\ \A i \in 1 .. n - at : back[i] = s[at + i]
    BY <1>1, SubSeqProperties
  <1> HIDE DEF front, back
  <1>4. /\ front \o back \in Seq(S) /\ Len(front \o back) = n - 1
        /\ \A i \in 1 .. n - 1 :
             (front \o back)[i] = IF i <= at - 1 THEN front[i] ELSE back[i - (at - 1)]
    <2>1. Len(front) + Len(back) = n - 1
      BY <1>1, <1>2, <1>3
    <2>2. /\ front \o back \in Seq(S) /\ Len(front \o back) = Len(front) + Len(back)
          /\ \A i \in 1 .. Len(front) + Len(back) :
               (front \o back)[i] = IF i <= Len(front) THEN front[i] ELSE back[i - Len(front)]
      BY <1>2, <1>3, ConcatProperties
    <2> QED BY <1>2, <2>1, <2>2
  <1>5. ASSUME NEW i \in 1 .. n - 1
        PROVE  (front \o back)[i] = IF i < at THEN s[i] ELSE s[i + 1]
    <2>1. CASE i < at
      BY <1>1, <1>2, <1>4, <2>1
    <2>2. CASE ~ (i < at)
      <3>1. i - (at - 1) \in 1 .. n - at /\ at + (i - (at - 1)) = i + 1
        BY <1>1, <2>2
      <3> QED BY <1>1, <1>3, <1>4, <2>2, <3>1
    <2> QED BY <2>1, <2>2
  <1>6. RemoveAt(s, at) = front \o back
    BY DEF RemoveAt, front, back
  <1> QED BY <1>4, <1>5, <1>6

-----------------------------------------------------------------------------
(* The inductive invariant.                                                *)

Element(b) == [key : {k \in Key : hash(k) = b}, val : Val]

\* What a walk of bin b meets: keys of this bin, each once, with the value the
\* key was last bound to; tail is inside the list or 0.
ListOK(list, b, binding) ==
    /\ list.elems \in Seq(Element(b))
    /\ list.tail \in 0 .. Len(list.elems)
    /\ \A i, j \in 1 .. Len(list.elems) : list.elems[i].key = list.elems[j].key => i = j
    /\ \A i \in 1 .. Len(list.elems) : list.elems[i].val = binding[list.elems[i].key]

IInv ==
    /\ last \in [Key -> Val \union {NULL}]
    /\ ht.bins = [b \in Bin |-> ht.bins[b]]
    /\ \A b \in Bin : ListOK(ht.bins[b], b, last)

LEMMA InitIInv == Init => IInv
  <1> SUFFICES ASSUME Init PROVE IInv
    OBVIOUS
  <1>1. \A b : ListOK(list_create, b, last)
    BY DEF ListOK, list_create
  <1>2. ht.bins = [b \in Bin |-> list_create] /\ last = [k \in Key |-> NULL]
    BY DEF Init, hash_table_create
  <1> QED BY <1>1, <1>2 DEF IInv

LEMMA ListFacts ==
  ASSUME NEW list, NEW b, NEW binding, ListOK(list, b, binding)
  PROVE  /\ Len(list.elems) \in Nat /\ list.tail \in Nat /\ list.tail <= Len(list.elems)
         /\ \A i \in 1 .. Len(list.elems) :
              /\ list.elems[i] \in Element(b)
              /\ list.elems[i].key \in Key /\ hash(list.elems[i].key) = b
              /\ list.elems[i].val \in Val
              /\ list.elems[i].val = binding[list.elems[i].key]
  <1>1. Len(list.elems) \in Nat /\ \A i \in 1 .. Len(list.elems) : list.elems[i] \in Element(b)
    BY ElementOfSeq DEF ListOK
  <1>2. list.tail \in Nat /\ list.tail <= Len(list.elems)
    BY <1>1 DEF ListOK
  <1>3. \A e \in Element(b) : e.key \in Key /\ hash(e.key) = b /\ e.val \in Val
    BY DEF Element
  <1>4. \A i \in 1 .. Len(list.elems) : list.elems[i].val = binding[list.elems[i].key]
    BY DEF ListOK
  <1> QED BY <1>1, <1>2, <1>3, <1>4

\* A step that changes one bin and the binding of one key of it.
LEMMA StepOfOneBin ==
  ASSUME IInv, NEW k \in Key, ht'.bins = [ht.bins EXCEPT ![hash(k)] = ht'.bins[hash(k)]],
         ListOK(ht'.bins[hash(k)], hash(k), last'),
         last' \in [Key -> Val \union {NULL}],
         \A j \in Key \ {k} : last'[j] = last[j]
  PROVE  IInv'
  <1>1. /\ ht'.bins = [b \in Bin |-> ht'.bins[b]]
        /\ \A b \in Bin \ {hash(k)} : ht'.bins[b] = ht.bins[b]
    BY DEF IInv
  <1>2. ASSUME NEW b \in Bin, b # hash(k)
        PROVE  ListOK(ht'.bins[b], b, last')
    <2> DEFINE list == ht.bins[b]
    <2>1. ht'.bins[b] = list /\ ListOK(list, b, last)
      BY <1>1, <1>2 DEF IInv
    <2> HIDE DEF list
    <2>2. \A i \in 1 .. Len(list.elems) :
            list.elems[i].key \in Key \ {k} /\ list.elems[i].val = last[list.elems[i].key]
      BY <1>2, <2>1, ListFacts
    <2> QED BY <2>1, <2>2 DEF ListOK
  <1> QED BY <1>1, <1>2 DEF IInv

\* A key that is not found has no element; one that is found has its value.
LEMMA FindInTable ==
  ASSUME IInv, NEW k \in Key
  PROVE  LET list == ht.bins[hash(k)]
         IN  /\ ListOK(list, hash(k), last)
             /\ hash_table_find(ht, k) \in {NULL, last[k]}
             /\ hash_table_find(ht, k) = NULL =>
                  \A i \in 1 .. Len(list.elems) : list.elems[i].key # k
  <1> DEFINE list == ht.bins[hash(k)]
  <1>1. ListOK(list, hash(k), last)
    BY HashTableUseAssumption DEF IInv
  <1>2. hash_table_find(ht, k) =
          IF Position(list, k) = 0 THEN NULL ELSE list.elems[Position(list, k)].val
    BY DEF hash_table_find, list_find
  <1> HIDE DEF list
  <1>3. CASE Position(list, k) = 0
    <2>1. \A i \in 1 .. Len(list.elems) : list.elems[i].key # k
      BY <1>3, PositionOfKey
    <2> QED BY <1>1, <1>2, <1>3, <2>1 DEF list
  <1>4. CASE Position(list, k) # 0
    <2>1. Position(list, k) \in 1 .. Len(list.elems) /\ list.elems[Position(list, k)].key = k
      BY <1>4, PositionOfKey
    <2>2. /\ list.elems[Position(list, k)].val = last[k]
          /\ list.elems[Position(list, k)].val \in Val
      BY <1>1, <2>1, ListFacts
    <2> QED BY <1>1, <1>2, <1>4, <2>2, HashTableUseAssumption DEF list
  <1> QED BY <1>3, <1>4

\* A new element comes after tail; what followed tail is lost, nothing else.
LEMMA AddToList ==
  ASSUME NEW k \in Key, NEW v \in Val, NEW list, NEW binding, NEW later,
         ListOK(list, hash(k), binding),
         \A i \in 1 .. Len(list.elems) : list.elems[i].key # k,
         later[k] = v, \A j \in Key \ {k} : later[j] = binding[j]
  PROVE  ListOK(list_add(list, k, v), hash(k), later)
  <1> DEFINE E == Element(hash(k))
             e == [key |-> k, val |-> v]
             front == SubSeq(list.elems, 1, list.tail)
             new == list_add(list, k, v)
             t == list.tail
  <1>1. /\ Len(list.elems) \in Nat /\ t \in Nat /\ t <= Len(list.elems)
        /\ \A i \in 1 .. Len(list.elems) : list.elems[i] \in E
    BY ListFacts
  <1>2. \A i \in 1 .. t :
          /\ i \in 1 .. Len(list.elems) /\ list.elems[i].key \in Key \ {k}
          /\ list.elems[i].val = later[list.elems[i].key]
    BY <1>1, ListFacts
  <1>3. new.elems = Append(front, e) /\ new.tail = IF t = 0 THEN 1 ELSE t
    BY DEF list_add
  <1>4. /\ front \in Seq(E) /\ Len(front) = t
        /\ \A i \in 1 .. t : front[i] = list.elems[i]
    <2>1. 1 \in Int /\ t \in Int /\ \A i \in 1 .. t : list.elems[i] \in E
      BY <1>1, <1>2
    <2> HIDE DEF E, t
    <2>2. /\ SubSeq(list.elems, 1, t) \in Seq(E)
          /\ Len(SubSeq(list.elems, 1, t)) = IF 1 <= t THEN t - 1 + 1 ELSE 0
          /\ \A i \in 1 .. t - 1 + 1 : SubSeq(list.elems, 1, t)[i] = list.elems[1 + i - 1]
      BY <2>1, SubSeqProperties
    <2> QED BY <1>1, <2>2 DEF t
  <1>5. e \in E
    BY DEF Element
  <1> HIDE DEF E, e, front, new, t
  <1>6. /\ new.elems \in Seq(E) /\ Len(new.elems) = t + 1
        /\ \A i \in 1 .. t : new.elems[i] = list.elems[i]
        /\ new.elems[t + 1] = e
    BY <1>1, <1>3, <1>4, <1>5
  <1>7. 1 .. t + 1 = (1 .. t) \union {t + 1}
    BY <1>1
  <1>8. \A i, j \in 1 .. Len(new.elems) : new.elems[i].key = new.elems[j].key => i = j
    <2>1. \A i, j \in 1 .. t : list.elems[i].key = list.elems[j].key => i = j
      BY <1>2 DEF ListOK
    <2>2. \A i \in 1 .. t : new.elems[i].key # k
      BY <1>2, <1>6
    <2>3. new.elems[t + 1].key = k
      BY <1>6 DEF e
    <2> QED BY <1>6, <1>7, <2>1, <2>2, <2>3
  <1>9. \A i \in 1 .. Len(new.elems) : new.elems[i].val = later[new.elems[i].key]
    BY <1>2, <1>6, <1>7 DEF e
  <1>10. new.tail \in 0 .. Len(new.elems)
    BY <1>1, <1>3, <1>6
  <1>11. ListOK(new, hash(k), later)
    BY <1>6, <1>8, <1>9, <1>10 DEF ListOK, E
  <1> QED BY <1>11 DEF new

\* What is left of a list keeps its order, and no element of the key is in it.
LEMMA DeleteFromList ==
  ASSUME NEW k \in Key, NEW list, NEW binding, NEW later,
         ListOK(list, hash(k), binding), \A j \in Key \ {k} : later[j] = binding[j]
  PROVE  ListOK(list_del(list, k), hash(k), later)
  <1> DEFINE E == Element(hash(k))
             n == Len(list.elems)
             t == list.tail
             at == Position(list, k)
             new == list_del(list, k)
  <1>1. /\ n \in Nat /\ t \in Nat /\ t <= n
        /\ \A i \in 1 .. n : /\ list.elems[i] \in E /\ list.elems[i].key \in Key
                             /\ list.elems[i].val = binding[list.elems[i].key]
    BY ListFacts
  <1>2. CASE at = 0
    <2>1. \A i \in 1 .. n : list.elems[i].key # k
      BY <1>2, PositionOfKey
    <2>2. new = list
      BY <1>2 DEF list_del
    <2>3. \A i \in 1 .. n : list.elems[i].val = later[list.elems[i].key]
      BY <1>1, <2>1
    <2> QED BY <2>2, <2>3 DEF ListOK
  <1>3. CASE at # 0
    <2>1. at \in 1 .. n /\ list.elems[at].key = k
      BY <1>3, PositionOfKey
    <2>2. /\ new.elems = RemoveAt(list.elems, at)
          /\ new.tail = IF at <= t THEN t - 1 ELSE t
      BY <1>3 DEF list_del
    <2>3. list.elems \in Seq(E)
      BY DEF ListOK
    <2> HIDE DEF E, at, new
    <2>4. /\ new.elems \in Seq(E) /\ Len(new.elems) = n - 1
          /\ \A i \in 1 .. n - 1 :
               new.elems[i] = IF i < at THEN list.elems[i] ELSE list.elems[i + 1]
      BY <2>1, <2>2, <2>3, RemoveAtPosition
    <2> DEFINE from(i) == IF i < at THEN i ELSE i + 1
    <2>5. \A i \in 1 .. n - 1 : from(i) \in 1 .. n /\ from(i) # at
      BY <1>1, <2>1
    <2>6. \A i, j \in 1 .. n - 1 : from(i) = from(j) => i = j
      BY <1>1, <2>1
    <2>7. \A i \in 1 .. n - 1 : new.elems[i] = list.elems[from(i)]
      BY <2>4
    <2> HIDE DEF from
    <2>8. \A i, j \in 1 .. n : list.elems[i].key = list.elems[j].key => i = j
      BY DEF ListOK
    <2>9. \A i \in 1 .. n - 1 : list.elems[from(i)].key \in Key \ {k}
      BY <1>1, <2>1, <2>5, <2>8
    <2>10. \A i, j \in 1 .. n - 1 : new.elems[i].key = new.elems[j].key => i = j
      BY <2>5, <2>6, <2>7, <2>8
    <2>11. \A i \in 1 .. n - 1 : new.elems[i].val = later[new.elems[i].key]
      BY <1>1, <2>5, <2>7, <2>9
    <2>12. new.tail \in 0 .. n - 1
      BY <1>1, <2>1, <2>2
    <2>13. ListOK(new, hash(k), later)
      BY <2>4, <2>10, <2>11, <2>12 DEF ListOK, E
    <2> QED BY <2>13 DEF new
  <1> QED BY <1>2, <1>3

LEMMA StepAdd ==
  ASSUME IInv, NEW k \in Key, NEW v \in Val, Add(k, v)
  PROVE  IInv'
  <1> DEFINE list == ht.bins[hash(k)]
  <1>1. CASE hash_table_find(ht, k) # NULL
    <2>1. ht' = ht /\ last' = last
      BY <1>1 DEF Add, hash_table_add
    <2> QED BY <2>1 DEF IInv
  <1>2. CASE hash_table_find(ht, k) = NULL
    <2>1. /\ ListOK(list, hash(k), last)
          /\ \A i \in 1 .. Len(list.elems) : list.elems[i].key # k
      BY <1>2, FindInTable
    <2>2. /\ last' \in [Key -> Val \union {NULL}]
          /\ last'[k] = v /\ \A j \in Key \ {k} : last'[j] = last[j]
      BY <1>2 DEF Add, IInv
    <2>3. ht'.bins = [ht.bins EXCEPT ![hash(k)] = list_add(list, k, v)]
      BY <1>2 DEF Add, hash_table_add, WithBin
    <2>4. ht'.bins[hash(k)] = list_add(list, k, v)
      BY <2>3, HashTableUseAssumption DEF IInv
    <2> HIDE DEF list
    <2>5. ListOK(ht'.bins[hash(k)], hash(k), last')
      BY <2>1, <2>2, <2>4, AddToList
    <2> QED BY <2>2, <2>3, <2>4, <2>5, StepOfOneBin
  <1> QED BY <1>1, <1>2

LEMMA StepDel ==
  ASSUME IInv, NEW k \in Key, Del(k)
  PROVE  IInv'
  <1> DEFINE list == ht.bins[hash(k)]
  <1>1. ListOK(list, hash(k), last)
    BY FindInTable
  <1>2. last' \in [Key -> Val \union {NULL}] /\ \A j \in Key \ {k} : last'[j] = last[j]
    BY DEF Del, IInv
  <1>3. ht'.bins = [ht.bins EXCEPT ![hash(k)] = list_del(list, k)]
    BY DEF Del, hash_table_del, WithBin
  <1>4. ht'.bins[hash(k)] = list_del(list, k)
    BY <1>3, HashTableUseAssumption DEF IInv
  <1> HIDE DEF list
  <1>5. ListOK(ht'.bins[hash(k)], hash(k), last')
    BY <1>1, <1>2, <1>4, DeleteFromList
  <1> QED BY <1>2, <1>3, <1>4, <1>5, StepOfOneBin

-----------------------------------------------------------------------------
(* The counters.                                                           *)

Covers(list) == list.size \in Int /\ list.size >= Len(list.elems)

BinSizes == [b \in Bin |-> ht.bins[b].size]

\* CountersCoverTheBins, with the sizes as the integers they are.
CountInv == (\A b \in Bin : Covers(ht.bins[b])) /\ ht.size = SumFunction(BinSizes)

LEMMA CoversAfterAdd ==
  ASSUME NEW list, NEW b, NEW binding, ListOK(list, b, binding), Covers(list), NEW k, NEW v
  PROVE  Covers(list_add(list, k, v))
  <1> DEFINE t == list.tail
             E == Element(b)
             e == [key |-> k, val |-> v]
             front == SubSeq(list.elems, 1, t)
  <1>1. /\ Len(list.elems) \in Nat /\ t \in Nat /\ t <= Len(list.elems)
        /\ \A i \in 1 .. Len(list.elems) : list.elems[i] \in E
    BY ListFacts
  <1>2. front \in Seq(E) /\ Len(front) = t
    <2>1. 1 \in Int /\ t \in Int /\ \A i \in 1 .. t : list.elems[i] \in E
      BY <1>1
    <2> HIDE DEF E, t
    <2> QED BY <1>1, <2>1, SubSeqProperties DEF t
  <1> HIDE DEF front, E, e, t
  <1>3. Len(Append(front, e)) = t + 1
    <2>1. front \in Seq(E \union {e})
      BY <1>2
    <2> QED BY <1>2, <2>1
  <1>4. list_add(list, k, v).elems = Append(front, e) /\ list_add(list, k, v).size = list.size + 1
    BY DEF list_add, front, e, t
  <1> QED BY <1>1, <1>3, <1>4 DEF Covers

LEMMA CoversAfterDelete ==
  ASSUME NEW list, NEW b, NEW binding, ListOK(list, b, binding), Covers(list), NEW k
  PROVE  Covers(list_del(list, k))
  <1> DEFINE at == Position(list, k)
  <1>1. CASE at = 0
    BY <1>1 DEF list_del
  <1>2. CASE at # 0
    <2>1. at \in 1 .. Len(list.elems) /\ list.elems \in Seq(Element(b))
      BY <1>2, PositionOfKey DEF ListOK
    <2>2. Len(RemoveAt(list.elems, at)) = Len(list.elems) - 1
      BY <2>1, RemoveAtPosition
    <2>3. /\ list_del(list, k).elems = RemoveAt(list.elems, at)
          /\ list_del(list, k).size = list.size - 1
      BY <1>2 DEF list_del
    <2> QED BY <2>1, <2>2, <2>3 DEF Covers
  <1> QED BY <1>1, <1>2

\* A step that changes the counters of one bin and of the table alike.
LEMMA CountOfOneBin ==
  ASSUME IInv, CountInv, NEW b \in Bin, NEW list, Covers(list), ht' = WithBin(ht, b, list)
  PROVE  CountInv'
  <1>1. /\ ht'.bins = [ht.bins EXCEPT ![b] = list]
        /\ ht'.size = ht.size - ht.bins[b].size + list.size
    BY DEF WithBin
  <1>2. ht'.bins[b] = list /\ \A c \in Bin \ {b} : ht'.bins[c] = ht.bins[c]
    BY <1>1 DEF IInv
  <1>3. \A c \in Bin : Covers(ht'.bins[c])
    BY <1>2 DEF CountInv
  <1>4. ht'.size = SumFunction(BinSizes')
    <2> DEFINE f == BinSizes
               g == BinSizes'
    <2>1. /\ f \in [Bin -> Int] /\ g \in [Bin -> Int]
          /\ f[b] = ht.bins[b].size /\ g[b] = list.size
      BY <1>2, <1>3 DEF BinSizes, CountInv, Covers
    <2>2. Without(f, b) = Without(g, b)
      BY <1>2 DEF Without, BinSizes
    <2>3. ht.size = SumFunction(f)
      BY DEF CountInv
    <2> HIDE DEF f, g
    <2>4. SumFunction(g) = SumFunction(f) - f[b] + g[b]
      BY <2>1, <2>2, SumAfterChange, HashTableUseAssumption
    <2>5. SumFunction(g) = ht'.size
      BY <1>1, <2>1, <2>3, <2>4
    <2> QED BY <2>5 DEF g
  <1> QED BY <1>3, <1>4 DEF CountInv

LEMMA InitCountInv == Init => CountInv
  <1> SUFFICES ASSUME Init PROVE CountInv
    OBVIOUS
  <1>1. ht = [bins |-> [b \in Bin |-> list_create], size |-> 0]
    BY DEF Init, hash_table_create
  <1>2. BinSizes \in [Bin -> Int] /\ \A b \in Bin : BinSizes[b] = 0
    BY <1>1 DEF BinSizes, list_create
  <1>3. SumFunction(BinSizes) = 0
    <2> HIDE DEF BinSizes
    <2> QED BY <1>2, SumOfZeros, HashTableUseAssumption
  <1>4. \A b \in Bin : Covers(ht.bins[b])
    BY <1>1 DEF Covers, list_create
  <1> QED BY <1>1, <1>3, <1>4 DEF CountInv

LEMMA StepCounts ==
  ASSUME IInv, CountInv, Next
  PROVE  CountInv'
  <1>1. ASSUME NEW k \in Key PROVE /\ hash(k) \in Bin /\ Covers(ht.bins[hash(k)])
                                  /\ ListOK(ht.bins[hash(k)], hash(k), last)
    BY HashTableUseAssumption DEF IInv, CountInv
  <1>2. ASSUME NEW k \in Key, NEW v \in Val, Add(k, v) PROVE CountInv'
    <2>1. CASE hash_table_find(ht, k) # NULL
      <3>1. ht' = ht
        BY <1>2, <2>1 DEF Add, hash_table_add
      <3> QED BY <3>1 DEF CountInv, BinSizes
    <2>2. CASE hash_table_find(ht, k) = NULL
      <3> DEFINE new == list_add(ht.bins[hash(k)], k, v)
      <3>1. ht' = WithBin(ht, hash(k), new)
        BY <1>2, <2>2 DEF Add, hash_table_add
      <3>2. Covers(new)
        BY <1>1, CoversAfterAdd
      <3> HIDE DEF new
      <3> QED BY <1>1, <3>1, <3>2, CountOfOneBin
    <2> QED BY <2>1, <2>2
  <1>3. ASSUME NEW k \in Key, Del(k) PROVE CountInv'
    <2> DEFINE new == list_del(ht.bins[hash(k)], k)
    <2>1. ht' = WithBin(ht, hash(k), new)
      BY <1>3 DEF Del, hash_table_del
    <2>2. Covers(new)
      BY <1>1, CoversAfterDelete
    <2> HIDE DEF new
    <2> QED BY <1>1, <2>1, <2>2, CountOfOneBin
  <1> QED BY <1>2, <1>3 DEF Next

-----------------------------------------------------------------------------

\* Whatever was dropped before, what a bin still holds is as it was last bound.
THEOREM Invariance == Spec => []IInv
  <1>1. IInv /\ [Next]_vars => IInv'
    <2>1. IInv /\ UNCHANGED vars => IInv'
      BY DEF vars, IInv
    <2> QED BY <2>1, StepAdd, StepDel DEF Next
  <1> QED BY <1>1, InitIInv, PTL DEF Spec

\* A lookup answers NULL or the value of the last insertion, also in a table
\* whose list_add has dropped entries.
THEOREM AnswersCorrect == Spec => []NoStaleAnswer
  <1>1. IInv => NoStaleAnswer
    BY FindInTable DEF NoStaleAnswer
  <1> QED BY <1>1, Invariance, PTL

\* The size of a bin never falls behind its elements, and the size of the table
\* is that of its bins together, also after list_add has dropped entries.
THEOREM CountersCorrect == Spec => []CountersCoverTheBins
  <1>1. IInv /\ CountInv /\ [Next]_vars => CountInv'
    <2>1. CountInv /\ UNCHANGED vars => CountInv'
      BY DEF vars, CountInv, BinSizes
    <2> QED BY <2>1, StepCounts
  <1>2. CountInv => CountersCoverTheBins
    BY DEF CountInv, Covers, BinSizes, CountersCoverTheBins
  <1> QED BY <1>1, <1>2, InitCountInv, Invariance, PTL DEF Spec

-----------------------------------------------------------------------------
(* When an entry is lost.                                                  *)

Holds(list, k) == \E i \in 1 .. Len(list.elems) : list.elems[i].key = k

\* The list that the insertion leaves holds what was up to tail, and the new key.
LEMMA HeldAfterAdd ==
  ASSUME NEW k \in Key, NEW v \in Val, NEW list, NEW binding, ListOK(list, hash(k), binding),
         NEW j
  PROVE  Holds(list_add(list, k, v), j) <=>
           j = k \/ \E i \in 1 .. list.tail : list.elems[i].key = j
  <1> DEFINE E == Element(hash(k))
             e == [key |-> k, val |-> v]
             t == list.tail
             front == SubSeq(list.elems, 1, t)
             new == list_add(list, k, v)
  <1>1. /\ Len(list.elems) \in Nat /\ t \in Nat /\ t <= Len(list.elems)
        /\ \A i \in 1 .. Len(list.elems) : list.elems[i] \in E
    BY ListFacts
  <1>2. e \in E
    BY DEF Element
  <1>3. new.elems = Append(front, e) /\ e.key = k
    BY DEF list_add
  <1>4. front \in Seq(E) /\ Len(front) = t /\ \A i \in 1 .. t : front[i] = list.elems[i]
    <2>1. 1 \in Int /\ t \in Int /\ \A i \in 1 .. t : list.elems[i] \in E
      BY <1>1
    <2> HIDE DEF E, t
    <2>2. /\ SubSeq(list.elems, 1, t) \in Seq(E)
          /\ Len(SubSeq(list.elems, 1, t)) = IF 1 <= t THEN t - 1 + 1 ELSE 0
          /\ \A i \in 1 .. t - 1 + 1 : SubSeq(list.elems, 1, t)[i] = list.elems[1 + i - 1]
      BY <2>1, SubSeqProperties
    <2> QED BY <1>1, <2>2 DEF t
  <1> HIDE DEF E, e, t, front, new
  <1>5. /\ Len(new.elems) = t + 1 /\ new.elems[t + 1] = e
        /\ \A i \in 1 .. t : new.elems[i] = list.elems[i]
    BY <1>1, <1>2, <1>3, <1>4
  <1>6. 1 .. t + 1 = (1 .. t) \union {t + 1}
    BY <1>1
  <1>7. Holds(new, j) <=> j = k \/ \E i \in 1 .. t : list.elems[i].key = j
    BY <1>3, <1>5, <1>6 DEF Holds
  <1> QED BY <1>7 DEF new, t

\* A deletion takes out its key and no other.
LEMMA HeldAfterDelete ==
  ASSUME NEW k \in Key, NEW list, NEW binding, ListOK(list, hash(k), binding), NEW j
  PROVE  Holds(list_del(list, k), j) <=> Holds(list, j) /\ j # k
  <1> DEFINE at == Position(list, k)
             n == Len(list.elems)
             new == list_del(list, k)
  <1>1. n \in Nat /\ list.elems \in Seq(Element(hash(k)))
    BY ListFacts DEF ListOK
  <1>2. CASE at = 0
    <2>1. new = list /\ ~ Holds(list, k)
      BY <1>2, PositionOfKey DEF list_del, Holds
    <2> HIDE DEF new
    <2> QED BY <2>1 DEF new
  <1>3. CASE at # 0
    <2>1. at \in 1 .. n /\ list.elems[at].key = k
      BY <1>3, PositionOfKey
    <2>2. new.elems = RemoveAt(list.elems, at)
      BY <1>3 DEF list_del
    <2>3. \A i \in 1 .. n : list.elems[i].key = k => i = at
      BY <2>1 DEF ListOK
    <2> HIDE DEF at, new
    <2>4. /\ Len(new.elems) = n - 1
          /\ \A i \in 1 .. n - 1 :
               new.elems[i] = IF i < at THEN list.elems[i] ELSE list.elems[i + 1]
      BY <1>1, <2>1, <2>2, RemoveAtPosition
    <2>5. ASSUME NEW i \in 1 .. n - 1
          PROVE  \E h \in 1 .. n : h # at /\ new.elems[i] = list.elems[h]
      <3>1. CASE i < at
        BY <1>1, <2>4, <3>1
      <3>2. CASE ~ (i < at)
        <4>1. i + 1 \in 1 .. n /\ i + 1 # at
          BY <1>1, <2>1, <3>2
        <4> QED BY <2>4, <3>2, <4>1
      <3> QED BY <3>1, <3>2
    <2>6. ASSUME NEW h \in 1 .. n, h # at
          PROVE  \E i \in 1 .. n - 1 : new.elems[i] = list.elems[h]
      <3>1. CASE h < at
        <4>1. h \in 1 .. n - 1
          BY <1>1, <2>1, <3>1
        <4> QED BY <2>4, <3>1, <4>1
      <3>2. CASE ~ (h < at)
        <4>1. h - 1 \in 1 .. n - 1 /\ ~ (h - 1 < at) /\ h - 1 + 1 = h
          BY <1>1, <2>1, <2>6, <3>2
        <4> QED BY <2>4, <4>1
      <3> QED BY <3>1, <3>2
    <2>7. Holds(new, j) <=> \E h \in 1 .. n : h # at /\ list.elems[h].key = j
      <3>1. ASSUME NEW h \in 1 .. n, h # at, list.elems[h].key = j PROVE Holds(new, j)
        BY <2>4, <2>6, <3>1 DEF Holds
      <3>2. ASSUME Holds(new, j) PROVE \E h \in 1 .. n : h # at /\ list.elems[h].key = j
        BY <2>4, <2>5, <3>2 DEF Holds
      <3> QED BY <3>1, <3>2
    <2>8. Holds(new, j) <=> Holds(list, j) /\ j # k
      BY <2>1, <2>3, <2>7 DEF Holds
    <2> QED BY <2>8 DEF new
  <1> QED BY <1>2, <1>3

Complete == \A k \in Key : last[k] # NULL => Holds(ht.bins[hash(k)], k)

\* To find the last value of every key is to hold every key that has one.
LEMMA KeepsIsComplete == ASSUME IInv PROVE KeepsEveryEntry <=> Complete
  <1>1. ASSUME NEW k \in Key
        PROVE  /\ hash_table_find(ht, k) \in {NULL, last[k]}
               /\ hash_table_find(ht, k) # NULL <=> Holds(ht.bins[hash(k)], k)
    <2> DEFINE list == ht.bins[hash(k)]
    <2>1. ListOK(list, hash(k), last) /\ hash_table_find(ht, k) \in {NULL, last[k]}
      BY FindInTable
    <2>2. hash_table_find(ht, k) =
            IF Position(list, k) = 0 THEN NULL ELSE list.elems[Position(list, k)].val
      BY DEF hash_table_find, list_find
    <2> HIDE DEF list
    <2>3. Position(list, k) # 0 =>
            Position(list, k) \in 1 .. Len(list.elems)
              /\ list.elems[Position(list, k)].key = k
              /\ list.elems[Position(list, k)].val \in Val
      BY <2>1, PositionOfKey, ListFacts
    <2>4. hash_table_find(ht, k) # NULL <=> Position(list, k) # 0
      BY <2>2, <2>3, HashTableUseAssumption
    <2>5. Position(list, k) # 0 <=> Holds(list, k)
      BY <2>3, PositionOfKey DEF Holds
    <2> QED BY <2>1, <2>4, <2>5 DEF list
  <1> QED BY <1>1 DEF KeepsEveryEntry, Complete

LEMMA DeletionKeepsTheRest ==
  ASSUME IInv, IInv', Complete, NEW k \in Key, Del(k)
  PROVE  Complete' /\ \A j \in Key : last'[j] # NULL => last[j] # NULL
  <1> DEFINE list == ht.bins[hash(k)]
  <1>1. last'[k] = NULL /\ \A j \in Key \ {k} : last'[j] = last[j]
    BY DEF Del, IInv
  <1>2. ht'.bins = [ht.bins EXCEPT ![hash(k)] = list_del(list, k)]
    BY DEF Del, hash_table_del, WithBin
  <1>3. /\ ht'.bins[hash(k)] = list_del(list, k)
        /\ \A b \in Bin \ {hash(k)} : ht'.bins[b] = ht.bins[b]
    BY <1>2, HashTableUseAssumption DEF IInv
  <1>4. ListOK(list, hash(k), last)
    BY FindInTable
  <1>5. ASSUME NEW j \in Key, last'[j] # NULL
        PROVE  Holds(ht'.bins[hash(j)], j)
    <2>1. j # k /\ Holds(ht.bins[hash(j)], j)
      BY <1>1, <1>5 DEF Complete
    <2>2. CASE hash(j) = hash(k)
      <3> HIDE DEF list
      <3>1. Holds(list, j)
        BY <2>1, <2>2 DEF list
      <3> QED BY <1>3, <1>4, <2>1, <2>2, <3>1, HeldAfterDelete
    <2>3. CASE hash(j) # hash(k)
      BY <1>3, <2>1, <2>3, HashTableUseAssumption
    <2> QED BY <2>2, <2>3
  <1> QED BY <1>1, <1>5 DEF Complete

\* With tail on the last element nothing is lost; else what follows tail is.
LEMMA InsertionKeepsUpToTail ==
  ASSUME IInv, IInv', Complete, NEW k \in Key, NEW v \in Val, Add(k, v),
         hash_table_find(ht, k) = NULL
  PROVE  Complete' <=> ~ TailIsBehind(k)
  <1> DEFINE list == ht.bins[hash(k)]
             t == list.tail
             n == Len(list.elems)
  <1>1. last'[k] = v /\ \A j \in Key \ {k} : last'[j] = last[j]
    BY DEF Add, IInv
  <1>2. ht'.bins = [ht.bins EXCEPT ![hash(k)] = list_add(list, k, v)]
    BY DEF Add, hash_table_add, WithBin
  <1>3. /\ ht'.bins[hash(k)] = list_add(list, k, v)
        /\ \A b \in Bin \ {hash(k)} : ht'.bins[b] = ht.bins[b]
    BY <1>2, HashTableUseAssumption DEF IInv
  <1>4. ListOK(list, hash(k), last) /\ \A i \in 1 .. n : list.elems[i].key # k
    BY FindInTable
  <1>5. TailIsBehind(k) <=> t < n
    BY DEF TailIsBehind
  <1> HIDE DEF list
  <1>6. /\ n \in Nat /\ t \in Nat /\ t <= n
        /\ \A i \in 1 .. n : /\ list.elems[i].key \in Key /\ hash(list.elems[i].key) = hash(k)
                             /\ last[list.elems[i].key] \in Val
    BY <1>4, ListFacts
  <1>7. \A j : Holds(ht'.bins[hash(k)], j) <=> j = k \/ \E i \in 1 .. t : list.elems[i].key = j
    BY <1>3, <1>4, HeldAfterAdd
  <1>8. CASE t = n
    <2>1. ASSUME NEW j \in Key, last'[j] # NULL
          PROVE  Holds(ht'.bins[hash(j)], j)
      <3>1. CASE j = k
        BY <1>7, <3>1
      <3>2. CASE j # k
        <4>1. Holds(ht.bins[hash(j)], j)
          BY <1>1, <2>1, <3>2 DEF Complete
        <4>2. CASE hash(j) = hash(k)
          <5>1. \E i \in 1 .. n : list.elems[i].key = j
            BY <4>1, <4>2 DEF Holds, list
          <5> QED BY <1>7, <1>8, <4>2, <5>1
        <4>3. CASE hash(j) # hash(k)
          BY <1>3, <4>1, <4>3, HashTableUseAssumption
        <4> QED BY <4>2, <4>3
      <3> QED BY <3>1, <3>2
    <2>2. Complete'
      BY <2>1 DEF Complete
    <2> QED BY <1>5, <1>6, <1>8, <2>2
  <1>9. CASE t < n
    <2> DEFINE j == list.elems[t + 1].key
    <2>1. t + 1 \in 1 .. n
      BY <1>6, <1>9
    <2>2. j \in Key /\ hash(j) = hash(k) /\ j # k /\ last'[j] # NULL
      BY <1>1, <1>4, <1>6, <2>1, HashTableUseAssumption
    <2>3. \A i \in 1 .. t : i \in 1 .. n /\ i # t + 1
      BY <1>6, <1>9
    <2>4. \A i \in 1 .. t : list.elems[i].key # j
      BY <1>4, <2>1, <2>3 DEF ListOK
    <2> HIDE DEF j
    <2>5. ~ Holds(ht'.bins[hash(j)], j)
      BY <1>7, <2>2, <2>4
    <2>6. ~ Complete'
      BY <2>2, <2>5 DEF Complete
    <2> QED BY <1>5, <1>9, <2>6
  <1> QED BY <1>6, <1>8, <1>9

Loses == \E k \in Key : last[k] = NULL /\ last'[k] # NULL /\ TailIsBehind(k)

LEMMA StepLoses ==
  ASSUME IInv, IInv', [Next]_vars, KeepsEveryEntry
  PROVE  KeepsEveryEntry' <=> ~ Loses
  <1>1. Complete /\ (KeepsEveryEntry' <=> Complete')
    <2>1. Complete
      BY KeepsIsComplete
    <2>2. KeepsEveryEntry' <=> Complete'
      BY KeepsIsComplete, PTL
    <2> QED BY <2>1, <2>2
  <1>2. CASE UNCHANGED last /\ UNCHANGED ht
    BY <1>1, <1>2 DEF Complete, Loses
  <1>3. ASSUME NEW k \in Key, Del(k) PROVE Complete' /\ ~ Loses
    BY <1>1, <1>3, DeletionKeepsTheRest DEF Loses
  <1>4. ASSUME NEW k \in Key, NEW v \in Val, Add(k, v) PROVE Complete' <=> ~ Loses
    <2>1. CASE hash_table_find(ht, k) # NULL
      <3>1. ht' = ht /\ last' = last
        BY <1>4, <2>1 DEF Add, hash_table_add
      <3> QED BY <1>1, <3>1 DEF Complete, Loses
    <2>2. CASE hash_table_find(ht, k) = NULL
      <3>1. last[k] = NULL /\ last'[k] = v /\ \A j \in Key \ {k} : last'[j] = last[j]
        BY <1>4, <2>2 DEF Add, IInv, KeepsEveryEntry
      <3>2. Loses <=> TailIsBehind(k)
        BY <3>1, HashTableUseAssumption DEF Loses
      <3> QED BY <1>1, <1>4, <2>2, <3>2, InsertionKeepsUpToTail
    <2> QED BY <2>1, <2>2
  <1> QED BY <1>1, <1>2, <1>3, <1>4 DEF Next, vars

\* A table that has every entry loses one exactly by the insertion of a new key
\* into a bin whose tail is not its last element.
THEOREM LossesCorrect == Spec => LosesOnlyBehindTail
  <1>1. IInv /\ IInv' /\ [Next]_vars =>
          [KeepsEveryEntry => (KeepsEveryEntry' <=> ~ Loses)]_vars
    BY StepLoses
  <1> QED BY <1>1, Invariance, PTL DEF Spec, LosesOnlyBehindTail, Loses

\* Without collisions the table keeps every entry: a bin of one element has its
\* tail there.  (With two keys in a bin it does not: when the first is deleted
\* and added again, the second is lost.)
THEOREM KeepsWithoutCollisions ==
  ASSUME \A j, k \in Key : hash(j) = hash(k) => j = k
  PROVE  Spec => []KeepsEveryEntry
  <1>1. ASSUME IInv, NEW k \in Key, hash_table_find(ht, k) = NULL
        PROVE  ~ TailIsBehind(k)
    <2> DEFINE list == ht.bins[hash(k)]
    <2>1. ListOK(list, hash(k), last) /\ \A i \in 1 .. Len(list.elems) : list.elems[i].key # k
      BY <1>1, FindInTable
    <2> HIDE DEF list
    <2>2. Len(list.elems) = 0
      BY <2>1, ListFacts
    <2>3. list.tail = 0
      BY <2>1, <2>2, ListFacts
    <2> QED BY <2>2, <2>3 DEF TailIsBehind, list
  <1>2. IInv /\ IInv' /\ KeepsEveryEntry /\ [Next]_vars => KeepsEveryEntry'
    BY <1>1, StepLoses DEF Loses, KeepsEveryEntry
  <1>3. Init => KeepsEveryEntry
    <2> SUFFICES ASSUME Init PROVE KeepsEveryEntry
      OBVIOUS
    <2>1. IInv /\ \A k \in Key : last[k] = NULL
      BY InitIInv DEF Init
    <2> QED BY <2>1, KeepsIsComplete DEF Complete
  <1> QED BY <1>2, <1>3, Invariance, PTL DEF Spec
=============================================================================
