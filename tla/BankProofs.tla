---------------------------- MODULE BankProofs ----------------------------
(***************************************************************************)
(* Proofs about Bank, for any users, PINs and amounts and any hash function *)
(* under which no three names share a bin.                                 *)
(***************************************************************************)
EXTENDS Bank, SequenceTheorems, TLAPS

\* list_add drops an entry when a third one comes into its bin.
AtMostTwoPerBin ==
    \A u, v, w \in User : hash(u) = hash(v) /\ hash(v) = hash(w) => u = v \/ v = w \/ u = w

-----------------------------------------------------------------------------
(* Lemmas about the list of a bin.                                         *)

Value == [pin : Pin, balance : 0 .. INT_MAX]

Entry(b) == [key : {u \in User : hash(u) = b}, val : Value]

\* A list of the entries of bin b, at most two, each name once; tail stays on
\* the first.
ListOK(list, b) ==
    /\ list \in [elems : Seq(Entry(b)), tail : {0, 1}, size : Int]
    /\ list.tail = IF list.elems = <<>> THEN 0 ELSE 1
    /\ Len(list.elems) <= 2
    /\ \A i, j \in 1 .. Len(list.elems) : list.elems[i].key = list.elems[j].key => i = j

LEMMA PositionOfKey ==
  ASSUME NEW b, NEW list, ListOK(list, b), NEW i \in 1 .. Len(list.elems)
  PROVE  Table!Position(list, list.elems[i].key) = i
  <1> DEFINE I == {j \in 1 .. Len(list.elems) : list.elems[j].key = list.elems[i].key}
  <1>1. I = {i} /\ i \in Int
    BY DEF ListOK
  <1>2. Table!Min(I) = i
    BY <1>1 DEF Table!Min
  <1>3. Table!Position(list, list.elems[i].key) = Table!Min(I)
    BY <1>1 DEF Table!Position, Table!SelectInSeq
  <1> QED BY <1>2, <1>3

LEMMA NoPosition ==
  ASSUME NEW list, NEW u, \A i \in 1 .. Len(list.elems) : list.elems[i].key # u
  PROVE  Table!Position(list, u) = 0
  BY DEF Table!Position, Table!SelectInSeq

\* A name is found exactly if it is in the list, with the value it has there.
LEMMA FindInList ==
  ASSUME NEW b, NEW list, ListOK(list, b), NEW u
  PROVE  \/ /\ Table!Position(list, u) = 0 /\ Table!list_find(list, u) = NULL
            /\ \A i \in 1 .. Len(list.elems) : list.elems[i].key # u
         \/ \E i \in 1 .. Len(list.elems) :
              /\ list.elems[i].key = u /\ Table!Position(list, u) = i
              /\ Table!list_find(list, u) = list.elems[i].val
              /\ list.elems[i].val \in Value /\ list.elems[i].val # NULL
  <1>1. CASE \A i \in 1 .. Len(list.elems) : list.elems[i].key # u
    BY <1>1, NoPosition DEF Table!list_find
  <1>2. ASSUME NEW i \in 1 .. Len(list.elems), list.elems[i].key = u
        PROVE  /\ Table!Position(list, u) = i /\ Table!list_find(list, u) = list.elems[i].val
               /\ list.elems[i].val \in Value /\ list.elems[i].val # NULL
    <2>1. Table!Position(list, u) = i /\ i # 0
      BY <1>2, PositionOfKey
    <2>2. list.elems[i] \in Entry(b)
      BY DEF ListOK
    <2> QED BY <2>1, <2>2, BankAssumption DEF Table!list_find, Entry, Value
  <1> QED BY <1>1, <1>2

\* A new name is linked behind the one that may be there already.
LEMMA AddToList ==
  ASSUME AtMostTwoPerBin, NEW b, NEW list, ListOK(list, b), NEW u \in User, hash(u) = b,
         \A i \in 1 .. Len(list.elems) : list.elems[i].key # u, NEW v \in Value
  PROVE  LET new == Table!list_add(list, u, v)
         IN  /\ ListOK(new, b) /\ new.size = list.size + 1
             /\ Len(list.elems) \in {0, 1}
             /\ new.elems = Append(list.elems, [key |-> u, val |-> v])
  <1> DEFINE e == [key |-> u, val |-> v]
             new == Table!list_add(list, u, v)
  <1>1. e \in Entry(b)
    BY DEF Entry
  <1>2. Len(list.elems) \in {0, 1}
    <2>0. Len(list.elems) \in 0 .. 2
      <3>1. Len(list.elems) \in Nat
        BY DEF ListOK
      <3>2. Len(list.elems) <= 2
        BY DEF ListOK
      <3>3. \A k \in Nat : k <= 2 => k \in 0 .. 2
        OBVIOUS
      <3> QED BY <3>1, <3>2, <3>3, Zenon
    <2> SUFFICES ASSUME Len(list.elems) = 2 PROVE FALSE
      BY <2>0
    <2>1. list.elems[1] \in Entry(b) /\ list.elems[2] \in Entry(b)
      BY DEF ListOK
    <2>2. list.elems[1].key # list.elems[2].key
      BY DEF ListOK
    <2> QED BY <2>1, <2>2 DEF Entry, AtMostTwoPerBin
  <1>3. SubSeq(list.elems, 1, list.tail) = list.elems
    <2>1. list.elems \in Seq(Entry(b)) /\ list.tail = Len(list.elems)
      BY <1>2 DEF ListOK
    <2> QED BY <2>1, SubSeqFull
  <1>4. new = [elems |-> Append(list.elems, e), tail |-> 1, size |-> list.size + 1]
    BY <1>3 DEF Table!list_add, ListOK
  <1>5. ListOK(new, b)
    <2>1. /\ Append(list.elems, e) \in Seq(Entry(b)) /\ Append(list.elems, e) # <<>>
          /\ Len(Append(list.elems, e)) = Len(list.elems) + 1
      BY <1>1 DEF ListOK
    <2>2. \A i \in 1 .. Len(list.elems) + 1 :
            Append(list.elems, e)[i] = IF i = Len(list.elems) + 1 THEN e ELSE list.elems[i]
      BY DEF ListOK
    <2> QED BY <1>2, <1>4, <2>1, <2>2 DEF ListOK
  <1> QED BY <1>2, <1>4, <1>5

\* Taking back the addition leaves the list as it was.
LEMMA DeleteWhatWasAdded ==
  ASSUME AtMostTwoPerBin, NEW b, NEW list, ListOK(list, b), NEW u \in User, hash(u) = b,
         \A i \in 1 .. Len(list.elems) : list.elems[i].key # u, NEW v \in Value
  PROVE  Table!list_del(Table!list_add(list, u, v), u) = list
  <1> DEFINE e == [key |-> u, val |-> v]
             new == Table!list_add(list, u, v)
             n == Len(list.elems)
  <1>1. /\ ListOK(new, b) /\ new.size = list.size + 1 /\ n \in {0, 1}
        /\ new.elems = Append(list.elems, e)
    BY AddToList
  <1>2. list.elems \in Seq(Entry(b)) /\ list.size \in Int /\ e \in Entry(b)
    BY DEF ListOK, Entry
  <1>3. Len(new.elems) = n + 1 /\ new.elems[n + 1] = e
    BY <1>1, <1>2
  <1> HIDE DEF new
  <1>4. Table!Position(new, u) = n + 1
    BY <1>1, <1>3, PositionOfKey
  <1>5. Table!RemoveAt(new.elems, n + 1) = list.elems
    <2>1. \A i \in 1 .. n : new.elems[i] = list.elems[i] /\ list.elems[i] \in Entry(b)
      BY <1>1, <1>2
    <2>2. /\ SubSeq(new.elems, 1, n) \in Seq(Entry(b)) /\ Len(SubSeq(new.elems, 1, n)) = n
          /\ \A i \in 1 .. n : SubSeq(new.elems, 1, n)[i] = new.elems[i]
      <3>1. \A i \in 1 .. n : new.elems[i] \in Entry(b)
        BY <2>1
      <3>2. n \in Int
        BY <1>1
      <3>3. /\ SubSeq(new.elems, 1, n) \in Seq(Entry(b))
            /\ Len(SubSeq(new.elems, 1, n)) = IF 1 <= n THEN n - 1 + 1 ELSE 0
            /\ \A i \in 1 .. n - 1 + 1 : SubSeq(new.elems, 1, n)[i] = new.elems[1 + i - 1]
        BY <3>1, <3>2, SubSeqProperties
      <3> QED BY <1>1, <3>3
    <2>3. SubSeq(new.elems, 1, n) = list.elems
      BY <1>2, <2>1, <2>2, SeqEqual
    <2>4. SubSeq(new.elems, n + 2, n + 1) = <<>>
      BY <1>1, SubSeqEmpty
    <2>5. Table!RemoveAt(new.elems, n + 1)
            = SubSeq(new.elems, 1, n) \o SubSeq(new.elems, n + 2, n + 1)
      <3>1. (n + 1) - 1 = n /\ (n + 1) + 1 = n + 2
        BY <1>1
      <3> QED BY <1>3, <3>1 DEF Table!RemoveAt
    <2> QED BY <1>2, <2>3, <2>4, <2>5, ConcatEmptySeq
  <1>6. new.tail = 1
    BY <1>1, <1>3 DEF ListOK
  <1>7. list.tail = n
    BY <1>1, <1>2 DEF ListOK
  <1>8. Table!list_del(new, u) = [elems |-> list.elems, tail |-> n, size |-> list.size]
    BY <1>1, <1>2, <1>4, <1>5, <1>6 DEF Table!list_del
  <1> QED BY <1>7, <1>8 DEF ListOK, new

Bound(list, u, v) ==
    \E i \in 1 .. Len(list.elems) : list.elems[i].key = u /\ list.elems[i].val = v

LEMMA FindIsBound ==
  ASSUME NEW b, NEW list, ListOK(list, b), NEW u, NEW v
  PROVE  Bound(list, u, v) <=> Table!list_find(list, u) = v /\ v # NULL
  <1>1. CASE Table!list_find(list, u) = NULL /\ \A i \in 1 .. Len(list.elems) : list.elems[i].key # u
    BY <1>1 DEF Bound
  <1>2. ASSUME NEW i \in 1 .. Len(list.elems),
               list.elems[i].key = u, Table!list_find(list, u) = list.elems[i].val,
               list.elems[i].val # NULL
        PROVE  Bound(list, u, v) <=> Table!list_find(list, u) = v /\ v # NULL
    <2>1. \A j \in 1 .. Len(list.elems) : list.elems[j].key = u => j = i
      BY <1>2 DEF ListOK
    <2> QED BY <1>2, <2>1 DEF Bound
  <1> QED BY <1>1, <1>2, FindInList

LEMMA SameBindings ==
  ASSUME NEW b, NEW list, ListOK(list, b), NEW other, ListOK(other, b), NEW u,
         \A v : Bound(list, u, v) <=> Bound(other, u, v)
  PROVE  Table!list_find(list, u) = Table!list_find(other, u)
  <1>1. \A v : Bound(list, u, v) <=> Table!list_find(list, u) = v /\ v # NULL
    BY FindIsBound
  <1>2. \A v : Bound(other, u, v) <=> Table!list_find(other, u) = v /\ v # NULL
    BY FindIsBound
  <1> QED BY <1>1, <1>2

\* What is found after an addition.
LEMMA FindAfterAdd ==
  ASSUME AtMostTwoPerBin, NEW b, NEW list, ListOK(list, b), NEW u \in User, hash(u) = b,
         \A i \in 1 .. Len(list.elems) : list.elems[i].key # u, NEW v \in Value
  PROVE  LET new == Table!list_add(list, u, v)
         IN  /\ Table!list_find(new, u) = v
             /\ \A w : w # u => Table!list_find(new, w) = Table!list_find(list, w)
  <1> DEFINE new == Table!list_add(list, u, v)
             n == Len(list.elems)
             e == [key |-> u, val |-> v]
  <1>1. ListOK(new, b) /\ new.elems = Append(list.elems, e) /\ n \in Nat
    BY AddToList
  <1>2. e \in Entry(b) /\ list.elems \in Seq(Entry(b))
    BY DEF Entry, ListOK
  <1>3. /\ Len(new.elems) = n + 1 /\ new.elems[n + 1] = e
        /\ \A i \in 1 .. n : new.elems[i] = list.elems[i]
    BY <1>1, <1>2
  <1> HIDE DEF new
  <1>4. Table!list_find(new, u) = v
    <2>1. Bound(new, u, v)
      BY <1>1, <1>3 DEF Bound
    <2> QED BY <1>1, <2>1, FindIsBound
  <1>5. ASSUME NEW w, w # u
        PROVE  Table!list_find(new, w) = Table!list_find(list, w)
    <2>1. 1 .. n + 1 = (1 .. n) \union {n + 1}
      BY <1>1
    <2>2. \A x : Bound(new, w, x) <=> Bound(list, w, x)
      BY <1>3, <1>5, <2>1 DEF Bound
    <2> QED BY <1>1, <2>2, SameBindings
  <1> QED BY <1>4, <1>5 DEF new

\* The list with the value of its entry p written through a pointer.
Written(list, p, v) == [list EXCEPT !.elems[p].val = v]

LEMMA WriteInList ==
  ASSUME NEW b, NEW list, ListOK(list, b), NEW p \in 1 .. Len(list.elems), NEW v \in Value
  PROVE  LET new == Written(list, p, v)
             u == list.elems[p].key
         IN  /\ ListOK(new, b)
             /\ Table!list_find(new, u) = v
             /\ \A w : w # u => Table!list_find(new, w) = Table!list_find(list, w)
  <1> DEFINE new == Written(list, p, v)
             u == list.elems[p].key
             n == Len(list.elems)
             e == [list.elems[p] EXCEPT !.val = v]
  <1>1. list.elems \in Seq(Entry(b)) /\ list.elems # <<>> /\ n \in Nat
    BY DEF ListOK
  <1>2. list.elems[p] \in Entry(b)
    BY <1>1
  <1>3. e \in Entry(b) /\ e.key = u /\ e.val = v
    BY <1>2 DEF Entry
  <1>4. new.elems = [list.elems EXCEPT ![p] = e] /\ new.tail = list.tail /\ new.size = list.size
        /\ new \in [elems : {new.elems}, tail : {0, 1}, size : Int]
    BY DEF Written, ListOK
  <1> HIDE DEF new, e
  <1>5. /\ new.elems \in Seq(Entry(b)) /\ Len(new.elems) = n /\ new.elems # <<>>
        /\ \A i \in 1 .. n : new.elems[i] = IF i = p THEN e ELSE list.elems[i]
    BY <1>1, <1>3, <1>4
  <1>6. ListOK(new, b)
    BY <1>1, <1>3, <1>4, <1>5 DEF ListOK
  <1>7. Table!list_find(new, u) = v
    <2>1. Bound(new, u, v)
      BY <1>3, <1>5 DEF Bound
    <2> QED BY <1>6, <2>1, FindIsBound
  <1>8. ASSUME NEW w, w # u
        PROVE  Table!list_find(new, w) = Table!list_find(list, w)
    <2>1. \A x : Bound(new, w, x) <=> Bound(list, w, x)
      BY <1>3, <1>5, <1>8 DEF Bound
    <2> QED BY <1>6, <2>1, SameBindings
  <1> QED BY <1>6, <1>7, <1>8 DEF new

-----------------------------------------------------------------------------
(* Lemmas about the table.                                                 *)

TableOK(ht) ==
    /\ ht = [bins |-> ht.bins, size |-> ht.size] /\ ht.size \in Int
    /\ ht.bins = [b \in Bin |-> ht.bins[b]]
    /\ \A b \in Bin : ListOK(ht.bins[b], b)

LEMMA EmptyTable ==
  /\ TableOK(Table!hash_table_create)
  /\ \A u \in User : Table!hash_table_find(Table!hash_table_create, u) = NULL
  <1>1. \A b : ListOK(Table!list_create, b)
    BY DEF ListOK, Table!list_create
  <1>2. TableOK(Table!hash_table_create)
    BY <1>1 DEF TableOK, Table!hash_table_create
  <1>3. \A u : Table!list_find(Table!list_create, u) = NULL
    <2>1. Len(Table!list_create.elems) = 0
      BY DEF Table!list_create
    <2> QED BY <2>1, NoPosition DEF Table!list_find
  <1> QED BY <1>2, <1>3, BankAssumption DEF Table!hash_table_create, Table!hash_table_find

LEMMA FindInTable ==
  ASSUME NEW ht, TableOK(ht), NEW u \in User
  PROVE  Table!hash_table_find(ht, u) \in Value \union {NULL}
  BY FindInList, BankAssumption DEF TableOK, Table!hash_table_find

\* Exchanging one list for another.
LEMMA ExchangeBin ==
  ASSUME NEW ht, TableOK(ht), NEW b \in Bin, NEW list, ListOK(list, b)
  PROVE  LET new == Table!WithBin(ht, b, list)
         IN  /\ TableOK(new)
             /\ \A u \in User : Table!hash_table_find(new, u) =
                  IF hash(u) = b THEN Table!list_find(list, u) ELSE Table!hash_table_find(ht, u)
  <1> DEFINE new == Table!WithBin(ht, b, list)
  <1>1. ht.bins[b].size \in Int /\ list.size \in Int
    BY DEF TableOK, ListOK
  <1>2. new.size \in Int
    BY <1>1 DEF TableOK, Table!WithBin
  <1>3. new.bins = [c \in Bin |-> IF c = b THEN list ELSE ht.bins[c]]
    BY DEF TableOK, Table!WithBin
  <1>4. new = [bins |-> new.bins, size |-> new.size]
    BY DEF Table!WithBin
  <1> HIDE DEF new
  <1>5. TableOK(new)
    BY <1>2, <1>3, <1>4 DEF TableOK
  <1>6. \A u \in User : Table!hash_table_find(new, u) =
          IF hash(u) = b THEN Table!list_find(list, u) ELSE Table!hash_table_find(ht, u)
    BY <1>3, BankAssumption DEF Table!hash_table_find
  <1> QED BY <1>5, <1>6 DEF new

\* A name that is not found is in its bin under no value.
LEMMA NotInBin ==
  ASSUME NEW ht, TableOK(ht), NEW u \in User, Table!hash_table_find(ht, u) = NULL
  PROVE  /\ hash(u) \in Bin /\ ListOK(ht.bins[hash(u)], hash(u))
         /\ \A i \in 1 .. Len(ht.bins[hash(u)].elems) : ht.bins[hash(u)].elems[i].key # u
  <1>1. hash(u) \in Bin /\ ListOK(ht.bins[hash(u)], hash(u))
    BY BankAssumption DEF TableOK
  <1> QED BY <1>1, FindInList DEF Table!hash_table_find

LEMMA AddToTable ==
  ASSUME AtMostTwoPerBin, NEW ht, TableOK(ht), NEW u \in User, NEW v \in Value,
         Table!hash_table_find(ht, u) = NULL
  PROVE  LET new == Table!hash_table_add(ht, u, v)
         IN  /\ TableOK(new)
             /\ \A w \in User : Table!hash_table_find(new, w) =
                                  IF w = u THEN v ELSE Table!hash_table_find(ht, w)
  <1> DEFINE list == ht.bins[hash(u)]
             longer == Table!list_add(list, u, v)
  <1>1. /\ hash(u) \in Bin /\ ListOK(list, hash(u))
        /\ \A i \in 1 .. Len(list.elems) : list.elems[i].key # u
    BY NotInBin
  <1>2. Table!hash_table_add(ht, u, v) = Table!WithBin(ht, hash(u), longer)
    BY DEF Table!hash_table_add
  <1> HIDE DEF list
  <1>3. ListOK(longer, hash(u))
    BY <1>1, AddToList
  <1>4. /\ Table!list_find(longer, u) = v
        /\ \A w : w # u => Table!list_find(longer, w) = Table!list_find(list, w)
    BY <1>1, FindAfterAdd
  <1> HIDE DEF longer
  <1>5. /\ TableOK(Table!WithBin(ht, hash(u), longer))
        /\ \A w \in User : Table!hash_table_find(Table!WithBin(ht, hash(u), longer), w) =
             IF hash(w) = hash(u) THEN Table!list_find(longer, w) ELSE Table!hash_table_find(ht, w)
    BY <1>1, <1>3, ExchangeBin
  <1>6. \A w \in User : hash(w) = hash(u) => Table!hash_table_find(ht, w) = Table!list_find(list, w)
    BY DEF Table!hash_table_find, list
  <1> QED BY <1>2, <1>4, <1>5, <1>6

\* Adding a name and deleting it again gives back the table, its counters too.
LEMMA DeleteFromTable ==
  ASSUME AtMostTwoPerBin, NEW ht, TableOK(ht), NEW u \in User, NEW v \in Value,
         Table!hash_table_find(ht, u) = NULL
  PROVE  Table!hash_table_del(Table!hash_table_add(ht, u, v), u) = ht
  <1> DEFINE list == ht.bins[hash(u)]
             longer == Table!list_add(list, u, v)
             new == Table!WithBin(ht, hash(u), longer)
  <1>1. /\ hash(u) \in Bin /\ ListOK(list, hash(u))
        /\ \A i \in 1 .. Len(list.elems) : list.elems[i].key # u
    BY NotInBin
  <1>2. Table!hash_table_add(ht, u, v) = new
    BY DEF Table!hash_table_add
  <1> HIDE DEF list
  <1>3. longer.size = list.size + 1 /\ list.size \in Int
    <2>1. longer.size = list.size + 1
      BY DEF Table!list_add
    <2> QED BY <1>1, <2>1 DEF ListOK
  <1>4. Table!list_del(longer, u) = list
    BY <1>1, DeleteWhatWasAdded
  <1> HIDE DEF longer
  <1>5. /\ new.bins = [ht.bins EXCEPT ![hash(u)] = longer]
        /\ new.size = ht.size - list.size + longer.size
    BY DEF Table!WithBin, list
  <1>6. new.bins[hash(u)] = longer
    BY <1>1, <1>5 DEF TableOK
  <1> HIDE DEF new
  <1>7. Table!hash_table_del(new, u) =
          [bins |-> [new.bins EXCEPT ![hash(u)] = list],
           size |-> new.size - longer.size + list.size]
    BY <1>4, <1>6 DEF Table!hash_table_del, Table!WithBin
  <1>8. [new.bins EXCEPT ![hash(u)] = list] = ht.bins
    BY <1>1, <1>5 DEF TableOK, list
  <1>9. new.size - longer.size + list.size = ht.size
    BY <1>3, <1>5 DEF TableOK
  <1> QED BY <1>2, <1>7, <1>8, <1>9 DEF TableOK

LEMMA OverwriteInTable ==
  ASSUME NEW ht, TableOK(ht), NEW u \in User, NEW v \in Value,
         Table!hash_table_find(ht, u) # NULL
  PROVE  LET new == Table!Overwrite(ht, u, v)
         IN  /\ TableOK(new)
             /\ \A w \in User : Table!hash_table_find(new, w) =
                                  IF w = u THEN v ELSE Table!hash_table_find(ht, w)
  <1> DEFINE b == hash(u)
             list == ht.bins[b]
             p == Table!Position(list, u)
             new == Table!WithBin(ht, b, Written(list, p, v))
  <1>1. b \in Bin /\ ListOK(list, b)
    BY BankAssumption DEF TableOK
  <1>2. p \in 1 .. Len(list.elems) /\ list.elems[p].key = u
    BY <1>1, FindInList DEF Table!hash_table_find
  <1>3. Table!Overwrite(ht, u, v) = new
    <2>1. Written(list, p, v).size = list.size /\ list.size \in Int
      BY <1>1 DEF Written, ListOK
    <2>2. ht.size - list.size + Written(list, p, v).size = ht.size
      BY <2>1 DEF TableOK
    <2>3. ht = [bins |-> ht.bins, size |-> ht.size]
      BY DEF TableOK
    <2> QED BY <2>2, <2>3 DEF Table!Overwrite, Table!WithBin, Written
  <1> HIDE DEF list, p
  <1>4. /\ ListOK(Written(list, p, v), b)
        /\ Table!list_find(Written(list, p, v), u) = v
        /\ \A w : w # u => Table!list_find(Written(list, p, v), w) = Table!list_find(list, w)
    BY <1>1, <1>2, WriteInList
  <1>5. /\ TableOK(new)
        /\ \A w \in User : Table!hash_table_find(new, w) =
             IF hash(w) = b THEN Table!list_find(Written(list, p, v), w)
             ELSE Table!hash_table_find(ht, w)
    BY <1>1, <1>4, ExchangeBin
  <1>6. \A w \in User : hash(w) = b => Table!hash_table_find(ht, w) = Table!list_find(list, w)
    BY DEF Table!hash_table_find, list
  <1> HIDE DEF new, b
  <1>7. /\ TableOK(new)
        /\ \A w \in User : Table!hash_table_find(new, w) =
                             IF w = u THEN v ELSE Table!hash_table_find(ht, w)
    BY <1>4, <1>5, <1>6 DEF b
  <1> QED BY <1>3, <1>7

-----------------------------------------------------------------------------
(* The bank: its table holds the book, and every step moves the book as the *)
(* ledger allows.                                                          *)

BankInv ==
    /\ TableOK(accounts)
    /\ sendline \in LocalCommand \union {NULL}
    /\ AccountsHaveTheirCards

\* After this step exactly the account of u is different: it is v.
Writes(u, v) ==
    /\ TableOK(accounts')
    /\ \A w \in User : Account(w)' = IF w = u THEN v ELSE Account(w)

LEMMA AccountIsFound ==
  /\ \A u \in User : Account(u) = Table!hash_table_find(accounts, u)
  /\ \A u \in User : Account(u)' = Table!hash_table_find(accounts', u)
  /\ \A u \in User : u # NULL
  BY CustomersAssumption DEF Account

LEMMA AccountType ==
  ASSUME TableOK(accounts), NEW u \in User
  PROVE  /\ Account(u) \in Value \union {NULL}
         /\ u \in Holders => Account(u) \in Value /\ Account(u).balance \in 0 .. INT_MAX
  BY AccountIsFound, FindInTable DEF Holders, Value

\* The book after a write, in the terms of the ledger.
LEMMA BookAfterWrite ==
  ASSUME NEW u \in User, NEW v \in Value, Writes(u, v)
  PROVE  /\ Holders' = Holders \union {u}
         /\ Book' = [w \in Holders \union {u} |-> IF w = u THEN v ELSE Book[w]]
  <1>1. v # NULL
    BY BankAssumption DEF Value
  <1>2. Holders' = Holders \union {u}
    BY <1>1 DEF Holders, Writes
  <1>3. Book' = [w \in Holders' |-> Account(w)']
    BY DEF Book
  <1>4. \A w \in Holders' : Account(w)' = IF w = u THEN v ELSE Book[w]
    BY <1>2 DEF Writes, Book, Holders
  <1> QED BY <1>2, <1>3, <1>4

\* A balance written for a holder: SetBalance of the ledger.
LEMMA WriteIsSetBalance ==
  ASSUME BankInv, NEW u \in Holders, NEW b \in 0 .. INT_MAX,
         accounts' = WithBalance(u, b), UNCHANGED cards
  PROVE  L!SetBalance(u, b) /\ TableOK(accounts') /\ AccountsHaveTheirCards'
  <1> DEFINE v == [Account(u) EXCEPT !.balance = b]
  <1>1. u \in User /\ Account(u) \in Value /\ Account(u) # NULL
    BY AccountType DEF BankInv, Holders
  <1>2. v \in Value /\ v.pin = Account(u).pin
    BY <1>1 DEF Value
  <1>3. accounts' = Table!Overwrite(accounts, u, v)
    BY DEF WithBalance
  <1> HIDE DEF v
  <1>4. Writes(u, v)
    BY <1>1, <1>2, <1>3, AccountIsFound, OverwriteInTable DEF BankInv, Writes
  <1>5. Holders' = Holders /\ Book' = [w \in Holders |-> IF w = u THEN v ELSE Book[w]]
    BY <1>1, <1>2, <1>4, BookAfterWrite
  <1>6. Book' = [Book EXCEPT ![u].balance = b]
    <2>1. v = [Book[u] EXCEPT !.balance = b]
      BY DEF Book, v
    <2> QED BY <1>5, <2>1 DEF Book
  <1>7. AccountsHaveTheirCards'
    BY <1>1, <1>2, <1>4, <1>5 DEF BankInv, AccountsHaveTheirCards, Writes, Holders
  <1>8. u \in L!Holders /\ b \in L!Balance
    BY DEF L!Holders, L!Balance, Book
  <1> QED BY <1>4, <1>6, <1>7, <1>8 DEF L!SetBalance, Writes

\* The operands of a create-user that is not refused.
LEMMA NewAccountType ==
  ASSUME NEW c \in LocalCommand, c.cmd = "create-user", MayCreate(c)
  PROVE  /\ c.user \in User /\ c.pin \in Pin /\ c.amt \in Amount /\ c.amt \in 0 .. INT_MAX
         /\ Account(c.user) = NULL
  <1>1. c \in [cmd : {"create-user"}, user : User, pin : Pin, amt : Amount]
    BY DEF LocalCommand
  <1>2. c.user \in User /\ c.pin \in Pin /\ c.amt \in Amount
    BY <1>1
  <1>3. c.amt \in Nat /\ INT_MAX \in Nat /\ c.amt <= INT_MAX
    BY <1>2, CustomersAssumption DEF MayCreate
  <1> QED BY <1>2, <1>3 DEF MayCreate

\* The steps of the ledger by which no balance goes down.
OpensOrDeposits ==
    \/ \E u \in User, p \in Pin, b \in Amount : L!Open(u, p, b)
    \/ \E u \in Holders, a \in Amount : L!Deposit(u, a)
    \/ UNCHANGED Book

\* A new account: Open of the ledger, and the card that goes with it.
LEMMA StepCreateUser ==
  ASSUME AtMostTwoPerBin, BankInv, NEW c \in LocalCommand, CreateUser(c)
  PROVE  OpensOrDeposits /\ TableOK(accounts') /\ AccountsHaveTheirCards'
  <1> DEFINE v == [pin |-> c.pin, balance |-> c.amt]
             u == c.user
  <1>1. /\ u \in User /\ c.pin \in Pin /\ c.amt \in Amount /\ c.amt \in 0 .. INT_MAX
        /\ Account(u) = NULL
    BY NewAccountType DEF CreateUser
  <1>2. Account(u) = NULL /\ v \in Value
    BY <1>1 DEF Value
  <1>3. accounts' = Table!hash_table_add(accounts, u, v)
    BY DEF CreateUser, WithNewAccount
  <1> HIDE DEF u
  <1>4. Writes(u, v)
    BY <1>1, <1>2, <1>3, AccountIsFound, AddToTable DEF BankInv, Writes
  <1>5. /\ Holders' = Holders \union {u}
        /\ Book' = [w \in Holders \union {u} |-> IF w = u THEN v ELSE Book[w]]
    BY <1>1, <1>2, <1>4, BookAfterWrite
  <1>6. u \notin L!Holders /\ L!Holders = Holders /\ c.amt \in L!Balance
    BY <1>1, <1>2 DEF L!Holders, L!Balance, Book, Holders
  <1>7. L!Open(u, c.pin, c.amt)
    BY <1>5, <1>6 DEF L!Open
  <1>8. cards' = [w \in DOMAIN cards \union {u} |-> IF w = u THEN c.pin ELSE cards[w]]
    BY DEF CreateUser, u
  <1>9. AccountsHaveTheirCards'
    BY <1>1, <1>4, <1>5, <1>8 DEF BankInv, AccountsHaveTheirCards, Writes, Holders
  <1> QED BY <1>1, <1>4, <1>7, <1>9 DEF OpensOrDeposits, Writes

\* What leaves the table and the cards alone.
LEMMA StepLeavesTable ==
  ASSUME BankInv, UNCHANGED <<accounts, cards>>
  PROVE  UNCHANGED Book /\ TableOK(accounts') /\ AccountsHaveTheirCards'
  BY DEF BankInv, Book, AccountsHaveTheirCards, Holders, Account

\* The commands of the operator.
LEMMA StepLocal ==
  ASSUME AtMostTwoPerBin, BankInv, NEW c \in LocalCommand, bank_process_local_command(c)
  PROVE  OpensOrDeposits /\ TableOK(accounts') /\ AccountsHaveTheirCards'
  <1>1. CASE CreateUser(c)
    BY <1>1, StepCreateUser
  <1>2. CASE CreateUserWithoutCard(c)
    <2>1. c.user \in User /\ c.pin \in Pin /\ c.amt \in 0 .. INT_MAX /\ Account(c.user) = NULL
      BY <1>2, NewAccountType DEF CreateUserWithoutCard
    <2>2. [pin |-> c.pin, balance |-> c.amt] \in Value
      BY <2>1 DEF Value
    <2>3. accounts' = accounts /\ cards' = cards
      BY <1>2, <2>1, <2>2, AccountIsFound, DeleteFromTable
      DEF CreateUserWithoutCard, AfterRollback, WithNewAccount, BankInv
    <2> QED BY <2>3, StepLeavesTable DEF OpensOrDeposits
  <1>3. CASE Deposit(c)
    <2> DEFINE b == Account(c.user).balance + c.amt
    <2>1. c.user \in Holders /\ c.amt \in Amount /\ c.amt \in Nat
      BY <1>3, CustomersAssumption DEF Deposit, MayDeposit, LocalCommand, Holders
    <2>2. b \in 0 .. INT_MAX
      <3>1. Account(c.user).balance \in 0 .. INT_MAX
        BY <2>1, AccountType DEF BankInv, Holders
      <3> QED BY <1>3, <2>1, <3>1, CustomersAssumption DEF Deposit, MayDeposit
    <2>3. accounts' = WithBalance(c.user, b) /\ UNCHANGED cards
      BY <1>3 DEF Deposit
    <2>4. L!SetBalance(c.user, b) /\ TableOK(accounts') /\ AccountsHaveTheirCards'
      BY <2>1, <2>2, <2>3, WriteIsSetBalance
    <2>5. L!Deposit(c.user, c.amt)
      BY <2>1, <2>4 DEF L!Deposit, Book
    <2> QED BY <2>1, <2>4, <2>5 DEF OpensOrDeposits
  <1>4. CASE JustPrint(c)
    BY <1>4, StepLeavesTable DEF JustPrint, OpensOrDeposits
  <1> QED BY <1>1, <1>2, <1>3, <1>4 DEF bank_process_local_command

\* A request as far as the bank looks at it: an amount is any natural number,
\* since what arrives may be cut.
IsRequest(q) ==
    /\ q.cmd \in {"begin-session", "withdraw", "balance", "end-session"}
    /\ q.user \in User \union {NULL}
    /\ q.cmd = "withdraw" => q.amt \in Nat

\* The requests of an ATM, or of anybody who sends to the bank's port: only a
\* withdrawal within the balance has an effect.
LEMMA StepRemote ==
  ASSUME BankInv, NEW q, IsRequest(q), bank_process_remote_command(q)
  PROVE  /\ \/ UNCHANGED <<accounts, Book>>
            \/ /\ q.cmd = "withdraw" /\ q.user \in Holders /\ Debit(q) = q.amt
               /\ L!Withdraw(q.user, q.amt)
         /\ TableOK(accounts') /\ AccountsHaveTheirCards'
  <1>1. CASE Debit(q) = 0
    BY <1>1, StepLeavesTable DEF bank_process_remote_command
  <1>2. CASE Debit(q) # 0
    <2> DEFINE b == Account(q.user).balance - q.amt
    <2>1. q.cmd = "withdraw" /\ Response(q).text = "dispensed" /\ Debit(q) = q.amt
      BY <1>2 DEF Debit
    <2>2. q.user \in User \union {NULL} /\ q.amt \in Nat
      BY <2>1 DEF IsRequest
    <2>3. Account(q.user) # NULL /\ MayWithdraw(q)
      BY <2>1 DEF Response, WithdrawReply, Say, ExpectedBlocks
    <2>4. q.user \in Holders
      BY <2>2, <2>3 DEF Holders, Account
    <2>5. b \in 0 .. INT_MAX /\ q.amt <= Account(q.user).balance
      <3>1. Account(q.user).balance \in 0 .. INT_MAX
        BY <2>4, AccountType DEF BankInv, Holders
      <3> QED BY <2>2, <2>3, <3>1, CustomersAssumption DEF MayWithdraw
    <2>6. accounts' = WithBalance(q.user, b) /\ UNCHANGED cards
      BY <1>2, <2>1 DEF bank_process_remote_command
    <2>7. L!SetBalance(q.user, b) /\ TableOK(accounts') /\ AccountsHaveTheirCards'
      BY <2>4, <2>5, <2>6, WriteIsSetBalance
    <2>8. L!Withdraw(q.user, q.amt)
      BY <2>4, <2>5, <2>7 DEF L!Withdraw, Book
    <2> QED BY <2>1, <2>4, <2>7, <2>8
  <1> QED BY <1>1, <1>2

-----------------------------------------------------------------------------

\* The process starts, and starts again, with an empty book.
LEMMA EmptyBook ==
  ASSUME accounts' = Table!hash_table_create
  PROVE  Holders' = {} /\ TableOK(accounts') /\ L!Restart
  <1>1. Holders' = {} /\ TableOK(accounts')
    BY AccountIsFound, EmptyTable DEF Holders
  <1>2. Book' = [u \in {} |-> Account(u)']
    BY <1>1 DEF Book
  <1>3. Book' = [u \in {} |-> [pin |-> 0, balance |-> 0]]
    BY <1>2
  <1> QED BY <1>1, <1>3 DEF L!Restart

LEMMA BankInitInv == BankInit => BankInv /\ L!Init
  <1> SUFFICES ASSUME BankInit PROVE BankInv /\ L!Init
    OBVIOUS
  <1>1. accounts = Table!hash_table_create /\ sendline = NULL
    BY DEF BankInit
  <1>2. Holders = {} /\ TableOK(accounts)
    BY <1>1, AccountIsFound, EmptyTable DEF Holders
  <1>3. Book = [u \in {} |-> [pin |-> 0, balance |-> 0]]
    BY <1>2 DEF Book
  <1> QED BY <1>1, <1>2, <1>3 DEF BankInv, AccountsHaveTheirCards, L!Init

LEMMA LedgerSteps ==
  /\ OpensOrDeposits => [L!Next]_Book
  /\ \A u \in Holders, a \in Amount : L!Withdraw(u, a) => L!Next
  <1>1. L!Holders = Holders
    BY DEF L!Holders, Book
  <1> QED BY <1>1 DEF OpensOrDeposits, L!Next

LEMMA BankStep ==
  ASSUME AtMostTwoPerBin, BankInv, [BankNext]_bankVars
  PROVE  BankInv' /\ [L!Next]_Book
  <1>1. CASE LocalLine
    <2>1. PICK c \in LocalCommand : bank_process_local_command(c) /\ sendline' = c
      BY <1>1 DEF LocalLine
    <2> QED BY <2>1, StepLocal, LedgerSteps DEF BankInv
  <1>2. CASE ReplayLine
    <2>1. sendline \in LocalCommand /\ bank_process_local_command(sendline) /\ sendline' = sendline
      BY <1>2 DEF ReplayLine, BankInv
    <2> QED BY <2>1, StepLocal, LedgerSteps DEF BankInv
  <1>3. CASE RemoteLine
    <2>1. PICK q \in RemoteRequest : bank_process_remote_command(q)
      BY <1>3 DEF RemoteLine
    <2>2. sendline' = sendline
      BY <2>1 DEF bank_process_remote_command
    <2>3. IsRequest(q) /\ (q.cmd = "withdraw" => q.amt \in Amount)
      BY CustomersAssumption DEF RemoteRequest, IsRequest
    <2> QED BY <2>1, <2>2, <2>3, StepRemote, LedgerSteps DEF BankInv
  <1>4. CASE EndOfInput \/ UNCHANGED bankVars
    <2>1. UNCHANGED <<accounts, cards, sendline>>
      BY <1>4 DEF EndOfInput, bankVars
    <2> QED BY <2>1, StepLeavesTable DEF BankInv
  <1>5. CASE BankRestart
    <2>1. Holders' = {} /\ TableOK(accounts') /\ L!Restart /\ sendline' = NULL
      BY <1>5, EmptyBook DEF BankRestart
    <2> QED BY <2>1 DEF BankInv, AccountsHaveTheirCards, L!Next
  <1> QED BY <1>1, <1>2, <1>3, <1>4, <1>5 DEF BankNext

\* In every reachable state no bin has lost an entry, every balance fits an
\* int and every account has its card.
THEOREM BankInvariance ==
  ASSUME AtMostTwoPerBin
  PROVE  BankSpec => []BankInv
  <1>1. BankInv /\ [BankNext]_bankVars => BankInv'
    BY BankStep
  <1> QED BY <1>1, BankInitInv, PTL DEF BankSpec

\* An account that can be found has a card with its PIN (bank.c creates the
\* account, tries to write the card and deletes the account again).
THEOREM CardsCorrect ==
  ASSUME AtMostTwoPerBin
  PROVE  BankSpec => []AccountsHaveTheirCards
  <1>1. BankInv => AccountsHaveTheirCards
    BY DEF BankInv
  <1> QED BY <1>1, BankInvariance, PTL

\* The bank on top of its hash table keeps the book of Ledger.
THEOREM LedgerRefinement ==
  ASSUME AtMostTwoPerBin
  PROVE  BankSpec => KeepsTheLedger
  <1>1. BankInit => L!Init
    BY BankInitInv
  <1>2. BankInv /\ [BankNext]_bankVars => [L!Next]_Book
    BY BankStep
  <1> QED BY <1>1, <1>2, BankInvariance, PTL DEF BankSpec, KeepsTheLedger, L!Spec

-----------------------------------------------------------------------------
(* Where money comes from.                                                 *)

\* In this step the line c gave u an account, or exactly its amount more.
Gives(c, u) ==
    \/ /\ c.cmd = "create-user" /\ c.user = u /\ u \notin Holders
       /\ Account(u)' = [pin |-> c.pin, balance |-> c.amt]
    \/ /\ c.cmd = "deposit" /\ c.user = u /\ u \in Holders
       /\ Account(u)'.balance = Account(u).balance + c.amt

\* In this step u has an account that was not there, or was smaller.
Gains(u) ==
    /\ u \in Holders'
    /\ u \in Holders => Account(u)'.balance > Account(u).balance

\* A line that is executed without being typed again is the last one typed.
GainsAreFromTheConsole ==
    \A u \in User : Gains(u) =>
        /\ sendline' \in LocalCommand /\ Gives(sendline', u)
        /\ eof => sendline' = sendline

LEMMA BookIsAccounts ==
  /\ \A u \in Holders : Book[u] = Account(u)
  /\ \A u \in Holders' : Book'[u] = Account(u)'
  /\ DOMAIN Book = Holders /\ DOMAIN Book' = Holders'
  BY DEF Book

LEMMA NobodyGains ==
  ASSUME BankInv, UNCHANGED accounts, NEW u \in User
  PROVE  ~ Gains(u)
  <1>1. Holders' = Holders /\ Account(u)' = Account(u)
    BY DEF Holders, Account
  <1>2. u \in Holders => Account(u).balance \in Int
    BY AccountType DEF BankInv
  <1> QED BY <1>1, <1>2 DEF Gains

\* Whoever gains in a command of the operator gains what the command says.
LEMMA LocalGains ==
  ASSUME AtMostTwoPerBin, BankInv, NEW c \in LocalCommand, bank_process_local_command(c),
         NEW u \in User, Gains(u)
  PROVE  Gives(c, u)
  <1>1. CASE CreateUser(c)
    <2> DEFINE v == [pin |-> c.pin, balance |-> c.amt]
    <2>1. c.user \in User /\ v \in Value /\ Account(c.user) = NULL
      BY <1>1, NewAccountType DEF CreateUser, Value
    <2>2. accounts' = Table!hash_table_add(accounts, c.user, v)
      BY <1>1 DEF CreateUser, WithNewAccount
    <2> HIDE DEF v
    <2>3. Account(u)' = IF u = c.user THEN v ELSE Account(u)
      BY <2>1, <2>2, AccountIsFound, AddToTable DEF BankInv
    <2>4. u = c.user
      <3>1. SUFFICES ASSUME u # c.user PROVE FALSE
        OBVIOUS
      <3>2. Account(u)' = Account(u)
        BY <2>3, <3>1
      <3>3. u \in Holders /\ Account(u).balance \in Int
        BY <3>2, AccountType DEF Gains, Holders, BankInv
      <3> QED BY <3>2, <3>3 DEF Gains
    <2>5. u \notin Holders
      BY <2>1, <2>4 DEF Holders
    <2> QED BY <1>1, <2>3, <2>4, <2>5 DEF Gives, CreateUser, v
  <1>2. CASE Deposit(c)
    <2> DEFINE b == Account(c.user).balance + c.amt
               v == [Account(c.user) EXCEPT !.balance = b]
    <2>1. c.user \in Holders /\ c.user \in User /\ c.amt \in Nat /\ Account(c.user) \in Value
      BY <1>2, CustomersAssumption, AccountType
      DEF Deposit, MayDeposit, LocalCommand, Holders, BankInv
    <2>2. b \in 0 .. INT_MAX
      BY <1>2, <2>1, CustomersAssumption DEF Deposit, MayDeposit, Value
    <2>3. v \in Value /\ v.balance = b
      BY <2>1, <2>2 DEF Value
    <2>4. accounts' = Table!Overwrite(accounts, c.user, v) /\ Account(c.user) # NULL
      BY <1>2, <2>1 DEF Deposit, WithBalance, Holders
    <2> HIDE DEF v, b
    <2>5. Account(u)' = IF u = c.user THEN v ELSE Account(u)
      BY <2>1, <2>3, <2>4, AccountIsFound, OverwriteInTable DEF BankInv
    <2>6. u = c.user
      <3>1. SUFFICES ASSUME u # c.user PROVE FALSE
        OBVIOUS
      <3>2. Account(u)' = Account(u)
        BY <2>5, <3>1
      <3>3. u \in Holders /\ Account(u).balance \in Int
        BY <3>2, AccountType DEF Gains, Holders, BankInv
      <3> QED BY <3>2, <3>3 DEF Gains
    <2> QED BY <1>2, <2>1, <2>3, <2>5, <2>6 DEF Gives, Deposit, b
  <1>3. CASE CreateUserWithoutCard(c) \/ JustPrint(c)
    <2>1. accounts' = accounts
      <3>1. CASE CreateUserWithoutCard(c)
        <4>1. c.user \in User /\ [pin |-> c.pin, balance |-> c.amt] \in Value
              /\ Account(c.user) = NULL
          BY <3>1, NewAccountType DEF CreateUserWithoutCard, Value
        <4> QED BY <3>1, <4>1, AccountIsFound, DeleteFromTable
                DEF CreateUserWithoutCard, AfterRollback, WithNewAccount, BankInv
      <3> QED BY <1>3, <3>1 DEF JustPrint
    <2>2. ~ Gains(u)
      BY <2>1, NobodyGains
    <2> QED BY <2>2
  <1> QED BY <1>1, <1>2, <1>3 DEF bank_process_local_command

\* A request can only take away.
LEMMA RemoteGains ==
  ASSUME BankInv, NEW q, IsRequest(q), bank_process_remote_command(q), NEW u \in User
  PROVE  ~ Gains(u)
  <1>1. CASE UNCHANGED accounts
    BY <1>1, NobodyGains
  <1>2. ASSUME q.user \in Holders, q.cmd = "withdraw", L!Withdraw(q.user, q.amt)
        PROVE  ~ Gains(u)
    <2> DEFINE v == q.user
    <2>1. Book' = [Book EXCEPT ![v].balance = Book[v].balance - q.amt] /\ q.amt \in Nat
      BY <1>2 DEF L!Withdraw, L!SetBalance, IsRequest
    <2>2. Holders' = Holders
      BY <2>1, BookIsAccounts
    <2>3. ASSUME u \in Holders
          PROVE  Account(u)'.balance \in Int /\ Account(u)'.balance <= Account(u).balance
      <3>1. Account(u) \in Value /\ Book[u] = Account(u) /\ Book'[u] = Account(u)'
        BY <2>2, <2>3, AccountType, BookIsAccounts DEF BankInv, Holders
      <3> HIDE DEF Account, Book, Holders
      <3>2. Book'[u].balance = IF u = v THEN Book[u].balance - q.amt ELSE Book[u].balance
        BY <2>1, <2>3, <3>1, BookIsAccounts DEF Value
      <3>3. Book[u].balance \in Int
        BY <3>1, CustomersAssumption DEF Value
      <3> QED BY <2>1, <3>1, <3>2, <3>3
    <2>4. u \in Holders => Account(u).balance \in Int
      BY AccountType DEF BankInv
    <2> QED BY <2>2, <2>3, <2>4 DEF Gains
  <1> QED BY <1>1, <1>2, StepRemote

\* A line that is typed, or run again.
LEMMA ConsoleGains ==
  ASSUME AtMostTwoPerBin, BankInv, LocalLine \/ ReplayLine
  PROVE  GainsAreFromTheConsole
  <1> SUFFICES ASSUME NEW u \in User, Gains(u)
               PROVE  /\ sendline' \in LocalCommand /\ Gives(sendline', u)
                      /\ eof => sendline' = sendline
    BY DEF GainsAreFromTheConsole
  <1>1. CASE LocalLine
    <2>1. PICK c \in LocalCommand : bank_process_local_command(c) /\ sendline' = c
      BY <1>1 DEF LocalLine
    <2> QED BY <1>1, <2>1, LocalGains DEF LocalLine
  <1>2. CASE ReplayLine
    <2>1. /\ sendline \in LocalCommand /\ sendline # NULL
          /\ bank_process_local_command(sendline) /\ sendline' = sendline
      BY <1>2 DEF ReplayLine, BankInv
    <2> QED BY <2>1, LocalGains
  <1> QED BY <1>1, <1>2

\* Every step of the bank.
LEMMA StepGains ==
  ASSUME AtMostTwoPerBin, BankInv, [BankNext]_bankVars
  PROVE  GainsAreFromTheConsole
  <1> SUFFICES ASSUME NEW u \in User, Gains(u)
               PROVE  /\ sendline' \in LocalCommand /\ Gives(sendline', u)
                      /\ eof => sendline' = sendline
    BY DEF GainsAreFromTheConsole
  <1>1. CASE LocalLine \/ ReplayLine
    BY <1>1, ConsoleGains DEF GainsAreFromTheConsole
  <1>2. CASE RemoteLine
    <2>1. PICK q \in RemoteRequest : bank_process_remote_command(q)
      BY <1>2 DEF RemoteLine
    <2>2. IsRequest(q)
      BY CustomersAssumption DEF RemoteRequest, IsRequest
    <2> QED BY <2>1, <2>2, RemoteGains
  <1>3. CASE EndOfInput \/ UNCHANGED bankVars
    BY <1>3, NobodyGains DEF EndOfInput, bankVars
  <1>4. CASE BankRestart
    <2>1. Holders' = {}
      BY <1>4, EmptyBook DEF BankRestart
    <2> QED BY <2>1 DEF Gains
  <1> QED BY <1>1, <1>2, <1>3, <1>4 DEF BankNext

\* Nobody gains but by the line the bank executes, exactly what that line says,
\* and at the end of the input the line is the last one that was typed: what is
\* credited again and again there (the run bank_eof) is that line's amount.
THEOREM CreditsCorrect ==
  ASSUME AtMostTwoPerBin
  PROVE  BankSpec => [][GainsAreFromTheConsole]_bankVars
  <1>1. BankInv /\ [BankNext]_bankVars => [GainsAreFromTheConsole]_bankVars
    BY StepGains
  <1> QED BY <1>1, BankInvariance, PTL DEF BankSpec

=============================================================================
