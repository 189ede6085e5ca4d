----------------------------- MODULE HashTable -----------------------------
(* The chained hash table of util/hash_table.c over the linked list of      *)
(* util/list.c, as operators on values.  A list is the sequence of elements *)
(* reachable from head, the position of the element that tail points to (0  *)
(* when tail is NULL) and the size counter.                                 *)
EXTENDS Naturals, Sequences, SequencesExt

CONSTANTS Bin,      \* indices of the bins, 0 .. num_bins - 1
          hash(_),  \* the bin of a key: hash(key, strlen(key)) % num_bins
          NULL

list_create == [elems |-> <<>>, tail |-> 0, size |-> 0]

\* Where the walk from head meets key; 0 when it meets none.
Position(list, key) == SelectInSeq(list.elems, LAMBDA elem : elem.key = key)

list_find(list, key) ==
    LET at == Position(list, key)
    IN  IF at = 0 THEN NULL ELSE list.elems[at].val

\* The new element is linked after tail, whatever followed tail until then,
\* and tail itself is set only when it was NULL.
list_add(list, key, val) ==
    [elems |-> Append(SubSeq(list.elems, 1, list.tail), [key |-> key, val |-> val]),
     tail  |-> IF list.tail = 0 THEN 1 ELSE list.tail,
     size  |-> list.size + 1]

\* A mutant: the counter is decremented although no element was found.
list_delCountingMisses(list, key) ==
    LET at == Position(list, key)
    IN  [elems |-> IF at = 0 THEN list.elems ELSE RemoveAt(list.elems, at),
         tail  |-> IF at \in 1 .. list.tail THEN list.tail - 1 ELSE list.tail,
         size  |-> list.size - 1]

\* Removing the element of tail moves tail to its predecessor; removing an
\* earlier one leaves tail on an element that is now one place nearer to head.
list_del(list, key) ==
    LET at == Position(list, key)
    IN  IF at = 0
        THEN list
        ELSE [elems |-> RemoveAt(list.elems, at),
              tail  |-> IF at <= list.tail THEN list.tail - 1 ELSE list.tail,
              size  |-> list.size - 1]

----------------------------------------------------------------------------

hash_table_create == [bins |-> [b \in Bin |-> list_create], size |-> 0]

\* The table after one bin changed, its size counter corrected by that bin's.
WithBin(ht, b, list) ==
    [bins |-> [ht.bins EXCEPT ![b] = list],
     size |-> ht.size - ht.bins[b].size + list.size]

hash_table_find(ht, key) == list_find(ht.bins[hash(key)], key)

\* A mutant: the list's permission of duplicates reaches the table.
hash_table_addAlways(ht, key, val) ==
    WithBin(ht, hash(key), list_add(ht.bins[hash(key)], key, val))

\* Duplicates are not permitted: a key that is found is left alone.
hash_table_add(ht, key, val) ==
    IF hash_table_find(ht, key) # NULL
    THEN ht
    ELSE WithBin(ht, hash(key), list_add(ht.bins[hash(key)], key, val))

hash_table_del(ht, key) ==
    WithBin(ht, hash(key), list_del(ht.bins[hash(key)], key))

\* A caller's write through the pointer that find returned.
Overwrite(ht, key, val) ==
    LET b == hash(key)
    IN  [ht EXCEPT !.bins[b].elems[Position(ht.bins[b], key)].val = val]

=============================================================================
