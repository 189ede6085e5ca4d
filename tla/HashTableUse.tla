---------------------------- MODULE HashTableUse ----------------------------
(* Any sequence of insertions and deletions on one table of                 *)
(* util/hash_table.c, beside the mapping that its header promises.          *)
EXTENDS HashTable

CONSTANTS Key, Val

ASSUME HashTableUseAssumption ==
    IsFiniteSet(Bin) /\ (\A k \in Key : hash(k) \in Bin) /\ NULL \notin Val

VARIABLES ht,    \* the table
          last   \* history: the value each key was last bound to, NULL once deleted

vars == <<ht, last>>

Init == ht = hash_table_create /\ last = [k \in Key |-> NULL]

Add(k, v) ==
    /\ ht' = hash_table_add(ht, k, v)
    /\ last' = IF hash_table_find(ht, k) = NULL THEN [last EXCEPT ![k] = v] ELSE last

Del(k) ==
    /\ ht' = hash_table_del(ht, k)
    /\ last' = [last EXCEPT ![k] = NULL]

Next == \E k \in Key : Del(k) \/ \E v \in Val : Add(k, v)

Spec == Init /\ [][Next]_vars

----------------------------------------------------------------------------

\* A lookup never answers with a value from before the key's last deletion or
\* re-insertion, whatever the bins went through (hash_table_add, list_del).
NoStaleAnswer == \A k \in Key : hash_table_find(ht, k) \in {NULL, last[k]}

\* The counters never fall behind what a walk of the bins would find, so that
\* the unsigned subtraction in hash_table_add and hash_table_del cannot wrap.
CountersCoverTheBins ==
    /\ \A b \in Bin : ht.bins[b].size >= Len(ht.bins[b].elems)
    /\ ht.size = SumFunction([b \in Bin |-> ht.bins[b].size])

\* hash_table.h: the table "maps a char* key to a void* data": a key that was
\* added and not deleted is found.
KeepsEveryEntry == \A k \in Key : hash_table_find(ht, k) = last[k]

\* A bin in which tail has fallen behind the last element: two keys in it, or
\* the deletion of the element of tail, are enough.
TailIsBehind(k) == LET list == ht.bins[hash(k)] IN list.tail < Len(list.elems)

\* Exactly when the table breaks that promise: a table that has every entry
\* loses one by the insertion of a new key into a bin whose tail is behind
\* (list_add links the element after tail), and by nothing else: no other
\* insertion, no deletion, no change of another bin.
LosesOnlyBehindTail ==
    [][KeepsEveryEntry =>
         (KeepsEveryEntry' <=>
            ~ \E k \in Key : last[k] = NULL /\ last'[k] # NULL /\ TailIsBehind(k))]_vars

=============================================================================
