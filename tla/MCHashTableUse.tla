--------------------------- MODULE MCHashTableUse ---------------------------
(* Three keys share one bin, a fourth has a bin of its own.                 *)
EXTENDS HashTableUse

CONSTANT MaxSize   \* bound: insertions stop when the size counter reaches it

ThreeCollide(k) == IF k = "dave" THEN 1 ELSE 0

BoundedNext == Next /\ ht'.size <= MaxSize

BoundedSpec == Init /\ [][BoundedNext]_vars

=============================================================================
