---------------------------- MODULE MCHashTable ----------------------------
(* A small instance of HashTable for TLC: the fifth symbol rehashes it. *)
EXTENDS HashTable, TLC

CONSTANTS n1, n2, n3, n4, n5, e1, e2

mcNames  == {n1, n2, n3, n4, n5}
mcEnums  == {e1, e2}
mcHashOf == n1 :> 0 @@ n2 :> 2 @@ n3 :> 4 @@ n4 :> 1 @@ n5 :> 3

(* Of the ranks only the order in a chain matters, and of a symbol that is   *)
(* not linked nothing. *)
mcView ==
    LET place(n) == Cardinality({m \in table : bucket[m] = bucket[n] /\ rank[m] > rank[n]})
    IN <<table, [n \in table |-> <<bucket[n], place(n)>>], buckets, size,
         cursors>>

Symmetric == Permutations(mcEnums)

=============================================================================
