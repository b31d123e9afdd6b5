----------------------------- MODULE HashTable -----------------------------
(* The hash tables of the engine (struct table) and their enumerators, which *)
(* the pl_current_...() predicates keep while other goals and other threads  *)
(* add and delete symbols.  Every operation here runs under L_TABLE and is   *)
(* one action.                                                               *)
(*                                                                           *)
(* The chain of bucket b is the set of symbols linked there, the highest     *)
(* rank first: a symbol is pushed in front of its chain.                     *)
EXTENDS Integers, FiniteSets

CONSTANTS
    Names,          \* names that symbols may have
    Enums,          \* enumerators that may be in use
    HashOf,         \* hash value of each name, before it is cut to the table
    Buckets,        \* buckets the table is created with
    NULL            \* no symbol

ASSUME HashTableAssumption ==
    /\ IsFiniteSet(Names)
    /\ NULL \notin Names
    /\ HashOf \in [Names -> Nat]
    /\ Buckets \in Nat \ {0}

VARIABLES
    table,          \* symbols that are linked in a chain
    bucket,         \* the bucket a symbol is linked in
    rank,           \* order of the symbols of a chain
    buckets, size,  \* fields of the table
    enumerators,    \* enumerators on the list of the table
    key, current,   \* fields of each enumerator
    got             \* per enumerator: what advanceTableEnum() returned last

symbols == <<table, bucket, rank, buckets, size>>
cursors == <<enumerators, key, current, got>>
vars    == <<symbols, cursors>>

-----------------------------------------------------------------------------
pointerHashValue(n, b) == HashOf[n] % b

(* lookupHTable() searches one chain. *)
lookupHTable(n) == n \in table /\ bucket[n] = pointerHashValue(n, buckets)

(* The order in which chains, and the symbols of a chain, are enumerated. *)
Before(n, m) ==
    \/ bucket[n] < bucket[m]
    \/ bucket[n] = bucket[m] /\ rank[n] > rank[m]

(* What is left of the chain after n, and the chains after bucket k. *)
Behind(n, k) ==
    {m \in table : (bucket[m] = bucket[n] /\ rank[m] < rank[n]) \/ bucket[m] > k}

FirstOf(S) == CHOOSE n \in S : \A m \in S \ {n} : Before(n, m)

(* Mutant: the end of the table is marked by bucket -1. *)
ChainEndsBelow(S) == IF S = {} THEN -1 ELSE bucket[FirstOf(S)]

(* The first symbol of S and its bucket, or the end of the table. *)
Symbol(S) == IF S = {} THEN NULL ELSE FirstOf(S)
Chain(S)  == IF S = {} THEN buckets ELSE bucket[FirstOf(S)]

Top == IF table = {} THEN 0
       ELSE 1 + rank[CHOOSE n \in table : \A m \in table : rank[m] <= rank[n]]

-----------------------------------------------------------------------------
Init ==
    /\ table = {}
    /\ bucket = [n \in Names |-> 0]
    /\ rank = [n \in Names |-> 0]
    /\ buckets = Buckets
    /\ size = 0
    /\ enumerators = {}
    /\ key = [e \in Enums |-> 0]
    /\ current = [e \in Enums |-> NULL]
    /\ got = [e \in Enums |-> NULL]

(* Mutant: a table that is full is rehashed for the old number of buckets. *)
RehashShort(n) ==
    LET linked == table \cup {n}
        full   == buckets * 2 < size + 1 /\ enumerators = {}
    IN /\ ~lookupHTable(n)
       /\ table' = linked
       /\ size' = size + 1
       /\ bucket' = [bucket EXCEPT ![n] = pointerHashValue(n, buckets)]
       /\ rank' = [rank EXCEPT ![n] = Top]
       /\ buckets' = IF full THEN buckets * 2 ELSE buckets
       /\ UNCHANGED cursors

(* Mutant: a table that is full is rehashed also when it is enumerated. *)
RehashAnyway(n) ==
    LET linked == table \cup {n}
        full   == buckets * 2 < size + 1
        pushed == [rank EXCEPT ![n] = Top]
    IN /\ ~lookupHTable(n)
       /\ table' = linked
       /\ size' = size + 1
       /\ buckets' = IF full THEN buckets * 2 ELSE buckets
       /\ bucket' = [m \in Names |-> IF m = n \/ (full /\ m \in linked)
                                     THEN pointerHashValue(m, buckets')
                                     ELSE bucket[m]]
       /\ rank' = [m \in Names |-> IF full THEN - pushed[m] ELSE pushed[m]]
       /\ UNCHANGED cursors

(* Add a symbol that is not found, and rehash a table that is full unless it *)
(* is being enumerated.  Rehashing pushes the symbols of every old chain one *)
(* by one in front of their new chains, which reverses their order.          *)
addHTable(n) ==
    LET linked == table \cup {n}
        full   == buckets * 2 < size + 1 /\ enumerators = {}
        pushed == [rank EXCEPT ![n] = Top]
    IN /\ ~lookupHTable(n)
       /\ table' = linked
       /\ size' = size + 1
       /\ IF full
          THEN /\ buckets' = buckets * 2
               /\ bucket' = [m \in Names |->
                               IF m \in linked THEN pointerHashValue(m, buckets * 2)
                               ELSE bucket[m]]
               /\ rank' = [m \in Names |-> - pushed[m]]
          ELSE /\ bucket' = [bucket EXCEPT ![n] = pointerHashValue(n, buckets)]
               /\ rank' = pushed
               /\ UNCHANGED buckets
       /\ UNCHANGED cursors

(* Mutant: the enumerators of the table stay where they are. *)
DeleteUnseen(n) ==
    /\ lookupHTable(n)
    /\ table' = table \ {n}
    /\ size' = size - 1
    /\ UNCHANGED <<bucket, rank, buckets, cursors>>

(* Every enumerator that is at the symbol goes on to the next one first. *)
deleteSymbolHTable(n) ==
    LET at == {e \in enumerators : current[e] = n}
    IN /\ lookupHTable(n)
       /\ table' = table \ {n}
       /\ size' = size - 1
       /\ current' = [e \in Enums |-> IF e \in at THEN Symbol(Behind(n, key[e]))
                                      ELSE current[e]]
       /\ key' = [e \in Enums |-> IF e \in at THEN Chain(Behind(n, key[e]))
                                  ELSE key[e]]
       /\ UNCHANGED <<bucket, rank, buckets, enumerators, got>>

clearHTable ==
    /\ table' = {}
    /\ size' = 0
    /\ current' = [e \in Enums |-> IF e \in enumerators THEN NULL ELSE current[e]]
    /\ key' = [e \in Enums |-> IF e \in enumerators THEN buckets ELSE key[e]]
    /\ UNCHANGED <<bucket, rank, buckets, enumerators, got>>

newTableEnum(e) ==
    /\ e \notin enumerators
    /\ enumerators' = enumerators \cup {e}
    /\ current' = [current EXCEPT ![e] = Symbol(table)]
    /\ key' = [key EXCEPT ![e] = Chain(table)]
    /\ got' = [got EXCEPT ![e] = NULL]
    /\ UNCHANGED symbols

(* The enumerator stands at the symbol that it returns next. *)
advanceTableEnum(e) ==
    LET s    == current[e]
        left == Behind(s, key[e])
    IN /\ e \in enumerators
       /\ got' = [got EXCEPT ![e] = s]
       /\ IF s = NULL
          THEN UNCHANGED <<current, key>>
          ELSE /\ current' = [current EXCEPT ![e] = Symbol(left)]
               /\ key' = [key EXCEPT ![e] = Chain(left)]
       /\ UNCHANGED <<symbols, enumerators>>

freeTableEnum(e) ==
    /\ e \in enumerators
    /\ enumerators' = enumerators \ {e}
    /\ current' = [current EXCEPT ![e] = NULL]
    /\ key' = [key EXCEPT ![e] = 0]
    /\ got' = [got EXCEPT ![e] = NULL]
    /\ UNCHANGED symbols

-----------------------------------------------------------------------------
Next ==
    \/ \E n \in Names : addHTable(n) \/ deleteSymbolHTable(n)
    \/ clearHTable
    \/ \E e \in Enums :
          newTableEnum(e) \/ advanceTableEnum(e) \/ freeTableEnum(e)

Spec == Init /\ [][Next]_vars

-----------------------------------------------------------------------------
(* Properties *)

TypeOK ==
    /\ table \in SUBSET Names
    /\ bucket \in [Names -> Nat]
    /\ rank \in [Names -> Int]
    /\ buckets \in Nat \ {0}
    /\ size \in Int
    /\ enumerators \in SUBSET Enums
    /\ key \in [Enums -> Nat]
    /\ current \in [Enums -> Names \cup {NULL}]
    /\ got \in [Enums -> Names \cup {NULL}]

(* What checkHTable() asserts: every symbol is found by its name, also after *)
(* rehashing, and size is their number. *)
checkHTable ==
    /\ \A n \in table : lookupHTable(n)
    /\ size = Cardinality(table)

(* An enumerator stands at a symbol of the table, never at one that was      *)
(* freed, and key is the bucket of that symbol although deletions of others  *)
(* move it. *)
EnumeratorsStand ==
    \A e \in enumerators :
        /\ current[e] \in table \cup {NULL}
        /\ key[e] = IF current[e] = NULL THEN buckets ELSE bucket[current[e]]

(* Symbols the enumerator is still to return. *)
ahead(e) ==
    IF e \notin enumerators \/ current[e] = NULL THEN {}
    ELSE {current[e]} \cup Behind(current[e], key[e])

Enumeration == INSTANCE SymbolTable WITH
                 open <- enumerators,
                 todo <- [e \in Enums |-> ahead(e)]

(* Enumerating a table is safe whatever is added and deleted meanwhile: each *)
(* symbol that stays is returned, and once (pl-table.c, "makes the           *)
(* enumeration of hash-tables safe"). *)
EnumerationSafe == Enumeration!Spec

=============================================================================
