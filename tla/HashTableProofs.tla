-------------------------- MODULE HashTableProofs --------------------------
(* Theorems about HashTable for every value of its constants.               *)
EXTENDS HashTable, FiniteSetTheorems, WellFoundedInduction, TLAPS

(* No two linked symbols have the same rank. *)
Ranked == \A m, n \in table : m # n => rank[m] # rank[n]

Inv == TypeOK /\ checkHTable /\ Ranked /\ EnumeratorsStand

(* A non-empty set of names has one with the least number. *)
LEMMA LeastExists ==
    ASSUME NEW p \in [Names -> Int], NEW S \in SUBSET Names, S # {}
    PROVE  \E e \in S : \A d \in S : p[e] <= p[d]
  <1> DEFINE UpTo(c) == {d \in S : p[d] <= p[c]}
             T == {UpTo(c) : c \in S}
  <1>1. IsFiniteSet(S)
    BY HashTableAssumption, FS_Subset
  <1>2. T \subseteq FiniteSubsetsOf(S)
    <2>1. SUFFICES ASSUME NEW c \in S PROVE UpTo(c) \in FiniteSubsetsOf(S)
      OBVIOUS
    <2>2. UpTo(c) \in SUBSET S
      OBVIOUS
    <2>3. IsFiniteSet(UpTo(c))
      BY <1>1, <2>2, FS_Subset
    <2> QED  BY <2>2, <2>3 DEF FiniteSubsetsOf
  <1>3. T # {}
    OBVIOUS
  <1>4. PICK t \in T : \A u \in T : ~(<<u, t>> \in StrictSubsetOrdering(S))
    <2> HIDE DEF T
    <2> QED  BY <1>2, <1>3, FS_StrictSubsetOrderingWellFounded, WFMin
  <1>5. PICK c \in S : t = UpTo(c)
    OBVIOUS
  <1>6. ASSUME NEW d \in S, p[d] < p[c] PROVE FALSE
    <2>1. UpTo(d) \subseteq UpTo(c)
      BY <1>6
    <2>2. c \in UpTo(c) /\ c \notin UpTo(d)
      BY <1>6
    <2>3. UpTo(d) \in T /\ UpTo(d) \in SUBSET S /\ UpTo(c) \in SUBSET S
      OBVIOUS
    <2>4. <<UpTo(d), UpTo(c)>> \in StrictSubsetOrdering(S)
      BY <2>1, <2>2, <2>3 DEF StrictSubsetOrdering
    <2> QED  BY <1>4, <1>5, <2>3, <2>4
  <1> QED  BY <1>6

LEMMA GreatestExists ==
    ASSUME NEW p \in [Names -> Int], NEW S \in SUBSET Names, S # {}
    PROVE  \E e \in S : \A d \in S : p[e] >= p[d]
  <1> DEFINE back == [n \in Names |-> 0 - p[n]]
  <1>1. back \in [Names -> Int]
    OBVIOUS
  <1>2. PICK e \in S : \A d \in S : back[e] <= back[d]
    <2> HIDE DEF back
    <2> QED  BY <1>1, LeastExists
  <1>3. ASSUME NEW d \in S PROVE p[e] >= p[d]
    <2>1. back[e] = 0 - p[e] /\ back[d] = 0 - p[d] /\ back[e] <= back[d]
      BY <1>2
    <2>2. p[e] \in Int /\ p[d] \in Int
      OBVIOUS
    <2> HIDE DEF back
    <2> QED  BY <2>1, <2>2
  <1> QED  BY <1>3

(* A new symbol ranks above all that are linked. *)
LEMMA TopIsAbove ==
    ASSUME TypeOK
    PROVE  Top \in Int /\ \A m \in table : rank[m] < Top
  <1>1. CASE table = {}
    BY <1>1 DEF Top
  <1>2. CASE table # {}
    <2> DEFINE h == CHOOSE n \in table : \A m \in table : rank[m] <= rank[n]
    <2>1. \E n \in table : \A m \in table : rank[m] <= rank[n]
      <3>1. rank \in [Names -> Int] /\ table \in SUBSET Names
        BY DEF TypeOK
      <3>2. PICK n \in table : \A m \in table : rank[n] >= rank[m]
        BY <1>2, <3>1, GreatestExists
      <3> QED  BY <3>1, <3>2
    <2>2. h \in table /\ \A m \in table : rank[m] <= rank[h]
      BY <2>1
    <2>3. Top = 1 + rank[h]
      BY <1>2 DEF Top
    <2>4. rank[h] \in Int /\ \A m \in table : rank[m] \in Int
      BY <2>2 DEF TypeOK
    <2> HIDE DEF h
    <2> QED  BY <2>2, <2>3, <2>4
  <1> QED  BY <1>1, <1>2

(* The first symbol of a set in the order of enumeration. *)
LEMMA FirstOfSet ==
    ASSUME TypeOK, Ranked, NEW S \in SUBSET table, S # {}
    PROVE  FirstOf(S) \in S /\ \A m \in S \ {FirstOf(S)} : Before(FirstOf(S), m)
  <1>1. bucket \in [Names -> Int] /\ rank \in [Names -> Int] /\ S \in SUBSET Names
    BY DEF TypeOK
  <1>2. PICK b \in S : \A m \in S : bucket[b] <= bucket[m]
    BY <1>1, LeastExists
  <1> DEFINE C == {m \in S : bucket[m] = bucket[b]}
  <1>3. PICK n \in C : \A m \in C : rank[n] >= rank[m]
    <2>1. C \in SUBSET Names /\ C # {}
      BY <1>1
    <2> HIDE DEF C
    <2> QED  BY <1>1, <2>1, GreatestExists
  <1>4. ASSUME NEW m \in S \ {n} PROVE Before(n, m)
    <2>1. bucket[n] = bucket[b] /\ bucket[b] <= bucket[m]
      BY <1>2, <1>3
    <2>2. bucket[m] = bucket[b] => rank[n] >= rank[m] /\ rank[n] # rank[m]
      BY <1>3, <1>4 DEF Ranked
    <2>3. bucket[m] \in Int /\ bucket[n] \in Int /\ rank[m] \in Int /\ rank[n] \in Int
      BY <1>1
    <2> HIDE DEF C
    <2> QED  BY <2>1, <2>2, <2>3 DEF Before
  <1>5. n \in S
    OBVIOUS
  <1> HIDE DEF C
  <1> QED  BY <1>4, <1>5 DEF FirstOf

(* With the key of the enumerator in step with its symbol, what is behind a *)
(* symbol is what comes after it.                                           *)
LEMMA BehindIsAfter ==
    ASSUME TypeOK, NEW n \in table
    PROVE  Behind(n, bucket[n]) = {m \in table : Before(n, m)}
  BY DEF Behind, Before, TypeOK

(* Starting at the first symbol of a final part of the table is to have that *)
(* part ahead. *)
LEMMA FinalPart ==
    ASSUME TypeOK, Ranked, NEW S \in SUBSET table, S # {},
           \A a \in S, b \in table : Before(a, b) => b \in S
    PROVE  /\ Symbol(S) \in S
           /\ Chain(S) = bucket[Symbol(S)]
           /\ {Symbol(S)} \cup Behind(Symbol(S), Chain(S)) = S
  <1> DEFINE x == FirstOf(S)
  <1>1. x \in S /\ \A m \in S \ {x} : Before(x, m)
    BY FirstOfSet
  <1>2. Symbol(S) = x /\ Chain(S) = bucket[x]
    BY DEF Symbol, Chain
  <1> HIDE DEF x
  <1>3. Behind(x, bucket[x]) = {m \in table : Before(x, m)}
    BY <1>1, BehindIsAfter
  <1> QED  BY <1>1, <1>2, <1>3

(* Behind a symbol there is such a final part, without the symbol itself. *)
LEMMA BehindIsFinal ==
    ASSUME TypeOK, NEW n \in table
    PROVE  /\ Behind(n, bucket[n]) \in SUBSET table
           /\ n \notin Behind(n, bucket[n])
           /\ \A a \in Behind(n, bucket[n]), b \in table :
                 Before(a, b) => b \in Behind(n, bucket[n])
  <1>1. Behind(n, bucket[n]) = {m \in table : Before(n, m)}
    BY BehindIsAfter
  <1>2. ASSUME NEW a \in table, NEW b \in table, Before(n, a), Before(a, b)
        PROVE  Before(n, b)
    BY <1>2 DEF Before, TypeOK
  <1>3. ~Before(n, n)
    BY DEF Before, TypeOK
  <1> QED  BY <1>1, <1>2, <1>3

-----------------------------------------------------------------------------
LEMMA HashInRange ==
    ASSUME NEW n \in Names, NEW b \in Nat \ {0}
    PROVE  pointerHashValue(n, b) \in Nat /\ pointerHashValue(n, b) < b
  <1>1. HashOf[n] \in Nat
    BY HashTableAssumption
  <1>2. \A x \in Nat : x % b \in Nat /\ x % b < b
    OBVIOUS
  <1> QED  BY <1>1, <1>2 DEF pointerHashValue

(* Where an enumerator goes that leaves symbol n, or that begins. *)
LEMMA SymbolType ==
    ASSUME TypeOK, Ranked, NEW S \in SUBSET table
    PROVE  /\ Symbol(S) \in S \cup {NULL}
           /\ Chain(S) \in Nat
           /\ Chain(S) = IF Symbol(S) = NULL THEN buckets ELSE bucket[Symbol(S)]
  <1>1. CASE S = {}
    BY <1>1 DEF Symbol, Chain, TypeOK
  <1>2. CASE S # {}
    <2>1. FirstOf(S) \in S
      BY <1>2, FirstOfSet
    <2>2. FirstOf(S) # NULL
      BY <2>1, HashTableAssumption DEF TypeOK
    <2> QED  BY <1>2, <2>1, <2>2 DEF Symbol, Chain, TypeOK
  <1> QED  BY <1>1, <1>2

LEMMA InvInit == Init => Inv
  <1> SUFFICES ASSUME Init PROVE Inv
    OBVIOUS
  <1>1. TypeOK
    BY HashTableAssumption DEF Init, TypeOK
  <1>2. checkHTable
    BY FS_EmptySet DEF Init, checkHTable
  <1>3. Ranked /\ EnumeratorsStand
    BY DEF Init, Ranked, EnumeratorsStand
  <1> QED  BY <1>1, <1>2, <1>3 DEF Inv


LEMMA AddKeeps ==
    ASSUME Inv, NEW n \in Names, addHTable(n)
    PROVE  Inv'
  <1> USE DEF Inv
  <1> DEFINE linked == table \cup {n}
             full   == buckets * 2 < size + 1 /\ enumerators = {}
             pushed == [rank EXCEPT ![n] = Top]
  <1>1. /\ n \notin table
        /\ table' = linked /\ size' = size + 1
        /\ enumerators' = enumerators /\ current' = current
        /\ key' = key /\ got' = got
    BY DEF addHTable, checkHTable, lookupHTable, cursors
  <1>2. /\ pushed \in [Names -> Int]
        /\ \A m, k \in linked : m # k => pushed[m] # pushed[k]
    <2>1. Top \in Int /\ \A m \in table : rank[m] < Top
      BY TopIsAbove
    <2>2. \A m \in table : pushed[m] = rank[m]
      BY <1>1 DEF TypeOK
    <2>3. pushed[n] = Top
      BY DEF TypeOK
    <2> QED  BY <2>1, <2>2, <2>3 DEF TypeOK, Ranked
  <1>3. size' = Cardinality(table')
    <2>1. IsFiniteSet(table)
      BY HashTableAssumption, FS_Subset DEF TypeOK
    <2> QED  BY <1>1, <2>1, FS_AddElement DEF checkHTable
  <1>4. CASE full
    <2>1. /\ buckets' = buckets * 2
          /\ bucket' = [m \in Names |-> IF m \in linked
                                        THEN pointerHashValue(m, buckets * 2)
                                        ELSE bucket[m]]
          /\ rank' = [m \in Names |-> - pushed[m]]
      BY <1>4 DEF addHTable
    <2>2. buckets' \in Nat \ {0}
      BY <2>1 DEF TypeOK
    <2>3. \A m \in Names : pointerHashValue(m, buckets * 2) \in Nat
      BY <2>1, <2>2, HashInRange
    <2> HIDE DEF pushed
    <2>4. TypeOK'
      BY <1>1, <1>2, <2>1, <2>2, <2>3 DEF TypeOK
    <2>5. checkHTable'
      <3>1. \A m \in linked : bucket'[m] = pointerHashValue(m, buckets')
        BY <2>1 DEF TypeOK
      <3> QED  BY <1>1, <1>3, <3>1 DEF checkHTable, lookupHTable, pointerHashValue
    <2>6. Ranked'
      <3>1. linked \in SUBSET Names
        BY DEF TypeOK
      <3> QED  BY <1>1, <1>2, <2>1, <3>1 DEF Ranked
    <2>7. EnumeratorsStand'
      BY <1>1, <1>4 DEF EnumeratorsStand
    <2> QED  BY <2>4, <2>5, <2>6, <2>7
  <1>5. CASE ~full
    <2>1. /\ bucket' = [bucket EXCEPT ![n] = pointerHashValue(n, buckets)]
          /\ rank' = pushed /\ buckets' = buckets
      BY <1>5 DEF addHTable
    <2>2. pointerHashValue(n, buckets) \in Nat
      BY HashInRange DEF TypeOK
    <2> HIDE DEF pushed
    <2>3. TypeOK'
      BY <1>1, <1>2, <2>1, <2>2 DEF TypeOK
    <2>4. \A m \in table : bucket'[m] = bucket[m]
      BY <1>1, <2>1 DEF TypeOK
    <2>5. checkHTable'
      <3>1. \A m \in linked : bucket'[m] = pointerHashValue(m, buckets')
        BY <2>1, <2>4 DEF TypeOK, checkHTable, lookupHTable
      <3> QED  BY <1>1, <1>3, <3>1 DEF checkHTable, lookupHTable, pointerHashValue
    <2>6. Ranked'
      BY <1>1, <1>2, <2>1 DEF Ranked
    <2>7. EnumeratorsStand'
      BY <1>1, <2>1, <2>4, HashTableAssumption DEF EnumeratorsStand, TypeOK
    <2> QED  BY <2>3, <2>5, <2>6, <2>7
  <1> QED  BY <1>4, <1>5

LEMMA DeleteKeeps ==
    ASSUME Inv, NEW n \in Names, deleteSymbolHTable(n)
    PROVE  Inv'
  <1> USE DEF Inv
  <1> DEFINE at == {e \in enumerators : current[e] = n}
             S  == Behind(n, bucket[n])
  <1>1. /\ n \in table /\ table' = table \ {n} /\ size' = size - 1
        /\ bucket' = bucket /\ rank' = rank /\ buckets' = buckets
        /\ enumerators' = enumerators /\ got' = got
    BY DEF deleteSymbolHTable, lookupHTable
  <1>2. n # NULL
    BY HashTableAssumption
  <1>3. \A e \in at : key[e] = bucket[n]
    BY <1>2 DEF EnumeratorsStand
  <1>4. /\ current' = [e \in Enums |-> IF e \in at THEN Symbol(S) ELSE current[e]]
        /\ key' = [e \in Enums |-> IF e \in at THEN Chain(S) ELSE key[e]]
    BY <1>3 DEF deleteSymbolHTable
  <1>5. S \in SUBSET (table \ {n})
    BY <1>1, BehindIsFinal
  <1>6. /\ Symbol(S) \in S \cup {NULL}
        /\ Chain(S) \in Nat
        /\ Chain(S) = IF Symbol(S) = NULL THEN buckets ELSE bucket[Symbol(S)]
    BY <1>5, SymbolType
  <1> HIDE DEF S
  <1>7. TypeOK'
    BY <1>1, <1>4, <1>5, <1>6 DEF TypeOK
  <1>8. checkHTable'
    <2>1. IsFiniteSet(table)
      BY HashTableAssumption, FS_Subset DEF TypeOK
    <2>2. size' = Cardinality(table')
      BY <1>1, <2>1, FS_RemoveElement DEF checkHTable
    <2> QED  BY <1>1, <2>2 DEF checkHTable, lookupHTable, pointerHashValue
  <1>9. Ranked'
    BY <1>1 DEF Ranked
  <1>10. EnumeratorsStand'
    <2>1. SUFFICES ASSUME NEW e \in enumerators
                   PROVE  /\ current'[e] \in table' \cup {NULL}
                          /\ key'[e] = IF current'[e] = NULL THEN buckets'
                                       ELSE bucket'[current'[e]]
      BY <1>1 DEF EnumeratorsStand
    <2>2. e \in Enums
      BY DEF TypeOK
    <2>3. CASE e \in at
      BY <1>1, <1>4, <1>5, <1>6, <2>2, <2>3
    <2>4. CASE e \notin at
      <3>1. current'[e] = current[e] /\ key'[e] = key[e] /\ current[e] # n
        BY <1>4, <2>2, <2>4
      <3> QED  BY <1>1, <3>1 DEF EnumeratorsStand
    <2> QED  BY <2>3, <2>4
  <1> QED  BY <1>7, <1>8, <1>9, <1>10

LEMMA ClearKeeps ==
    ASSUME Inv, clearHTable
    PROVE  Inv'
  <1> USE DEF Inv, clearHTable
  <1>1. TypeOK'
    BY DEF TypeOK
  <1>2. checkHTable'
    BY FS_EmptySet DEF checkHTable
  <1>3. Ranked' /\ EnumeratorsStand'
    BY DEF Ranked, EnumeratorsStand, TypeOK
  <1> QED  BY <1>1, <1>2, <1>3

(* An enumerator that is put at the first symbol of a part of the table. *)
LEMMA MoveKeeps ==
    ASSUME Inv, NEW e \in Enums, NEW S \in SUBSET table,
           UNCHANGED symbols, got' \in [Enums -> Names \cup {NULL}],
           enumerators' \in SUBSET Enums, enumerators' \subseteq enumerators \cup {e},
           current' = [current EXCEPT ![e] = Symbol(S)],
           key' = [key EXCEPT ![e] = Chain(S)]
    PROVE  Inv'
  <1> USE DEF Inv, symbols
  <1>1. /\ Symbol(S) \in S \cup {NULL}
        /\ Chain(S) \in Nat
        /\ Chain(S) = IF Symbol(S) = NULL THEN buckets ELSE bucket[Symbol(S)]
    BY SymbolType
  <1>2. TypeOK'
    BY <1>1 DEF TypeOK
  <1>3. checkHTable' /\ Ranked'
    BY DEF checkHTable, Ranked, lookupHTable, pointerHashValue
  <1>4. EnumeratorsStand'
    BY <1>1 DEF EnumeratorsStand, TypeOK
  <1> QED  BY <1>2, <1>3, <1>4

LEMMA EnumKeeps ==
    ASSUME Inv, NEW e \in Enums,
           newTableEnum(e) \/ advanceTableEnum(e) \/ freeTableEnum(e)
    PROVE  Inv'
  <1> USE DEF Inv
  <1>1. CASE newTableEnum(e)
    <2>1. enumerators' \in SUBSET Enums /\ got' \in [Enums -> Names \cup {NULL}]
      BY <1>1 DEF newTableEnum, TypeOK
    <2> QED  BY <1>1, <2>1, MoveKeeps DEF newTableEnum
  <1>2. CASE advanceTableEnum(e) /\ current[e] # NULL
    <2>1. current[e] \in table /\ key[e] = bucket[current[e]]
      BY <1>2 DEF advanceTableEnum, EnumeratorsStand
    <2>2. Behind(current[e], key[e]) \in SUBSET table
      BY <2>1, BehindIsFinal
    <2>3. enumerators' \in SUBSET Enums /\ got' \in [Enums -> Names \cup {NULL}]
      BY <1>2 DEF advanceTableEnum, TypeOK
    <2> QED  BY <1>2, <2>2, <2>3, MoveKeeps DEF advanceTableEnum
  <1>3. CASE advanceTableEnum(e) /\ current[e] = NULL
    <2>1. UNCHANGED <<symbols, enumerators, current, key>>
      BY <1>3 DEF advanceTableEnum
    <2>2. got' \in [Enums -> Names \cup {NULL}]
      BY <1>3 DEF advanceTableEnum, TypeOK
    <2> QED  BY <2>1, <2>2 DEF symbols, TypeOK, checkHTable, lookupHTable,
                              pointerHashValue, Ranked, EnumeratorsStand
  <1>4. CASE freeTableEnum(e)
    <2>1. TypeOK'
      BY <1>4 DEF freeTableEnum, symbols, TypeOK
    <2>2. checkHTable' /\ Ranked'
      BY <1>4 DEF freeTableEnum, symbols, checkHTable, Ranked, lookupHTable,
                  pointerHashValue
    <2>3. EnumeratorsStand'
      BY <1>4 DEF freeTableEnum, symbols, EnumeratorsStand, TypeOK
    <2> QED  BY <2>1, <2>2, <2>3
  <1> QED  BY <1>1, <1>2, <1>3, <1>4

LEMMA InvNext == Inv /\ [Next]_vars => Inv'
  <1> SUFFICES ASSUME Inv, [Next]_vars PROVE Inv'
    OBVIOUS
  <1>1. CASE Next
    BY <1>1, AddKeeps, DeleteKeeps, ClearKeeps, EnumKeeps DEF Next
  <1>2. CASE UNCHANGED vars
    BY <1>2 DEF vars, symbols, cursors, Inv, TypeOK, checkHTable, lookupHTable,
                pointerHashValue, Ranked, EnumeratorsStand
  <1> QED  BY <1>1, <1>2

LEMMA Invariance == Spec => []Inv
  BY InvInit, InvNext, PTL DEF Spec

(* The variables keep their types. *)
THEOREM TypeCorrect == Spec => []TypeOK
  <1>1. Inv => TypeOK
    BY DEF Inv
  <1> QED  BY <1>1, Invariance, PTL

(* Every symbol is found by its name, also after rehashing, and size is      *)
(* their number. *)
THEOREM SymbolsFound == Spec => []checkHTable
  <1>1. Inv => checkHTable
    BY DEF Inv
  <1> QED  BY <1>1, Invariance, PTL

(* No enumerator is ever left at a symbol that was freed. *)
THEOREM EnumeratorsSafe == Spec => []EnumeratorsStand
  <1>1. Inv => EnumeratorsStand
    BY DEF Inv
  <1> QED  BY <1>1, Invariance, PTL

-----------------------------------------------------------------------------
(* Refinement of SymbolTable: the symbols ahead of an enumerator are what it *)
(* still has to return. *)

todo == [e \in Enums |-> ahead(e)]

LEMMA AheadInTable ==
    ASSUME Inv, NEW e \in Enums
    PROVE  /\ ahead(e) \in SUBSET table
           /\ ahead(e) # {} <=> e \in enumerators /\ current[e] # NULL
           /\ current[e] # NULL /\ e \in enumerators =>
                /\ current[e] \in table /\ current[e] \in ahead(e)
                /\ key[e] = bucket[current[e]]
                /\ ahead(e) = {current[e]} \cup {m \in table : Before(current[e], m)}
  <1>1. CASE e \in enumerators /\ current[e] # NULL
    <2>1. current[e] \in table /\ key[e] = bucket[current[e]]
      BY <1>1 DEF Inv, EnumeratorsStand
    <2>2. Behind(current[e], key[e]) = {m \in table : Before(current[e], m)}
      BY <2>1, BehindIsAfter DEF Inv
    <2>3. ahead(e) = {current[e]} \cup Behind(current[e], key[e])
      BY <1>1 DEF ahead
    <2> QED  BY <1>1, <2>1, <2>2, <2>3
  <1>2. CASE ~(e \in enumerators /\ current[e] # NULL)
    BY <1>2 DEF ahead
  <1> QED  BY <1>1, <1>2

LEMMA AddRefines ==
    ASSUME Inv, NEW n \in Names, addHTable(n)
    PROVE  Enumeration!Add(n)
  <1> DEFINE late == {e \in enumerators : n \in ahead(e)'}
  <1>1. /\ n \notin table /\ table' = table \cup {n}
        /\ enumerators' = enumerators /\ current' = current
        /\ key' = key /\ got' = got
    BY DEF addHTable, Inv, checkHTable, lookupHTable, cursors
  <1>2. ASSUME NEW e \in Enums
        PROVE  ahead(e)' = IF e \in late THEN ahead(e) \cup {n} ELSE ahead(e)
    <2>1. CASE e \in enumerators /\ current[e] # NULL
      <3> DEFINE c == current[e]
      <3>1. enumerators # {}
        BY <2>1
      <3>2. \A m \in table : bucket'[m] = bucket[m] /\ rank'[m] = rank[m]
        BY <1>1, <3>1 DEF addHTable, Inv, TypeOK
      <3>3. c \in table /\ ahead(e) = {c} \cup Behind(c, key[e])
        BY <2>1, AheadInTable DEF ahead
      <3>4. ahead(e)' = {c} \cup {m \in table' :
                             \/ bucket'[m] = bucket'[c] /\ rank'[m] < rank'[c]
                             \/ bucket'[m] > key[e]}
        BY <1>1, <2>1 DEF ahead, Behind
      <3>5. {m \in table :
                \/ bucket'[m] = bucket'[c] /\ rank'[m] < rank'[c]
                \/ bucket'[m] > key[e]} = Behind(c, key[e])
        BY <3>2, <3>3 DEF Behind
      <3> HIDE DEF c
      <3> QED  BY <1>1, <2>1, <3>3, <3>4, <3>5
    <2>2. CASE ~(e \in enumerators /\ current[e] # NULL)
      BY <1>1, <2>2 DEF ahead
    <2> QED  BY <2>1, <2>2
  <1>3. late \in SUBSET {e \in enumerators : todo[e] # {}}
    <2>1. ASSUME NEW e \in late PROVE e \in Enums /\ todo[e] # {}
      <3>1. e \in Enums /\ ahead(e)' # {}
        BY <2>1 DEF Inv, TypeOK
      <3>2. e \in enumerators /\ current[e] # NULL
        BY <1>1, <3>1 DEF ahead
      <3> QED  BY <3>1, <3>2, AheadInTable DEF todo
    <2> QED  BY <2>1
  <1> HIDE DEF late
  <1>4. todo' = [e \in Enums |-> IF e \in late THEN todo[e] \cup {n} ELSE todo[e]]
    BY <1>2 DEF todo
  <1> QED  BY <1>1, <1>3, <1>4 DEF Enumeration!Add, todo

LEMMA DeleteRefines ==
    ASSUME Inv, NEW n \in Names, deleteSymbolHTable(n)
    PROVE  Enumeration!Delete({n})
  <1> DEFINE S == Behind(n, bucket[n])
  <1>1. /\ n \in table /\ table' = table \ {n}
        /\ bucket' = bucket /\ rank' = rank /\ buckets' = buckets
        /\ enumerators' = enumerators /\ got' = got
    BY DEF deleteSymbolHTable, lookupHTable
  <1>2. n # NULL
    BY HashTableAssumption
  <1>3. ASSUME NEW e \in Enums
        PROVE  ahead(e)' = ahead(e) \ {n}
    <2>1. CASE e \in enumerators /\ current[e] = n
      <3>1. key[e] = bucket[n] /\ ahead(e) = {n} \cup S
        BY <1>2, <2>1, AheadInTable DEF ahead
      <3>2. current'[e] = Symbol(S) /\ key'[e] = Chain(S)
        BY <2>1, <3>1 DEF deleteSymbolHTable
      <3>3. /\ S \in SUBSET table /\ n \notin S
            /\ \A a \in S, b \in table : Before(a, b) => b \in S
        BY <1>1, BehindIsFinal DEF Inv
      <3> HIDE DEF S
      <3>4. CASE S = {}
        BY <1>1, <3>1, <3>2, <3>4 DEF Symbol, ahead
      <3>5. CASE S # {}
        <4>1. /\ Symbol(S) \in S
              /\ {Symbol(S)} \cup Behind(Symbol(S), Chain(S)) = S
          BY <3>3, <3>5, FinalPart DEF Inv
        <4>2. Symbol(S) # NULL
          BY <3>3, <4>1, HashTableAssumption DEF Inv, TypeOK
        <4>3. ahead(e)' = {Symbol(S)} \cup (Behind(Symbol(S), Chain(S)) \ {n})
          BY <1>1, <2>1, <3>2, <4>2 DEF ahead, Behind
        <4> QED  BY <3>1, <3>3, <4>1, <4>3
      <3> QED  BY <3>4, <3>5
    <2>2. CASE e \in enumerators /\ current[e] # n
      <3>1. current'[e] = current[e] /\ key'[e] = key[e]
        BY <2>2 DEF deleteSymbolHTable
      <3> QED  BY <1>1, <2>2, <3>1 DEF ahead, Behind
    <2>3. CASE e \notin enumerators
      BY <1>1, <2>3 DEF ahead
    <2> QED  BY <2>1, <2>2, <2>3
  <1> QED  BY <1>1, <1>3 DEF Enumeration!Delete

LEMMA ClearRefines ==
    ASSUME Inv, clearHTable
    PROVE  Enumeration!Delete(table)
  <1>1. ASSUME NEW e \in Enums PROVE ahead(e)' = ahead(e) \ table
    <2>1. ahead(e) \ table = {}
      BY AheadInTable
    <2>2. ahead(e)' = {}
      BY DEF clearHTable, ahead
    <2> QED  BY <2>1, <2>2
  <1> QED  BY <1>1 DEF Enumeration!Delete, clearHTable

LEMMA BeginRefines ==
    ASSUME Inv, NEW e \in Enums, newTableEnum(e)
    PROVE  Enumeration!Begin(e)
  <1> USE DEF newTableEnum, symbols
  <1>1. ahead(e)' = table
    <2>1. CASE table = {}
      BY <2>1 DEF ahead, Symbol, Inv, TypeOK
    <2>2. CASE table # {}
      <3>1. /\ Symbol(table) \in table
            /\ {Symbol(table)} \cup Behind(Symbol(table), Chain(table)) = table
        BY <2>2, FinalPart DEF Inv
      <3>2. Symbol(table) # NULL
        BY <3>1, HashTableAssumption DEF Inv, TypeOK
      <3>3. current'[e] = Symbol(table) /\ key'[e] = Chain(table)
        BY DEF Inv, TypeOK
      <3>4. ahead(e)' = {Symbol(table)} \cup Behind(Symbol(table), Chain(table))
        BY <3>2, <3>3 DEF ahead, Behind
      <3> QED  BY <3>1, <3>4
    <2> QED  BY <2>1, <2>2
  <1>2. ASSUME NEW d \in Enums \ {e} PROVE ahead(d)' = ahead(d)
    BY DEF ahead, Behind, Inv, TypeOK
  <1> QED  BY <1>1, <1>2 DEF Enumeration!Begin, Inv, TypeOK

LEMMA AdvanceRefines ==
    ASSUME Inv, NEW e \in Enums, advanceTableEnum(e)
    PROVE  Enumeration!AtEnd(e) \/ \E n \in Names : Enumeration!Return(e, n)
  <1> DEFINE s == current[e]
             S == Behind(s, key[e])
  <1> USE DEF advanceTableEnum, symbols
  <1>1. ASSUME NEW d \in Enums \ {e} PROVE ahead(d)' = ahead(d)
    BY DEF ahead, Behind, Inv, TypeOK
  <1>2. CASE s = NULL
    <2>1. ahead(e)' = ahead(e) /\ ahead(e) = {}
      BY <1>2 DEF ahead
    <2> QED  BY <1>1, <1>2, <2>1 DEF Enumeration!AtEnd
  <1>3. CASE s # NULL
    <2>1. s \in table /\ key[e] = bucket[s] /\ ahead(e) = {s} \cup S
      BY <1>3, AheadInTable DEF ahead
    <2>2. /\ S \in SUBSET table /\ s \notin S
          /\ \A a \in S, b \in table : Before(a, b) => b \in S
      BY <2>1, BehindIsFinal DEF Inv
    <2>3. current'[e] = Symbol(S) /\ key'[e] = Chain(S)
      BY <1>3 DEF Inv, TypeOK
    <2>4. ahead(e)' = S
      <3> HIDE DEF S
      <3>1. CASE S = {}
        BY <2>3, <3>1 DEF ahead, Symbol
      <3>2. CASE S # {}
        <4>1. /\ Symbol(S) \in S
              /\ {Symbol(S)} \cup Behind(Symbol(S), Chain(S)) = S
          BY <2>2, <3>2, FinalPart DEF Inv
        <4>2. Symbol(S) # NULL
          BY <2>2, <4>1, HashTableAssumption DEF Inv, TypeOK
        <4>3. ahead(e)' = {Symbol(S)} \cup Behind(Symbol(S), Chain(S))
          BY <2>3, <4>2 DEF ahead, Behind
        <4> QED  BY <4>1, <4>3
      <3> QED  BY <3>1, <3>2
    <2>5. s \in Names
      BY <2>1 DEF Inv, TypeOK
    <2> HIDE DEF S
    <2>6. ahead(e) \ {s} = S /\ s \in ahead(e)
      BY <2>1, <2>2
    <2>7. Enumeration!Return(e, s)
      BY <1>1, <2>4, <2>6 DEF Enumeration!Return
    <2> QED  BY <2>5, <2>7
  <1> QED  BY <1>2, <1>3

LEMMA EndRefines ==
    ASSUME Inv, NEW e \in Enums, freeTableEnum(e)
    PROVE  Enumeration!End(e)
  <1> USE DEF freeTableEnum, symbols
  <1>1. ahead(e)' = {}
    BY DEF ahead
  <1>2. ASSUME NEW d \in Enums \ {e} PROVE ahead(d)' = ahead(d)
    BY DEF ahead, Behind, Inv, TypeOK
  <1> QED  BY <1>1, <1>2 DEF Enumeration!End

(* Enumerating a table is safe whatever is added and deleted meanwhile: each *)
(* symbol that stays is returned, and once. *)
THEOREM EnumerationRefines == Spec => EnumerationSafe
  <1>1. Init => Enumeration!Init
    BY DEF Init, Enumeration!Init, ahead
  <1>2. Inv /\ [Next]_vars => [Enumeration!Next]_Enumeration!abstractVars
    <2> SUFFICES ASSUME Inv, [Next]_vars
                 PROVE  [Enumeration!Next]_Enumeration!abstractVars
      OBVIOUS
    <2>1. CASE UNCHANGED vars
      BY <2>1 DEF vars, symbols, cursors, Enumeration!abstractVars, ahead, Behind
    <2>2. ASSUME NEW n \in Names, addHTable(n) PROVE Enumeration!Next
      BY <2>2, AddRefines DEF Enumeration!Next
    <2>3. ASSUME NEW n \in Names, deleteSymbolHTable(n) PROVE Enumeration!Next
      <3>1. {n} \in SUBSET table
        BY <2>3 DEF deleteSymbolHTable, lookupHTable
      <3> QED  BY <2>3, <3>1, DeleteRefines DEF Enumeration!Next
    <2>4. ASSUME clearHTable PROVE Enumeration!Next
      BY <2>4, ClearRefines DEF Enumeration!Next
    <2>5. ASSUME NEW e \in Enums,
                 newTableEnum(e) \/ advanceTableEnum(e) \/ freeTableEnum(e)
          PROVE  Enumeration!Next
      BY <2>5, BeginRefines, AdvanceRefines, EndRefines DEF Enumeration!Next
    <2> QED  BY <2>1, <2>2, <2>3, <2>4, <2>5 DEF Next
  <1> QED  BY <1>1, <1>2, Invariance, PTL
           DEF Spec, EnumerationSafe, Enumeration!Spec

=============================================================================
