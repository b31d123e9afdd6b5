---------------------------- MODULE SymbolTable ----------------------------
(* What a hash table promises to who enumerates it, with no bucket or chain  *)
(* in sight: although symbols are added and deleted meanwhile, and by others *)
(* as well, every symbol that stays in the table from the begin to the end   *)
(* of an enumeration is returned, none is returned twice, and none that is   *)
(* not in the table.                                                         *)
CONSTANTS Names,     \* names of symbols
          Enums,     \* enumerators
          NULL       \* no symbol

VARIABLES table,     \* names of the symbols in the table
          open,      \* enumerators in use
          todo,      \* per enumerator: symbols it still has to return
          got        \* per enumerator: what it returned last

abstractVars == <<table, open, todo, got>>

Init ==
    /\ table = {}
    /\ open = {}
    /\ todo = [e \in Enums |-> {}]
    /\ got = [e \in Enums |-> NULL]

(* An enumerator that is not at its end may return a new symbol or not. *)
Add(n) ==
    /\ n \notin table
    /\ table' = table \cup {n}
    /\ \E late \in SUBSET {e \in open : todo[e] # {}} :
          todo' = [e \in Enums |-> IF e \in late THEN todo[e] \cup {n} ELSE todo[e]]
    /\ UNCHANGED <<open, got>>

Delete(S) ==
    /\ table' = table \ S
    /\ todo' = [e \in Enums |-> todo[e] \ S]
    /\ UNCHANGED <<open, got>>

Begin(e) ==
    /\ e \notin open
    /\ open' = open \cup {e}
    /\ todo' = [todo EXCEPT ![e] = table]
    /\ got' = [got EXCEPT ![e] = NULL]
    /\ UNCHANGED table

Return(e, n) ==
    /\ e \in open /\ n \in todo[e]
    /\ got' = [got EXCEPT ![e] = n]
    /\ todo' = [todo EXCEPT ![e] = @ \ {n}]
    /\ UNCHANGED <<table, open>>

(* The end is reported only when nothing is left to return. *)
AtEnd(e) ==
    /\ e \in open /\ todo[e] = {}
    /\ got' = [got EXCEPT ![e] = NULL]
    /\ UNCHANGED <<table, open, todo>>

End(e) ==
    /\ e \in open
    /\ open' = open \ {e}
    /\ todo' = [todo EXCEPT ![e] = {}]
    /\ got' = [got EXCEPT ![e] = NULL]
    /\ UNCHANGED table

Next ==
    \/ \E n \in Names : Add(n)
    \/ \E S \in SUBSET table : Delete(S)
    \/ \E e \in Enums :
         Begin(e) \/ (\E n \in Names : Return(e, n)) \/ AtEnd(e) \/ End(e)

Spec == Init /\ [][Next]_abstractVars

=============================================================================
