--------------------------- MODULE LogicalUpdate ---------------------------
(* What a predicate of the clause database promises to the goals that run   *)
(* it, with no generation, flag or reference count in sight: the logical    *)
(* update view.  A goal enumerates, in the order of the predicate, exactly  *)
(* the matching clauses that were in the database when it was called;       *)
(* clauses that are added or removed meanwhile make no difference to it.    *)
EXTENDS Integers

CONSTANTS Clauses,   \* compiled clauses; each is added at most once
          Frames,    \* goals that may be running on the predicate
          Keys,      \* first arguments that goals are called with
          NoKey,     \* no usable first argument (a variable)
          KeyOf,     \* first-argument key of each clause
          NULL       \* no clause

VARIABLES live,      \* clauses of the predicate
          used,      \* clauses that were added at some time
          order,     \* position of a clause in the predicate
          goal       \* per frame: its progress

abstractVars == <<live, used, order, goal>>

Status == {"idle", "exhausted", "active"}

Goals == [status : Status, todo : SUBSET Clauses, at : Clauses \cup {NULL}]

Rest(status) == [status |-> status, todo |-> {}, at |-> NULL]

Matching(c, k) == k = NoKey \/ KeyOf[c] \in {NoKey, k}

Init ==
    /\ live = {}
    /\ used = {}
    /\ order = [c \in Clauses |-> 0]
    /\ goal = [f \in Frames |-> Rest("idle")]

(* A new clause comes before or after every clause of the predicate. *)
Add(c) ==
    /\ c \notin used
    /\ live' = live \cup {c}
    /\ used' = used \cup {c}
    /\ order' = [order EXCEPT ![c] = order'[c]]
    /\ order'[c] \in Int
    /\ \/ \A d \in live : order'[c] < order[d]
       \/ \A d \in live : order[d] < order'[c]
    /\ UNCHANGED goal

Remove(S) ==
    /\ live' = live \ S
    /\ UNCHANGED <<used, order, goal>>

(* A goal takes its snapshot when it is called. *)
Start(f, k) ==
    /\ goal[f].status # "active"
    /\ goal' = [goal EXCEPT ![f] =
                  [status |-> "active", at |-> NULL,
                   todo |-> {c \in live : Matching(c, k)}]]
    /\ UNCHANGED <<live, used, order>>

(* ... and visits the first clause of the snapshot it has not visited. *)
Visit(f, c) ==
    /\ c \in goal[f].todo
    /\ \A d \in goal[f].todo : order[c] <= order[d]
    /\ goal' = [goal EXCEPT ![f] =
                  [status |-> "active", at |-> c, todo |-> @.todo \ {c}]]
    /\ UNCHANGED <<live, used, order>>

(* It may only run out of clauses when every clause has been visited ...   *)
Exhaust(f) ==
    /\ goal[f].status = "active"
    /\ goal[f].todo = {}
    /\ goal' = [goal EXCEPT ![f] = Rest("exhausted")]
    /\ UNCHANGED <<live, used, order>>

(* ... but some goals may be cut, or left by an exception, at any time.    *)
Abandon(F) ==
    /\ goal' = [f \in Frames |-> IF f \in F THEN Rest("idle") ELSE goal[f]]
    /\ UNCHANGED <<live, used, order>>

Next ==
    \/ \E c \in Clauses : Add(c)
    \/ \E S \in SUBSET live : Remove(S)
    \/ \E f \in Frames :
         \/ \E k \in Keys \cup {NoKey} : Start(f, k)
         \/ \E c \in Clauses : Visit(f, c)
         \/ Exhaust(f)
    \/ \E F \in SUBSET Frames : Abandon(F)

Spec == Init /\ [][Next]_abstractVars

============================================================================
