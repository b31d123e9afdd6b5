----------------------------- MODULE MCClauseDB -----------------------------
(* Small instances of ClauseDB for TLC. *)
EXTENDS ClauseDB, TLC

CONSTANTS c1, c2, c3, f1, f2, k1, k2

mcClauses == {c1, c2, c3}
mcFrames  == {f1, f2}
mcKeys    == {k1}

(* Goals with an unbound argument or k1: c2 does not match the latter. *)
mcKeyOf   == c1 :> k1 @@ c2 :> k2 @@ c3 :> NoKey

mcSourceOf == c1 :> "a.pl" @@ c2 :> "b.pl" @@ c3 :> "a.pl"
mcSources  == {"a.pl", "b.pl"}

(* clause/2 takes the steps of a call; the other instance has both. *)
mcKinds    == AllKinds \ {"clause", "retractall"}
mcCalls    == {"call"}
mcRetracts == {"retract"}
mcGoals    == {"call", "clause", "retract"}

(* What a freed clause last held can never be seen again, of the positions   *)
(* only the order matters, and how a frame ended is of no later consequence. *)
mcView ==
    LET kept(g) == [c \in linked |-> g[c]]
        rank(c) == Cardinality({d \in linked : pos[d] < pos[c]})
    IN <<linked, freed, kept([c \in linked |-> rank(c)]), kept(created),
         kept(erased), generation, counts,
         [f \in Frames |-> IF IsOver(f) THEN Over("idle") ELSE frame[f]]>>

Symmetric  == Permutations(mcFrames)

=============================================================================
