----------------------------- MODULE MCThreads -----------------------------
(* A small instance of Threads for TLC. *)
EXTENDS Threads, TLC

CONSTANTS a1

mcThreads == 1 .. 3
mcNames   == {a1}
mcGoals   == 1 :> 0 @@ 2 :> 2 @@ 3 :> 0
mcOutcomes == {"true"}

=============================================================================
