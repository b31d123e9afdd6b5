------------------------- MODULE MCThreadMessages -------------------------
(* Two threads that send each other, and themselves, three messages. *)
EXTENDS ThreadMessages, TLC

CONSTANTS t1, t2, a1, a2, b1

mcThreads  == {t1, t2}
mcMessages == {a1, a2, b1}
mcGoals    == {"a(A)", "b(B)", "Any"}
mcUnifies  == "a(A)" :> {a1, a2} @@ "b(B)" :> {b1} @@ "Any" :> mcMessages

=============================================================================
