---------------------------- MODULE MCUserMutex ----------------------------
(* Three threads that share two mutexes. *)
EXTENDS UserMutex, TLC

CONSTANTS t1, t2, t3, m1, m2

mcThreads == {t1, t2, t3}
mcMutexes == {m1, m2}

Symmetric == Permutations(mcThreads) \cup Permutations(mcMutexes)

=============================================================================
