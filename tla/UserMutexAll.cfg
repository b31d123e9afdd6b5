\* Unlocking all mutexes at once.
CONSTANTS
    t1 = t1  t2 = t2  t3 = t3
    m1 = m1  m2 = m2
    Nobody = Nobody
    Threads <- mcThreads
    Mutexes <- mcMutexes
    MaxDepth = 2
SPECIFICATION UnlockAllSpec
SYMMETRY Symmetric
INVARIANTS MutualExclusion
CHECK_DEADLOCK FALSE
