\* Locks, nested locks and unlocks by three threads.
CONSTANTS
    t1 = t1  t2 = t2  t3 = t3
    m1 = m1  m2 = m2
    Nobody = Nobody
    Threads <- mcThreads
    Mutexes <- mcMutexes
    MaxDepth = 2
SPECIFICATION Spec
SYMMETRY Symmetric
INVARIANTS TypeOK MutualExclusion OwnerHolds HeldExactly
CHECK_DEADLOCK FALSE
