\* A signal that comes before the wait.
CONSTANTS
    t1 = t1  t2 = t2
    a1 = a1  a2 = a2  b1 = b1
    Threads <- mcThreads
    Messages <- mcMessages
    Goals <- mcGoals
    Unifies <- mcUnifies
SPECIFICATION FairSpec
PROPERTY GetReturns
CHECK_DEADLOCK FALSE
