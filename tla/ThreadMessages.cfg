\* Sending to threads that look for, or wait for, some message.
CONSTANTS
    t1 = t1  t2 = t2
    a1 = a1  a2 = a2  b1 = b1
    Threads <- mcThreads
    Messages <- mcMessages
    Goals <- mcGoals
    Unifies <- mcUnifies
SPECIFICATION FairSpec
INVARIANTS TypeOK TriedInVain WaitsInVainIfMissed
PROPERTIES TakesFirst ReturnsUnlessMissed
CHECK_DEADLOCK FALSE
