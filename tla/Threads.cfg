\* The main thread and two others in three slots, one alias name.
CONSTANTS
    a1 = a1
    NULL = NULL
    Threads <- mcThreads
    Main = 1
    MaxThreads = 3
    Names <- mcNames
    MaxGoals <- mcGoals
    Outcomes <- mcOutcomes
SPECIFICATION FairSpec
CHECK_DEADLOCK FALSE
INVARIANTS TypeOK SlotsExclusive OwnSlot AliasesRight StatusReturned HooksRun HooksInOrder QueuedIsPending
PROPERTIES EndedIsFreed SignalsRun
