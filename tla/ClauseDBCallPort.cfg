\* Leaving a goal at its call port, by a signal handler or by the tracer.
CONSTANTS
    c1 = c1  c2 = c2  c3 = c3
    f1 = f1  f2 = f2
    k1 = k1  k2 = k2
    NoKey = NoKey
    NULL = NULL
    Clauses <- mcClauses
    Frames <- mcFrames
    Keys <- mcKeys
    KeyOf <- mcKeyOf
    Sources <- mcSources
    SourceOf <- mcSourceOf
    Kinds <- mcCalls
    Preemptive = FALSE
    GCRatio = 2
    MaxGeneration = 3
SPECIFICATION PortSpec
INVARIANT ReferencesNonNegative
CHECK_DEADLOCK FALSE
