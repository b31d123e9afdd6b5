\* One thread of control: an operation is not interrupted between its steps.
CONSTANTS
    c1 = c1  c2 = c2  c3 = c3
    f1 = f1  f2 = f2
    k1 = k1  k2 = k2
    NoKey = NoKey
    NULL = NULL
    Clauses <- mcClauses
    Frames <- mcFrames
    Keys <- mcKeys
    KeyOf <- mcKeyOf
    Sources <- mcSources
    SourceOf <- mcSourceOf
    Kinds <- mcKinds
    Preemptive = FALSE
    GCRatio = 2
    MaxGeneration = 4
SPECIFICATION Spec
SYMMETRY Symmetric
VIEW mcView
INVARIANTS TypeOK ReferencesExact CountsExact NoGarbageWaits
PROPERTIES LogicalUpdateView
CHECK_DEADLOCK FALSE
