\* Programs of one clause in contexts, at most one signal.
CONSTANTS
    Programs <- mcPrograms
    StackSize = 24
    MaxSignals = 1
SPECIFICATION Spec
INVARIANTS TypeOK AnswersRight ReferencesExact ContextsExact StackSound TrailSafe TermsSound AssertionsHold DecompiledRight
PROPERTIES StacksHold
